-------------------------- MODULE MongoSaveProofs --------------------------
(***************************************************************************)
(* Proofs about MongoSave and MongoSaveTx, for any stores, classes and     *)
(* object graphs.                                                          *)
(*                                                                         *)
(* The argument: no save runs beside fsck, so a sid that a save has found  *)
(* or written stays in its collection until the save ends, and a document  *)
(* is inserted when all it refers to is there.  The mark phase turns every *)
(* main document into a closed set of marked ones before the first         *)
(* collection is swept, so a sweep deletes nothing that a document outside *)
(* the condemned ones refers to.  A dispatch row is written for a main     *)
(* document and never changed, which is what makes a returned save last.   *)
(* A save in one transaction writes a graph that hangs on its main         *)
(* document, so every document is reached from a main one, and marked.     *)
(***************************************************************************)
EXTENDS MongoSaveTx, FiniteSetTheorems, SequenceTheorems, TLAPS

\* A sid is given to one insert, and has not been used before.
Numbered ==
  /\ \A d \in DOMAIN docs : d <= counter
  /\ \A w \in Stores : step[w] = "insert" => sid[w] \in 1..counter /\ sid[w] \notin DOMAIN docs
  /\ \A v, w \in Stores : v # w /\ step[v] = "insert" /\ step[w] = "insert" => sid[v] # sid[w]

Excluded ==
  /\ stage = "off" <=> fsck = NoStore
  /\ fsck # NoStore => \A w \in Stores : step[w] = "idle"

IsMain(o, d) == d \in OfContent(o) /\ docs[d].role = "main"

\* What a save knows at each of its steps.
SaveKnows(w) ==
  /\ IF step[w] = "idle" THEN DOMAIN memo[w] = {} ELSE stack[w] # <<>>
  /\ \A o \in DOMAIN memo[w] : memo[w][o] \in OfContent(o)
  /\ step[w] \in {"alloc", "insert"} => ChildrenSaved(w)
  /\ step[w] = "promote" => TopLevel(w) /\ sid[w] \in OfContent(Top(w))
  /\ step[w] \in {"dispatch", "register", "done"} => TopLevel(w) /\ IsMain(Top(w), sid[w])
  /\ step[w] \in {"dispatch", "register"} => Top(w) \in Entries
  /\ step[w] = "done" /\ Top(w) \in Entries =>
       Top(w) \in DOMAIN dispatch /\ dispatch[Top(w)] = sid[w]

SaveState == \A w \in Stores : SaveKnows(w)

DispatchSound == \A e \in DOMAIN dispatch : IsMain(e, dispatch[e])

\* Where the mark phase and the sweep of fsck stand.
MarkState ==
  /\ stage # "mark" => unswept = {}
  /\ stage = "mark" =>
       /\ Undispatched = {}
       /\ \A d \in DOMAIN docs : docs[d].role = "main" => d \in marked
       /\ \A d \in (marked \cap DOMAIN docs) \ pending : docs[d].refs \subseteq marked
       /\ \A d \in marked \cap DOMAIN docs :
            docs[d].role = "dep" => \E p \in marked \cap DOMAIN docs : d \in docs[p].refs
       /\ unswept # Collections => pending \cap DOMAIN docs = {}
       /\ \A d \in Condemned : Collection[docs[d].obj] \in unswept

LookupState ==
  \A e \in promised : lookup[e] \in {"row", "value"} /\ \E d \in Sids : <<e, d>> \in saved

IInv ==
  /\ TypeOK
  /\ Numbered
  /\ Excluded
  /\ SaveState
  /\ DispatchSound
  /\ MarkState
  /\ SavedIsDurable
  /\ OneDocumentPerContent
  /\ LookupState

-----------------------------------------------------------------------------
(* The end of a _save: its object joins the memo of the save *)

SaverTypes ==
  /\ step \in [Stores -> {"idle", "find", "children", "alloc", "insert",
                          "winner", "promote", "dispatch", "register", "done"}]
  /\ stack \in [Stores -> Seq(Objects)]
  /\ DOMAIN memo = Stores
  /\ \A w \in Stores : /\ DOMAIN memo[w] \subseteq Objects
                       /\ \A o \in DOMAIN memo[w] : memo[w][o] \in Sids
  /\ sid \in [Stores -> 0..MaxSid]

\* No document goes or changes its content, and no main document is demoted.
Keeps ==
  \A c \in DOMAIN docs :
    /\ c \in DOMAIN docs'
    /\ docs'[c].obj = docs[c].obj
    /\ docs[c].role = "main" => docs'[c].role = "main"

EndsInsert(w) ==
  \A v \in Stores : step'[v] = "insert" => v # w /\ step[v] = "insert" /\ sid'[v] = sid[v]

DispatchKeeps ==
  \A e \in DOMAIN dispatch : e \in DOMAIN dispatch' /\ dispatch'[e] = dispatch[e]

\* What one save knows survives the steps of all others.
LEMMA KnowsInv ==
  ASSUME NEW v \in Stores, SaveKnows(v), Keeps, DispatchKeeps,
         step'[v] = step[v], stack'[v] = stack[v], memo'[v] = memo[v], sid'[v] = sid[v]
  PROVE  SaveKnows(v)'
<1>1. \A o, d : d \in OfContent(o) => d \in OfContent(o)' /\ (IsMain(o, d) => IsMain(o, d)')
  BY DEF Keeps, OfContent, IsMain
<1>2. /\ Top(v)' = Top(v) /\ TopLevel(v)' = TopLevel(v)
      /\ ChildrenSaved(v)' = ChildrenSaved(v)
  BY DEF ChildrenSaved, TopLevel, Top
<1>3. \A o \in DOMAIN memo'[v] : memo'[v][o] \in OfContent(o)'
  BY <1>1 DEF SaveKnows
<1>4. step'[v] \in {"dispatch", "register", "done"} => IsMain(Top(v), sid[v])'
  <2>1. ASSUME NEW o, o = Top(v), IsMain(o, sid[v])
        PROVE  IsMain(Top(v), sid[v])'
    BY <1>1, <1>2, <2>1 DEF IsMain
  <2> QED
    BY <2>1 DEF SaveKnows
<1>5. step'[v] = "promote" => sid'[v] \in OfContent(Top(v))'
  BY <1>1, <1>2 DEF SaveKnows, OfContent
<1>6. QED
  BY <1>2, <1>3, <1>4, <1>5 DEF SaveKnows, DispatchKeeps

\* Whatever _save returns, the caller finds the document of the object under it.
LEMMA ReturnInv ==
  ASSUME TypeOK, SaveState, Keeps, DispatchKeeps,
         NEW w \in Stores, NEW d \in Sids, step[w] # "idle", Return(w, d),
         NEW o \in Objects, o = Top(w),
         d \in DOMAIN docs', docs'[d].obj = o, TopLevel(w) => docs'[d].role = "main"
  PROVE  SaverTypes' /\ SaveState' /\ EndsInsert(w)
<1> USE GraphAssumption, BoundsAssumption DEF Goto, Top, Put
<1>1. stack[w] \in Seq(Objects) /\ stack[w] # <<>>
  BY DEF TypeOK, SaveState, SaveKnows
<1>2. memo'[w] = Put(memo[w], o, d)
  BY DEF Return, TypeOK
<1>3. /\ DOMAIN memo'[w] \subseteq Objects
      /\ \A x \in DOMAIN memo'[w] : memo'[w][x] \in OfContent(x)' /\ memo'[w][x] \in Sids
  <2>1. DOMAIN memo'[w] = DOMAIN memo[w] \cup {o}
    BY <1>2
  <2>2. memo'[w][o] \in OfContent(o)' /\ memo'[w][o] \in Sids
    BY <1>2 DEF OfContent
  <2>3. ASSUME NEW x \in DOMAIN memo[w], x # o
        PROVE  memo'[w][x] \in OfContent(x)' /\ memo'[w][x] \in Sids
    <3>1. memo'[w][x] = memo[w][x] /\ memo[w][x] \in OfContent(x) /\ memo[w][x] \in Sids
      BY <1>2, <2>3 DEF SaveState, SaveKnows, TypeOK
    <3> QED
      BY <3>1 DEF Keeps, OfContent
  <2> QED
    BY <2>1, <2>2, <2>3 DEF TypeOK
<1>4. \A v \in Stores \ {w} :
        step'[v] = step[v] /\ stack'[v] = stack[v] /\ memo'[v] = memo[v] /\ sid'[v] = sid[v]
  BY DEF Return, TypeOK
<1>5. DOMAIN memo' = Stores /\ sid' \in [Stores -> 0..MaxSid] /\ sid'[w] = d
  BY DEF Return, TypeOK, Sids
<1>6. \A v \in Stores : /\ DOMAIN memo'[v] \subseteq Objects
                       /\ \A x \in DOMAIN memo'[v] : memo'[v][x] \in Sids
  BY <1>3, <1>4 DEF TypeOK
<1>7. CASE TopLevel(w)
  <2>1. /\ step' = [step EXCEPT ![w] = IF Top(w) \in Entries THEN "dispatch" ELSE "done"]
        /\ stack' = stack
    BY <1>7 DEF Return
  <2>2. SaverTypes'
    BY <1>5, <1>6, <2>1 DEF SaverTypes, TypeOK
  <2>3. SaveState'
    <3>1. SaveKnows(w)'
      BY <1>1, <1>3, <1>5, <1>7, <2>1
         DEF SaveState, SaveKnows, TypeOK, OfContent, IsMain, TopLevel
    <3>2. ASSUME NEW v \in Stores \ {w}
          PROVE  SaveKnows(v)'
      BY <1>4, KnowsInv DEF SaveState
    <3> QED
      BY <3>1, <3>2 DEF SaveState, SaveKnows
  <2> QED
    BY <1>4, <2>1, <2>2, <2>3 DEF EndsInsert, TypeOK
<1>8. CASE ~TopLevel(w)
  <2>1. /\ step' = [step EXCEPT ![w] = "children"]
        /\ stack' = [stack EXCEPT ![w] = Tail(stack[w])]
    BY <1>8 DEF Return
  <2>2. Tail(stack[w]) \in Seq(Objects) /\ Tail(stack[w]) # <<>>
    <3>1. Len(stack[w]) \in Nat \ {0, 1} /\ Tail(stack[w]) \in Seq(Objects)
      BY <1>1, <1>8, EmptySeq DEF TopLevel
    <3>2. Len(Tail(stack[w])) = Len(stack[w]) - 1
      BY <1>1, HeadTailProperties
    <3>3. Len(Tail(stack[w])) # 0
      BY <3>1, <3>2
    <3>4. Len(<<>>) = 0
      BY EmptySeq
    <3> QED
      BY <3>1, <3>3, <3>4, Zenon
  <2>3. stack' \in [Stores -> Seq(Objects)] /\ stack'[w] # <<>>
    BY <2>1, <2>2 DEF TypeOK
  <2>4. SaverTypes'
    BY <1>5, <1>6, <2>1, <2>3 DEF SaverTypes, TypeOK
  <2>5. SaveState'
    <3>1. SaveKnows(w)'
      BY <1>3, <2>1, <2>3
         DEF SaveState, SaveKnows, TypeOK, OfContent, IsMain, TopLevel
    <3>2. ASSUME NEW v \in Stores \ {w}
          PROVE  SaveKnows(v)'
      BY <1>4, KnowsInv DEF SaveState
    <3> QED
      BY <3>1, <3>2 DEF SaveState, SaveKnows
  <2> QED
    BY <1>4, <2>1, <2>4, <2>5 DEF EndsInsert, TypeOK
<1>9. QED
  BY <1>7, <1>8

LEMMA FoundInv ==
  ASSUME TypeOK, SaveState, UNCHANGED <<docs, dispatch>>,
         NEW w \in Stores, step[w] # "idle", NEW d \in OfContent(Top(w)), Found(w, d)
  PROVE  SaverTypes' /\ SaveState' /\ EndsInsert(w)
<1>1. d \in Sids /\ Keeps /\ DispatchKeeps
  BY DEF TypeOK, OfContent, Keeps, DispatchKeeps
<1>2. CASE TopLevel(w) /\ docs[d].role = "dep"
  <2>1. /\ step' = [step EXCEPT ![w] = "promote"] /\ sid' = [sid EXCEPT ![w] = d]
        /\ UNCHANGED <<memo, stack>>
    BY <1>2 DEF Found, Goto
  <2>2. SaverTypes' /\ EndsInsert(w)
    BY <1>1, <2>1 DEF SaverTypes, TypeOK, EndsInsert, Sids
  <2>3. SaveState'
    BY <1>2, <2>1 DEF SaveState, SaveKnows, TypeOK, OfContent, IsMain, ChildrenSaved, TopLevel, Top
  <2> QED
    BY <2>2, <2>3
<1>3. CASE ~(TopLevel(w) /\ docs[d].role = "dep")
  <2>1. /\ docs'[d].obj = Top(w) /\ d \in DOMAIN docs' /\ docs[d].role \in {"main", "dep"}
        /\ Top(w) \in Objects
    BY DEF OfContent, TypeOK, Docs
  <2> QED
    BY <1>1, <1>3, <2>1, ReturnInv DEF Found
<1>4. QED
  BY <1>2, <1>3

-----------------------------------------------------------------------------
(* The steps of a save *)

LEMMA StartSaveInv ==
  ASSUME IInv, NEW w \in Stores, NEW o \in Objects, StartSave(w, o)
  PROVE  IInv'
<1> USE GraphAssumption, BoundsAssumption
    DEF IInv, StartSave, First, Goto, Sids, saver, store, fsckVars, caches, lookups
<1>1. TypeOK'
  <2>1. /\ step' \in [Stores -> {"idle", "find", "children", "alloc", "insert",
                          "winner", "promote", "dispatch", "register", "done"}]
        /\ stack' \in [Stores -> Seq(Objects)]
    BY DEF TypeOK
  <2>2. /\ lastGeneration' \in [Stores -> 0..MaxGeneration]
        /\ cached' \in [Stores -> SUBSET Sids]
    BY DEF TypeOK
  <2> QED
    BY <2>1, <2>2 DEF TypeOK
<1>2. Numbered'
  BY DEF TypeOK, Numbered
<1>3. Excluded'
  BY DEF TypeOK, Excluded
<1>4. SaveState'
  BY DEF TypeOK, Docs, SaveState, SaveKnows, IsMain, OfContent, Top, TopLevel, Root, ChildrenSaved
<1>5. DispatchSound'
  BY DEF TypeOK, Docs, DispatchSound, IsMain, OfContent
<1>6. MarkState'
  BY DEF TypeOK, Excluded, MarkState, Undispatched, Condemned, Docs
<1>7. SavedIsDurable'
  BY DEF TypeOK, Docs, SavedIsDurable, SaveState, SaveKnows, IsMain, OfContent, Top, TopLevel, Root
<1>8. OneDocumentPerContent'
  BY DEF TypeOK, Docs, OneDocumentPerContent, OfContent
<1>9. LookupState'
  BY DEF TypeOK, LookupState, SavedIsDurable, OfContent, DispatchSound, IsMain
<1>10. QED
  BY <1>1, <1>2, <1>3, <1>4, <1>5, <1>6, <1>7, <1>8, <1>9

LEMMA LookupInv ==
  ASSUME IInv, NEW w \in Stores, NEW d \in OfContent(Top(w)), step[w] # "idle", Found(w, d),
         UNCHANGED <<store, saved, fsckVars, generation, caches, lookups>>
  PROVE  IInv'
<1> USE GraphAssumption, BoundsAssumption
    DEF IInv, Found, store, Goto, Sids, saver, store, fsckVars, caches, lookups
<1>1. SaverTypes' /\ SaveState' /\ EndsInsert(w)
  BY FoundInv
<1>2. \A v \in Stores : step[v] = "idle" => step'[v] = "idle"
  BY DEF Found, Return, TypeOK, Excluded
<1>3. TypeOK'
  BY <1>1 DEF TypeOK, SaverTypes
<1>4. Numbered'
  BY <1>1 DEF Numbered, EndsInsert
<1>5. Excluded'
  BY <1>1, <1>2 DEF Excluded
<1>6. SaveState'
  BY <1>1
<1>7. DispatchSound'
  BY DEF TypeOK, Docs, DispatchSound, IsMain, OfContent
<1>8. MarkState'
  BY DEF TypeOK, Excluded, MarkState, Undispatched, Condemned, Docs
<1>9. SavedIsDurable'
  BY DEF TypeOK, Docs, SavedIsDurable, SaveState, SaveKnows, IsMain, OfContent, Top, TopLevel, Root
<1>10. OneDocumentPerContent'
  BY DEF TypeOK, Docs, OneDocumentPerContent, OfContent
<1>11. LookupState'
  BY DEF TypeOK, LookupState, SavedIsDurable, OfContent, DispatchSound, IsMain
<1>12. QED
  BY <1>3, <1>4, <1>5, <1>6, <1>7, <1>8, <1>9, <1>10, <1>11

LEMMA FindByContentInv ==
  ASSUME IInv, NEW w \in Stores, FindByContent(w)
  PROVE  IInv'
<1>1. CASE \E d \in OfContent(Top(w)) : Found(w, d)
  BY <1>1, LookupInv DEF FindByContent
<1>2. CASE /\ step[w] = "find"
            /\ Goto(w, "children")
            /\ UNCHANGED <<store, stack, memo, sid, saved, fsckVars, generation, caches, lookups>>
  <2> USE <1>2 DEF IInv, Goto, store, fsckVars, caches, lookups
  <2>1. TypeOK'
    BY DEF TypeOK
  <2>2. Numbered'
    BY DEF TypeOK, Numbered
  <2>3. Excluded'
    BY DEF TypeOK, Excluded
  <2>4. SaveState'
    BY DEF TypeOK, Docs, SaveState, SaveKnows, IsMain, OfContent, Top, TopLevel, Root, ChildrenSaved
  <2>5. (DispatchSound /\ MarkState /\ SavedIsDurable /\ OneDocumentPerContent /\ LookupState)'
    BY DEF DispatchSound, MarkState, Undispatched, Condemned, SavedIsDurable, OneDocumentPerContent, LookupState,
           IsMain, OfContent
  <2> QED
    BY <2>1, <2>2, <2>3, <2>4, <2>5
<1>3. QED
  BY <1>1, <1>2 DEF FindByContent

LEMMA FindWinnerInv ==
  ASSUME IInv, NEW w \in Stores, FindWinner(w)
  PROVE  IInv'
<1>1. CASE \E d \in OfContent(Top(w)) : Found(w, d)
  BY <1>1, LookupInv DEF FindWinner
<1>3. QED
  BY <1>1 DEF FindWinner

LEMMA MatchByValueInv ==
  ASSUME IInv, NEW w \in Stores, MatchByValue(w)
  PROVE  IInv'
<1>1. CASE \E d \in OfContent(Top(w)) : Found(w, d)
  BY <1>1, LookupInv DEF MatchByValue
<1>2. CASE /\ step[w] = "children" /\ ChildrenSaved(w)
            /\ Goto(w, "alloc")
            /\ UNCHANGED <<store, stack, memo, sid, saved, fsckVars, generation, caches, lookups>>
  <2> USE <1>2 DEF IInv, Goto, store, fsckVars, caches, lookups
  <2>1. TypeOK'
    BY DEF TypeOK
  <2>2. Numbered'
    BY DEF TypeOK, Numbered
  <2>3. Excluded'
    BY DEF TypeOK, Excluded
  <2>4. SaveState'
    BY DEF TypeOK, Docs, SaveState, SaveKnows, IsMain, OfContent, Top, TopLevel, Root, ChildrenSaved
  <2>5. (DispatchSound /\ MarkState /\ SavedIsDurable /\ OneDocumentPerContent /\ LookupState)'
    BY DEF DispatchSound, MarkState, Undispatched, Condemned, SavedIsDurable, OneDocumentPerContent, LookupState,
           IsMain, OfContent
  <2> QED
    BY <2>1, <2>2, <2>3, <2>4, <2>5
<1>3. QED
  BY <1>1, <1>2 DEF MatchByValue, OfValue

LEMMA DescendInv ==
  ASSUME IInv, NEW w \in Stores, NEW o \in Objects, Descend(w, o)
  PROVE  IInv'
<1> USE GraphAssumption, BoundsAssumption
    DEF IInv, Descend, First, Goto, Sids, saver, store, fsckVars, caches, lookups
<1>1. TypeOK'
  <2>1. <<o>> \o stack[w] \in Seq(Objects)
    BY DEF TypeOK
  <2>2. /\ step' \in [Stores -> {"idle", "find", "children", "alloc", "insert",
                          "winner", "promote", "dispatch", "register", "done"}]
        /\ stack' \in [Stores -> Seq(Objects)]
    BY <2>1 DEF TypeOK
  <2> QED
    BY <2>2 DEF TypeOK
<1>2. Numbered'
  BY DEF TypeOK, Numbered
<1>3. Excluded'
  BY DEF TypeOK, Excluded
<1>4. SaveState'
  BY DEF TypeOK, Docs, SaveState, SaveKnows, IsMain, OfContent, Top, TopLevel, Root, ChildrenSaved
<1>5. DispatchSound'
  BY DEF TypeOK, Docs, DispatchSound, IsMain, OfContent
<1>6. MarkState'
  BY DEF TypeOK, Excluded, MarkState, Undispatched, Condemned, Docs
<1>7. SavedIsDurable'
  BY DEF TypeOK, Docs, SavedIsDurable, SaveState, SaveKnows, IsMain, OfContent, Top, TopLevel, Root
<1>8. OneDocumentPerContent'
  BY DEF TypeOK, Docs, OneDocumentPerContent, OfContent
<1>9. LookupState'
  BY DEF TypeOK, LookupState, SavedIsDurable, OfContent, DispatchSound, IsMain
<1>10. QED
  BY <1>1, <1>2, <1>3, <1>4, <1>5, <1>6, <1>7, <1>8, <1>9

LEMMA CounterNextInv ==
  ASSUME IInv, NEW w \in Stores, CounterNext(w)
  PROVE  IInv'
<1> USE GraphAssumption, BoundsAssumption
    DEF IInv, CounterNext, Goto, Sids, saver, store, fsckVars, caches, lookups
<1>1. TypeOK'
  BY DEF TypeOK, Docs
<1>2. Numbered'
  <2>1. /\ counter \in Nat /\ counter' = counter + 1 /\ sid'[w] = counter + 1 /\ docs' = docs
        /\ \A v \in Stores \ {w} : step'[v] = step[v] /\ sid'[v] = sid[v]
    BY DEF TypeOK
  <2>2. \A d \in DOMAIN docs : d \in Nat /\ d <= counter
    BY DEF TypeOK, Numbered
  <2> QED
    BY <2>1, <2>2 DEF Numbered
<1>3. Excluded'
  BY DEF TypeOK, Excluded
<1>4. SaveState'
  BY DEF TypeOK, Docs, SaveState, SaveKnows, IsMain, OfContent, Top, TopLevel, Root, ChildrenSaved
<1>5. DispatchSound'
  BY DEF TypeOK, Docs, DispatchSound, IsMain, OfContent
<1>6. MarkState'
  BY DEF TypeOK, Excluded, MarkState, Undispatched, Condemned, Docs
<1>7. SavedIsDurable'
  BY DEF TypeOK, Docs, SavedIsDurable, SaveState, SaveKnows, IsMain, OfContent, Top, TopLevel, Root
<1>8. OneDocumentPerContent'
  BY DEF TypeOK, Docs, OneDocumentPerContent, OfContent
<1>9. LookupState'
  BY DEF TypeOK, LookupState, SavedIsDurable, OfContent, DispatchSound, IsMain
<1>10. QED
  BY <1>1, <1>2, <1>3, <1>4, <1>5, <1>6, <1>7, <1>8, <1>9

LEMMA InsertInv ==
  ASSUME IInv, NEW w \in Stores, Insert(w)
  PROVE  IInv'
<1> USE GraphAssumption, BoundsAssumption DEF IInv, Sids, store, fsckVars, caches, lookups
<1>1. CASE Dedup[Top(w)] = "content_id" /\ OfContent(Top(w)) # {}
  <2>1. /\ step[w] = "insert" /\ step' = [step EXCEPT ![w] = "winner"]
        /\ UNCHANGED <<docs, dispatch, stack, memo, sid>>
    BY <1>1 DEF Insert, Goto
  <2>2. (TypeOK /\ Numbered /\ Excluded)'
    BY <2>1 DEF Insert, TypeOK, Numbered, Excluded
  <2>3. SaveState'
    BY <2>1 DEF TypeOK, SaveState, SaveKnows, IsMain, OfContent, Top, TopLevel, ChildrenSaved
  <2>4. (DispatchSound /\ MarkState /\ SavedIsDurable /\ OneDocumentPerContent /\ LookupState)'
    BY <2>1 DEF Insert, DispatchSound, MarkState, Undispatched, Condemned, SavedIsDurable,
           OneDocumentPerContent, LookupState, IsMain, OfContent
  <2> QED
    BY <2>2, <2>3, <2>4
<1>2. CASE ~(Dedup[Top(w)] = "content_id" /\ OfContent(Top(w)) # {})
  <2> DEFINE new == [obj |-> Top(w), refs |-> ChildSids(w),
                     role |-> IF TopLevel(w) THEN "main" ELSE "dep"]
  <2>1. /\ step[w] = "insert" /\ docs' = Put(docs, sid[w], new) /\ Return(w, sid[w])
        /\ UNCHANGED <<counter, dispatch, saved, fsckVars, generation, caches, lookups>>
    BY <1>2 DEF Insert
  <2>2. Top(w) \in Objects /\ sid[w] \in 1..counter /\ sid[w] \in Sids /\ sid[w] \notin DOMAIN docs
    BY <2>1 DEF SaveState, SaveKnows, Numbered, TypeOK, Top
  <2>3. new \in Docs
    BY <2>1, <2>2 DEF SaveState, SaveKnows, ChildrenSaved, ChildSids, Docs, TypeOK, OfContent
  <2>4. /\ DOMAIN docs' = DOMAIN docs \cup {sid[w]} /\ docs'[sid[w]] = new
        /\ \A d \in DOMAIN docs : docs'[d] = docs[d]
    BY <2>1, <2>2 DEF Put
  <2>5. Keeps /\ DispatchKeeps
    BY <2>1, <2>4 DEF Keeps, DispatchKeeps
  <2>6. SaverTypes' /\ SaveState' /\ EndsInsert(w)
    BY <2>1, <2>2, <2>4, <2>5, ReturnInv
  <2>7. stage = "off" /\ unswept = {}
    BY <2>1 DEF Excluded, MarkState
  <2> HIDE DEF new
  <2>8. TypeOK'
    BY <2>1, <2>2, <2>3, <2>4, <2>6 DEF TypeOK, SaverTypes
  <2>9. Numbered'
    BY <2>1, <2>2, <2>4, <2>6 DEF Numbered, EndsInsert, TypeOK
  <2>10. (Excluded /\ MarkState)'
    BY <2>1, <2>7 DEF Excluded, MarkState
  <2>11. (DispatchSound /\ SavedIsDurable /\ LookupState)'
    BY <2>1, <2>5 DEF DispatchSound, SavedIsDurable, LookupState, IsMain, OfContent, Keeps
  <2>12. OneDocumentPerContent'
    BY <1>2, <2>4 DEF OneDocumentPerContent, OfContent, new
  <2> QED
    BY <2>6, <2>8, <2>9, <2>10, <2>11, <2>12
<1>3. QED
  BY <1>1, <1>2

LEMMA PromoteInv ==
  ASSUME IInv, NEW w \in Stores, Promote(w)
  PROVE  IInv'
<1> USE GraphAssumption, BoundsAssumption DEF IInv, Sids, store, fsckVars, caches, lookups
<1>1. /\ step[w] = "promote" /\ Return(w, sid[w]) /\ sid[w] \in OfContent(Top(w)) /\ Top(w) \in Objects
      /\ UNCHANGED <<counter, dispatch, saved, fsckVars, generation, caches, lookups>>
  BY DEF Promote, SaveState, SaveKnows, TypeOK, OfContent, Docs
<1>2. /\ DOMAIN docs' = DOMAIN docs /\ sid[w] \in DOMAIN docs
      /\ \A d \in DOMAIN docs : docs'[d] \in Docs /\ docs'[d].obj = docs[d].obj
      /\ \A d \in DOMAIN docs : docs'[d].role = IF d = sid[w] THEN "main" ELSE docs[d].role
  <2>1. sid[w] \in DOMAIN docs /\ docs' = [docs EXCEPT ![sid[w]].role = "main"]
    BY <1>1 DEF Promote, OfContent
  <2>2. \A d \in DOMAIN docs : docs[d] \in Docs
    BY DEF TypeOK
  <2> QED
    BY <2>1, <2>2 DEF Docs
<1>3. Keeps /\ DispatchKeeps
  BY <1>1, <1>2 DEF Keeps, DispatchKeeps
<1>4. SaverTypes' /\ SaveState' /\ EndsInsert(w)
  BY <1>1, <1>2, <1>3, ReturnInv DEF OfContent, TypeOK
<1>5. stage = "off" /\ unswept = {}
  BY <1>1 DEF Excluded, MarkState
<1>6. TypeOK'
  BY <1>1, <1>2, <1>4 DEF TypeOK, SaverTypes
<1>7. Numbered'
  BY <1>1, <1>2, <1>4 DEF Numbered, EndsInsert
<1>8. (Excluded /\ MarkState)'
  BY <1>1, <1>5 DEF Excluded, MarkState
<1>9. (DispatchSound /\ SavedIsDurable /\ LookupState)'
  BY <1>1, <1>3 DEF DispatchSound, SavedIsDurable, LookupState, IsMain, OfContent, Keeps
<1>10. OneDocumentPerContent'
  BY <1>2 DEF OneDocumentPerContent
<1>11. QED
  BY <1>4, <1>6, <1>7, <1>8, <1>9, <1>10

LEMMA FindDispatchInv ==
  ASSUME IInv, NEW w \in Stores, FindDispatch(w)
  PROVE  IInv'
<1> USE GraphAssumption, BoundsAssumption
    DEF IInv, FindDispatch, Goto, Sids, saver, store, fsckVars, caches, lookups
<1>1. \A v \in Stores : step'[v] = "insert" => step[v] = "insert"
  BY DEF TypeOK
<1>2. TypeOK'
  BY DEF TypeOK, Docs
<1>3. Numbered'
  BY <1>1 DEF TypeOK, Numbered
<1>4. Excluded'
  BY DEF TypeOK, Excluded
<1>5. SaveState'
  BY DEF TypeOK, Docs, SaveState, SaveKnows, IsMain, OfContent, Top, TopLevel, Root, ChildrenSaved
<1>6. DispatchSound'
  BY DEF TypeOK, Docs, DispatchSound, IsMain, OfContent
<1>7. MarkState'
  BY DEF TypeOK, Excluded, MarkState, Undispatched, Condemned, Docs
<1>8. SavedIsDurable'
  BY DEF TypeOK, Docs, SavedIsDurable, SaveState, SaveKnows, IsMain, OfContent, Top, TopLevel, Root
<1>9. OneDocumentPerContent'
  BY DEF TypeOK, Docs, OneDocumentPerContent, OfContent
<1>10. LookupState'
  BY DEF TypeOK, LookupState, SavedIsDurable, OfContent, DispatchSound, IsMain
<1>11. QED
  BY <1>2, <1>3, <1>4, <1>5, <1>6, <1>7, <1>8, <1>9, <1>10

LEMMA InsertDispatchInv ==
  ASSUME IInv, NEW w \in Stores, InsertDispatch(w)
  PROVE  IInv'
<1> USE GraphAssumption, BoundsAssumption
    DEF IInv, InsertDispatch, Put, Goto, Sids, saver, store, fsckVars, caches, lookups
<1>1. /\ TopLevel(w) /\ Root(w) = Top(w) /\ Top(w) \in Objects
      /\ sid[w] \in Sids /\ IsMain(Top(w), sid[w])
  BY DEF SaveState, SaveKnows, IsMain, OfContent, TypeOK, Docs, Top, Root, TopLevel
<1>2. TypeOK'
  <2>1. DOMAIN dispatch' \subseteq Entries /\ \A e \in DOMAIN dispatch' : dispatch'[e] \in Sids
    BY <1>1 DEF TypeOK, SaveState, SaveKnows
  <2> QED
    BY <2>1 DEF TypeOK
<1>3. Numbered'
  BY DEF TypeOK, Numbered
<1>4. Excluded'
  BY DEF TypeOK, Excluded
<1>5. SaveState'
  BY DEF TypeOK, Docs, SaveState, SaveKnows, IsMain, OfContent, Top, TopLevel, Root, ChildrenSaved
<1>6. DispatchSound'
  BY <1>1 DEF DispatchSound, IsMain, OfContent
<1>7. MarkState'
  BY DEF TypeOK, Excluded, MarkState, Undispatched, Condemned, Docs
<1>8. SavedIsDurable'
  BY DEF TypeOK, Docs, SavedIsDurable, SaveState, SaveKnows, IsMain, OfContent, Top, TopLevel, Root
<1>9. OneDocumentPerContent'
  BY DEF TypeOK, Docs, OneDocumentPerContent, OfContent
<1>10. LookupState'
  BY DEF TypeOK, LookupState, SavedIsDurable, OfContent, DispatchSound, IsMain
<1>11. QED
  BY <1>2, <1>3, <1>4, <1>5, <1>6, <1>7, <1>8, <1>9, <1>10

LEMMA ReturnSidInv ==
  ASSUME IInv, NEW w \in Stores, ReturnSid(w)
  PROVE  IInv'
<1> USE GraphAssumption, BoundsAssumption
    DEF IInv, ReturnSid, EndSave, Goto, Sids, saver, store, fsckVars, caches, lookups
<1>1. /\ TopLevel(w) /\ Root(w) = Top(w) /\ Top(w) \in Objects
      /\ sid[w] \in Sids /\ IsMain(Top(w), sid[w])
  BY DEF SaveState, SaveKnows, IsMain, OfContent, TypeOK, Docs, Top, Root, TopLevel
<1>2. TypeOK'
  <2>1. saved' \subseteq Objects \X Sids
    BY <1>1 DEF TypeOK
  <2>2. cached' \in [Stores -> SUBSET Sids]
    BY DEF TypeOK, Range
  <2>3. SaverTypes'
    BY DEF TypeOK, SaverTypes
  <2> QED
    BY <2>1, <2>2, <2>3 DEF TypeOK, SaverTypes
<1>3. Numbered'
  BY DEF TypeOK, Numbered
<1>4. Excluded'
  BY DEF TypeOK, Excluded
<1>5. SaveState'
  BY DEF TypeOK, Docs, SaveState, SaveKnows, IsMain, OfContent, Top, TopLevel, Root, ChildrenSaved
<1>6. DispatchSound'
  BY DEF TypeOK, Docs, DispatchSound, IsMain, OfContent
<1>7. MarkState'
  BY DEF TypeOK, Excluded, MarkState, Undispatched, Condemned, Docs
<1>8. SavedIsDurable'
  BY <1>1 DEF TypeOK, Docs, SavedIsDurable, SaveState, SaveKnows, IsMain, OfContent, Top, TopLevel, Root
<1>9. OneDocumentPerContent'
  BY DEF TypeOK, Docs, OneDocumentPerContent, OfContent
<1>10. LookupState'
  BY DEF TypeOK, LookupState, SavedIsDurable, OfContent, DispatchSound, IsMain
<1>11. QED
  BY <1>2, <1>3, <1>4, <1>5, <1>6, <1>7, <1>8, <1>9, <1>10

LEMMA FailSaveInv ==
  ASSUME IInv, NEW w \in Stores, FailSave(w)
  PROVE  IInv'
<1> USE GraphAssumption, BoundsAssumption
    DEF IInv, FailSave, EndSave, Goto, Sids, saver, store, fsckVars, caches, lookups
<1>1. TypeOK'
  <2>1. SaverTypes'
    BY DEF TypeOK, SaverTypes
  <2> QED
    BY <2>1 DEF TypeOK, SaverTypes
<1>2. Numbered'
  BY DEF TypeOK, Numbered
<1>3. Excluded'
  BY DEF TypeOK, Excluded
<1>4. SaveState'
  BY DEF TypeOK, Docs, SaveState, SaveKnows, IsMain, OfContent, Top, TopLevel, Root, ChildrenSaved
<1>5. DispatchSound'
  BY DEF TypeOK, Docs, DispatchSound, IsMain, OfContent
<1>6. MarkState'
  BY DEF TypeOK, Excluded, MarkState, Undispatched, Condemned, Docs
<1>7. SavedIsDurable'
  BY DEF TypeOK, Docs, SavedIsDurable, SaveState, SaveKnows, IsMain, OfContent, Top, TopLevel, Root
<1>8. OneDocumentPerContent'
  BY DEF TypeOK, Docs, OneDocumentPerContent, OfContent
<1>9. LookupState'
  BY DEF TypeOK, LookupState, SavedIsDurable, OfContent, DispatchSound, IsMain
<1>10. QED
  BY <1>1, <1>2, <1>3, <1>4, <1>5, <1>6, <1>7, <1>8, <1>9

-----------------------------------------------------------------------------
(* The steps of fsck *)

LEMMA FsckStartInv ==
  ASSUME IInv, NEW w \in Stores, FsckStart(w)
  PROVE  IInv'
<1> USE GraphAssumption, BoundsAssumption
    DEF IInv, FsckStart, Goto, Sids, saver, store, fsckVars, caches, lookups
<1>1. TypeOK'
  BY DEF TypeOK, Docs
<1>2. Numbered'
  BY DEF TypeOK, Numbered
<1>3. Excluded'
  BY DEF TypeOK, Excluded
<1>4. SaveState'
  BY DEF TypeOK, Docs, SaveState, SaveKnows, IsMain, OfContent, Top, TopLevel, Root, ChildrenSaved
<1>5. DispatchSound'
  BY DEF TypeOK, Docs, DispatchSound, IsMain, OfContent
<1>6. MarkState'
  BY DEF TypeOK, Excluded, MarkState, Undispatched, Condemned, Docs
<1>7. SavedIsDurable'
  BY DEF TypeOK, Docs, SavedIsDurable, SaveState, SaveKnows, IsMain, OfContent, Top, TopLevel, Root
<1>8. OneDocumentPerContent'
  BY DEF TypeOK, Docs, OneDocumentPerContent, OfContent
<1>9. LookupState'
  BY DEF TypeOK, LookupState, SavedIsDurable, OfContent, DispatchSound, IsMain
<1>10. QED
  BY <1>1, <1>2, <1>3, <1>4, <1>5, <1>6, <1>7, <1>8, <1>9

LEMMA RepairDispatchInv ==
  ASSUME IInv, NEW d \in Sids, RepairDispatch(d)
  PROVE  IInv'
<1> USE GraphAssumption, BoundsAssumption
    DEF IInv, RepairDispatch, Put, Goto, Sids, saver, store, fsckVars, caches, lookups
<1>1. /\ d \in DOMAIN docs /\ docs[d].role = "main" /\ docs[d].obj \in Entries \ DOMAIN dispatch
      /\ IsMain(docs[d].obj, d)
  BY DEF Undispatched, IsMain, OfContent
<1>2. \A w \in Stores : step[w] = "idle"
  BY DEF Excluded
<1>3. TypeOK'
  <2>1. DOMAIN dispatch' \subseteq Entries /\ \A e \in DOMAIN dispatch' : dispatch'[e] \in Sids
    BY <1>1 DEF TypeOK
  <2> QED
    BY <2>1 DEF TypeOK
<1>4. Numbered'
  BY <1>2 DEF Numbered
<1>5. Excluded'
  BY DEF TypeOK, Excluded
<1>6. SaveState'
  BY <1>2 DEF TypeOK, SaveState, SaveKnows
<1>7. DispatchSound'
  BY <1>1 DEF DispatchSound, IsMain, OfContent
<1>8. MarkState'
  BY DEF Excluded, MarkState
<1>9. SavedIsDurable'
  BY <1>1 DEF SavedIsDurable, OfContent
<1>10. OneDocumentPerContent'
  BY DEF TypeOK, Docs, OneDocumentPerContent, OfContent
<1>11. LookupState'
  BY DEF TypeOK, LookupState, SavedIsDurable, OfContent, DispatchSound, IsMain
<1>12. QED
  BY <1>3, <1>4, <1>5, <1>6, <1>7, <1>8, <1>9, <1>10, <1>11

LEMMA MarkRootsInv ==
  ASSUME IInv, MarkRoots
  PROVE  IInv'
<1> USE GraphAssumption, BoundsAssumption
    DEF IInv, MarkRoots, Goto, Sids, saver, store, fsckVars, caches, lookups
<1>1. Roots \subseteq Sids /\ Roots \cap DOMAIN docs = {d \in DOMAIN docs : docs[d].role = "main"}
  BY DEF Roots, Range, DispatchSound, IsMain, OfContent, TypeOK
<1>2. \A d \in DOMAIN docs : Collection[docs[d].obj] \in Collections
  BY DEF TypeOK, Docs
<1>3. TypeOK'
  BY <1>1 DEF TypeOK
<1>4. Numbered'
  BY DEF TypeOK, Numbered
<1>5. Excluded'
  BY DEF TypeOK, Excluded
<1>6. SaveState'
  BY DEF TypeOK, Docs, SaveState, SaveKnows, IsMain, OfContent, Top, TopLevel, Root, ChildrenSaved
<1>7. DispatchSound'
  BY DEF TypeOK, Docs, DispatchSound, IsMain, OfContent
<1>8. MarkState'
  BY <1>1, <1>2 DEF MarkState, Undispatched, Condemned, TypeOK, Docs
<1>9. SavedIsDurable'
  BY DEF TypeOK, Docs, SavedIsDurable, SaveState, SaveKnows, IsMain, OfContent, Top, TopLevel, Root
<1>10. OneDocumentPerContent'
  BY DEF TypeOK, Docs, OneDocumentPerContent, OfContent
<1>11. LookupState'
  BY DEF TypeOK, LookupState, SavedIsDurable, OfContent, DispatchSound, IsMain
<1>12. QED
  BY <1>3, <1>4, <1>5, <1>6, <1>7, <1>8, <1>9, <1>10, <1>11

LEMMA MarkBatchInv ==
  ASSUME IInv, NEW c \in Collections, MarkBatch(c)
  PROVE  IInv'
<1> USE GraphAssumption, BoundsAssumption
    DEF IInv, MarkBatch, Goto, Sids, saver, store, fsckVars, caches, lookups
<1>1. TypeOK'
  <2>1. \A d \in DOMAIN docs : docs[d].refs \subseteq 1..MaxSid
    BY DEF TypeOK, Docs
  <2>2. ASSUME NEW x \in marked', x \notin marked
        PROVE  x \in 1..MaxSid
    <3>1. PICK d \in DOMAIN docs : x \in docs[d].refs
      BY <2>2
    <3> QED
      BY <2>1, <3>1
  <2>3. pending' \subseteq marked'
    BY DEF TypeOK
  <2> QED
    BY <2>2, <2>3 DEF TypeOK
<1>2. Numbered'
  BY DEF TypeOK, Numbered
<1>3. Excluded'
  BY DEF TypeOK, Excluded
<1>4. SaveState'
  BY DEF TypeOK, Docs, SaveState, SaveKnows, IsMain, OfContent, Top, TopLevel, Root, ChildrenSaved
<1>5. DispatchSound'
  BY DEF TypeOK, Docs, DispatchSound, IsMain, OfContent
<1>6. MarkState'
  BY DEF TypeOK, Excluded, MarkState, Undispatched, Condemned, Docs
<1>7. SavedIsDurable'
  BY DEF TypeOK, Docs, SavedIsDurable, SaveState, SaveKnows, IsMain, OfContent, Top, TopLevel, Root
<1>8. OneDocumentPerContent'
  BY DEF TypeOK, Docs, OneDocumentPerContent, OfContent
<1>9. LookupState'
  BY DEF TypeOK, LookupState, SavedIsDurable, OfContent, DispatchSound, IsMain
<1>10. QED
  BY <1>1, <1>2, <1>3, <1>4, <1>5, <1>6, <1>7, <1>8, <1>9

LEMMA SweepCollectionInv ==
  ASSUME IInv, NEW c \in Collections, SweepCollection(c)
  PROVE  IInv'
<1> USE GraphAssumption, BoundsAssumption
    DEF IInv, SweepCollection, RestrictDomain, Restrict, Goto, Sids, saver, store, fsckVars, caches, lookups
<1>1. \A w \in Stores : step[w] = "idle"
  BY DEF Excluded
<1>2. \A o, d : IsMain(o, d) => IsMain(o, d)'
  BY DEF IsMain, OfContent, Condemned
<1>3. TypeOK'
  BY DEF TypeOK, Docs
<1>4. Numbered'
  BY DEF TypeOK, Numbered
<1>5. Excluded'
  BY DEF TypeOK, Excluded
<1>6. SaveState'
  BY <1>1 DEF TypeOK, SaveState, SaveKnows
<1>7. DispatchSound'
  BY <1>2 DEF DispatchSound
<1>8. MarkState'
  BY DEF TypeOK, Excluded, MarkState, Undispatched, Condemned, Docs
<1>9. SavedIsDurable'
  <2>1. \A q \in saved : IsMain(q[1], q[2])
    BY DEF SavedIsDurable, IsMain
  <2> QED
    BY <1>2, <2>1 DEF SavedIsDurable, IsMain
<1>10. OneDocumentPerContent'
  BY DEF TypeOK, Docs, OneDocumentPerContent, OfContent
<1>11. LookupState'
  BY DEF TypeOK, LookupState, SavedIsDurable, OfContent, DispatchSound, IsMain
<1>12. QED
  BY <1>3, <1>4, <1>5, <1>6, <1>7, <1>8, <1>9, <1>10, <1>11

LEMMA FsckEndInv ==
  ASSUME IInv, FsckEnd
  PROVE  IInv'
<1> USE GraphAssumption, BoundsAssumption
    DEF IInv, FsckEnd, ReleaseFsck, Goto, Sids, saver, store, fsckVars, caches, lookups
<1>1. TypeOK'
  BY DEF TypeOK, Docs
<1>2. Numbered'
  BY DEF TypeOK, Numbered
<1>3. Excluded'
  BY DEF TypeOK, Excluded
<1>4. SaveState'
  BY DEF TypeOK, Docs, SaveState, SaveKnows, IsMain, OfContent, Top, TopLevel, Root, ChildrenSaved
<1>5. DispatchSound'
  BY DEF TypeOK, Docs, DispatchSound, IsMain, OfContent
<1>6. MarkState'
  BY DEF TypeOK, Excluded, MarkState, Undispatched, Condemned, Docs
<1>7. SavedIsDurable'
  BY DEF TypeOK, Docs, SavedIsDurable, SaveState, SaveKnows, IsMain, OfContent, Top, TopLevel, Root
<1>8. OneDocumentPerContent'
  BY DEF TypeOK, Docs, OneDocumentPerContent, OfContent
<1>9. LookupState'
  BY DEF TypeOK, LookupState, SavedIsDurable, OfContent, DispatchSound, IsMain
<1>10. QED
  BY <1>1, <1>2, <1>3, <1>4, <1>5, <1>6, <1>7, <1>8, <1>9

LEMMA FsckStopInv ==
  ASSUME IInv, FsckStop
  PROVE  IInv'
<1> USE GraphAssumption, BoundsAssumption
    DEF IInv, FsckStop, ReleaseFsck, Goto, Sids, saver, store, fsckVars, caches, lookups
<1>1. TypeOK'
  BY DEF TypeOK, Docs
<1>2. Numbered'
  BY DEF TypeOK, Numbered
<1>3. Excluded'
  BY DEF TypeOK, Excluded
<1>4. SaveState'
  BY DEF TypeOK, Docs, SaveState, SaveKnows, IsMain, OfContent, Top, TopLevel, Root, ChildrenSaved
<1>5. DispatchSound'
  BY DEF TypeOK, Docs, DispatchSound, IsMain, OfContent
<1>6. MarkState'
  BY DEF TypeOK, Excluded, MarkState, Undispatched, Condemned, Docs
<1>7. SavedIsDurable'
  BY DEF TypeOK, Docs, SavedIsDurable, SaveState, SaveKnows, IsMain, OfContent, Top, TopLevel, Root
<1>8. OneDocumentPerContent'
  BY DEF TypeOK, Docs, OneDocumentPerContent, OfContent
<1>9. LookupState'
  BY DEF TypeOK, LookupState, SavedIsDurable, OfContent, DispatchSound, IsMain
<1>10. QED
  BY <1>1, <1>2, <1>3, <1>4, <1>5, <1>6, <1>7, <1>8, <1>9

-----------------------------------------------------------------------------
(* Readers, and the death of a process *)

LEMMA FetchReadInv ==
  ASSUME IInv, NEW w \in Stores, NEW d \in Sids, FetchRead(w, d)
  PROVE  IInv'
<1> USE GraphAssumption, BoundsAssumption
    DEF IInv, FetchRead, Goto, Sids, saver, store, fsckVars, caches, lookups
<1>1. TypeOK'
  BY DEF TypeOK, Docs
<1>2. Numbered'
  BY DEF TypeOK, Numbered
<1>3. Excluded'
  BY DEF TypeOK, Excluded
<1>4. SaveState'
  BY DEF TypeOK, Docs, SaveState, SaveKnows, IsMain, OfContent, Top, TopLevel, Root, ChildrenSaved
<1>5. DispatchSound'
  BY DEF TypeOK, Docs, DispatchSound, IsMain, OfContent
<1>6. MarkState'
  BY DEF TypeOK, Excluded, MarkState, Undispatched, Condemned, Docs
<1>7. SavedIsDurable'
  BY DEF TypeOK, Docs, SavedIsDurable, SaveState, SaveKnows, IsMain, OfContent, Top, TopLevel, Root
<1>8. OneDocumentPerContent'
  BY DEF TypeOK, Docs, OneDocumentPerContent, OfContent
<1>9. LookupState'
  BY DEF TypeOK, LookupState, SavedIsDurable, OfContent, DispatchSound, IsMain
<1>10. QED
  BY <1>1, <1>2, <1>3, <1>4, <1>5, <1>6, <1>7, <1>8, <1>9

LEMMA FetchRememberInv ==
  ASSUME IInv, NEW w \in Stores, FetchRemember(w)
  PROVE  IInv'
<1> USE GraphAssumption, BoundsAssumption
    DEF IInv, FetchRemember, Goto, Sids, saver, store, fsckVars, caches, lookups
<1>1. TypeOK'
  BY DEF TypeOK, Docs
<1>2. Numbered'
  BY DEF TypeOK, Numbered
<1>3. Excluded'
  BY DEF TypeOK, Excluded
<1>4. SaveState'
  BY DEF TypeOK, Docs, SaveState, SaveKnows, IsMain, OfContent, Top, TopLevel, Root, ChildrenSaved
<1>5. DispatchSound'
  BY DEF TypeOK, Docs, DispatchSound, IsMain, OfContent
<1>6. MarkState'
  BY DEF TypeOK, Excluded, MarkState, Undispatched, Condemned, Docs
<1>7. SavedIsDurable'
  BY DEF TypeOK, Docs, SavedIsDurable, SaveState, SaveKnows, IsMain, OfContent, Top, TopLevel, Root
<1>8. OneDocumentPerContent'
  BY DEF TypeOK, Docs, OneDocumentPerContent, OfContent
<1>9. LookupState'
  BY DEF TypeOK, LookupState, SavedIsDurable, OfContent, DispatchSound, IsMain
<1>10. QED
  BY <1>1, <1>2, <1>3, <1>4, <1>5, <1>6, <1>7, <1>8, <1>9

LEMMA FindRowInv ==
  ASSUME IInv, NEW e \in Lookups, FindRow(e)
  PROVE  IInv'
<1> USE GraphAssumption, BoundsAssumption
    DEF IInv, FindRow, Goto, Sids, saver, store, fsckVars, caches, lookups
<1>1. TypeOK'
  BY DEF TypeOK, Docs
<1>2. Numbered'
  BY DEF TypeOK, Numbered
<1>3. Excluded'
  BY DEF TypeOK, Excluded
<1>4. SaveState'
  BY DEF TypeOK, Docs, SaveState, SaveKnows, IsMain, OfContent, Top, TopLevel, Root, ChildrenSaved
<1>5. DispatchSound'
  BY DEF TypeOK, Docs, DispatchSound, IsMain, OfContent
<1>6. MarkState'
  BY DEF TypeOK, Excluded, MarkState, Undispatched, Condemned, Docs
<1>7. SavedIsDurable'
  BY DEF TypeOK, Docs, SavedIsDurable, SaveState, SaveKnows, IsMain, OfContent, Top, TopLevel, Root
<1>8. OneDocumentPerContent'
  BY DEF TypeOK, Docs, OneDocumentPerContent, OfContent
<1>9. LookupState'
  <2>1. ASSUME NEW x \in promised', x # e
        PROVE  lookup'[x] \in {"row", "value"} /\ \E d \in Sids : <<x, d>> \in saved'
    BY <2>1 DEF LookupState, TypeOK
  <2>2. ASSUME e \in promised'
        PROVE  lookup'[e] \in {"row", "value"} /\ \E d \in Sids : <<e, d>> \in saved'
    <3>1. PICK d \in Sids : <<e, d>> \in saved
      BY <2>2 DEF LookupState
    <3>2. e \in Entries /\ e \in DOMAIN dispatch /\ dispatch[e] \in OfContent(e)
      BY <3>1, GraphAssumption DEF SavedIsDurable, DispatchSound, IsMain
    <3> QED
      BY <3>1, <3>2 DEF TypeOK
  <2> QED
    BY <2>1, <2>2 DEF LookupState
<1>10. QED
  BY <1>1, <1>2, <1>3, <1>4, <1>5, <1>6, <1>7, <1>8, <1>9

LEMMA CheckBackingInv ==
  ASSUME IInv, NEW e \in Lookups, CheckBacking(e)
  PROVE  IInv'
<1> USE GraphAssumption, BoundsAssumption
    DEF IInv, CheckBacking, Goto, Sids, saver, store, fsckVars, caches, lookups
<1>1. TypeOK'
  BY DEF TypeOK, Docs
<1>2. Numbered'
  BY DEF TypeOK, Numbered
<1>3. Excluded'
  BY DEF TypeOK, Excluded
<1>4. SaveState'
  BY DEF TypeOK, Docs, SaveState, SaveKnows, IsMain, OfContent, Top, TopLevel, Root, ChildrenSaved
<1>5. DispatchSound'
  BY DEF TypeOK, Docs, DispatchSound, IsMain, OfContent
<1>6. MarkState'
  BY DEF TypeOK, Excluded, MarkState, Undispatched, Condemned, Docs
<1>7. SavedIsDurable'
  BY DEF TypeOK, Docs, SavedIsDurable, SaveState, SaveKnows, IsMain, OfContent, Top, TopLevel, Root
<1>8. OneDocumentPerContent'
  BY DEF TypeOK, Docs, OneDocumentPerContent, OfContent
<1>9. LookupState'
  <2>1. ASSUME NEW x \in promised', x # e
        PROVE  lookup'[x] \in {"row", "value"} /\ \E d \in Sids : <<x, d>> \in saved'
    BY <2>1 DEF LookupState, TypeOK
  <2>2. ASSUME e \in promised'
        PROVE  lookup'[e] \in {"row", "value"} /\ \E d \in Sids : <<e, d>> \in saved'
    <3>1. PICK d \in Sids : <<e, d>> \in saved
      BY <2>2 DEF LookupState
    <3>2. e \in Entries /\ e \in DOMAIN dispatch /\ dispatch[e] \in OfContent(e)
      BY <3>1, GraphAssumption DEF SavedIsDurable, DispatchSound, IsMain
    <3> QED
      BY <3>1, <3>2 DEF TypeOK
  <2> QED
    BY <2>1, <2>2 DEF LookupState
<1>10. QED
  BY <1>1, <1>2, <1>3, <1>4, <1>5, <1>6, <1>7, <1>8, <1>9

LEMMA ProbeBackingsInv ==
  ASSUME IInv, NEW e \in Lookups, ProbeBackings(e)
  PROVE  IInv'
<1> USE GraphAssumption, BoundsAssumption
    DEF IInv, ProbeBackings, Goto, Sids, saver, store, fsckVars, caches, lookups
<1>1. TypeOK'
  BY DEF TypeOK, Docs
<1>2. Numbered'
  BY DEF TypeOK, Numbered
<1>3. Excluded'
  BY DEF TypeOK, Excluded
<1>4. SaveState'
  BY DEF TypeOK, Docs, SaveState, SaveKnows, IsMain, OfContent, Top, TopLevel, Root, ChildrenSaved
<1>5. DispatchSound'
  BY DEF TypeOK, Docs, DispatchSound, IsMain, OfContent
<1>6. MarkState'
  BY DEF TypeOK, Excluded, MarkState, Undispatched, Condemned, Docs
<1>7. SavedIsDurable'
  BY DEF TypeOK, Docs, SavedIsDurable, SaveState, SaveKnows, IsMain, OfContent, Top, TopLevel, Root
<1>8. OneDocumentPerContent'
  BY DEF TypeOK, Docs, OneDocumentPerContent, OfContent
<1>9. LookupState'
  BY DEF TypeOK, LookupState, SavedIsDurable, OfContent, DispatchSound, IsMain
<1>10. QED
  BY <1>1, <1>2, <1>3, <1>4, <1>5, <1>6, <1>7, <1>8, <1>9

LEMMA CrashInv ==
  ASSUME IInv, NEW w \in Stores, Crash(w)
  PROVE  IInv'
<1> USE GraphAssumption, BoundsAssumption
    DEF IInv, Crash, EndSave, ReleaseFsck, Goto, Sids, saver, store, fsckVars, caches, lookups
<1>1. TypeOK'
  <2>1. SaverTypes'
    BY DEF TypeOK, SaverTypes
  <2>2. (stage \in {"off", "repair", "mark"} /\ fsck \in Stores \cup {NoStore}
         /\ marked \subseteq Sids /\ pending \subseteq marked /\ unswept \subseteq Collections)'
    BY DEF TypeOK
  <2> QED
    BY <2>1, <2>2 DEF TypeOK, SaverTypes
<1>2. Numbered'
  BY DEF TypeOK, Numbered
<1>3. Excluded'
  BY DEF TypeOK, Excluded
<1>4. SaveState'
  BY DEF TypeOK, Docs, SaveState, SaveKnows, IsMain, OfContent, Top, TopLevel, Root, ChildrenSaved
<1>5. DispatchSound'
  BY DEF TypeOK, Docs, DispatchSound, IsMain, OfContent
<1>6. MarkState'
  BY DEF TypeOK, Excluded, MarkState, Undispatched, Condemned, Docs
<1>7. SavedIsDurable'
  BY DEF TypeOK, Docs, SavedIsDurable, SaveState, SaveKnows, IsMain, OfContent, Top, TopLevel, Root
<1>8. OneDocumentPerContent'
  BY DEF TypeOK, Docs, OneDocumentPerContent, OfContent
<1>9. LookupState'
  BY DEF TypeOK, LookupState, SavedIsDurable, OfContent, DispatchSound, IsMain
<1>10. QED
  BY <1>1, <1>2, <1>3, <1>4, <1>5, <1>6, <1>7, <1>8, <1>9

-----------------------------------------------------------------------------
(* The specification *)

LEMMA InitInv == Init => IInv
BY GraphAssumption, BoundsAssumption
   DEF Init, IInv, TypeOK, Sids, Numbered, Excluded, SaveState, SaveKnows, DispatchSound, IsMain,
       OfContent, MarkState, SavedIsDurable, OneDocumentPerContent, LookupState

LEMMA NextInv ==
  ASSUME IInv, [Next]_vars
  PROVE  IInv'
<1>1. ASSUME NEW w \in Stores, SaveStep(w) \/ Crash(w)
      PROVE  IInv'
  BY <1>1, StartSaveInv, FindByContentInv, FindWinnerInv, DescendInv, MatchByValueInv,
     CounterNextInv, InsertInv, PromoteInv, FindDispatchInv, InsertDispatchInv, ReturnSidInv,
     FailSaveInv, CrashInv
     DEF SaveStep
<1>2. CASE FsckStep
  BY <1>2, FsckStartInv, RepairDispatchInv, MarkRootsInv, MarkBatchInv, SweepCollectionInv,
     FsckEndInv, FsckStopInv
     DEF FsckStep
<1>3. CASE ReadStep
  BY <1>3, GraphAssumption, FetchReadInv, FetchRememberInv, FindRowInv, CheckBackingInv, ProbeBackingsInv
     DEF ReadStep
<1>4. CASE UNCHANGED vars
  <2> USE <1>4 DEF vars, store, saver, fsckVars, caches, lookups, IInv
  <2>1. (TypeOK /\ Numbered /\ Excluded)'
    BY DEF TypeOK, Numbered, Excluded
  <2>2. SaveState'
    BY DEF SaveState, SaveKnows, ChildrenSaved, TopLevel, Top, IsMain, OfContent
  <2>3. (DispatchSound /\ MarkState)'
    BY DEF DispatchSound, IsMain, OfContent, MarkState, Undispatched, Condemned
  <2>4. (SavedIsDurable /\ OneDocumentPerContent /\ LookupState)'
    BY DEF SavedIsDurable, OfContent, OneDocumentPerContent, LookupState
  <2> QED
    BY <2>1, <2>2, <2>3, <2>4
<1>5. QED
  BY <1>1, <1>2, <1>3, <1>4 DEF Next

LEMMA Inductive == Spec => []IInv
BY InitInv, NextInv, PTL DEF Spec

\* The variables keep their types, whatever saves fail and processes die.
THEOREM TypeCorrect == Spec => []TypeOK
<1>1. IInv => TypeOK
  BY DEF IInv
<1> QED
  BY <1>1, Inductive, PTL

\* What save() returned stays a main document with its dispatch row, also when a
\* sweep ends between two collections (MongoStore.save, run_fsck).
THEOREM SavedIsDurableHolds == Spec => []SavedIsDurable
<1>1. IInv => SavedIsDurable
  BY DEF IInv
<1> QED
  BY <1>1, Inductive, PTL

\* The unique index and the lookup of the winner leave one document for a content
\* (_insert_record), however many stores save it at once.
THEOREM OneDocumentPerContentHolds == Spec => []OneDocumentPerContent
<1>1. IInv => OneDocumentPerContent
  BY DEF IInv
<1> QED
  BY <1>1, Inductive, PTL

\* fetch_entry() of an entry that a save() had returned finds it, though it reads
\* the dispatch row and the backing in two operations and takes no lock.
THEOREM EntryNotLostHolds == Spec => []EntryNotLost
<1>1. IInv => EntryNotLost
  BY DEF IInv, LookupState, EntryNotLost
<1> QED
  BY <1>1, Inductive, PTL

-----------------------------------------------------------------------------
(* References, when no sweep ends between two collections *)

\* All but the sweep leave every reference of every document where it was.
LEMMA SaveRefs ==
  ASSUME IInv, RefsResolve, NEW w \in Stores, SaveStep(w)
  PROVE  RefsResolve'
<1> USE DEF IInv, RefsResolve, store, fsckVars
<1>1. stage = "off" /\ UNCHANGED fsckVars
  BY DEF SaveStep, StartSave, Descend, FindByContent, FindWinner, MatchByValue, CounterNext, Insert,
         Promote, FindDispatch, InsertDispatch, ReturnSid, FailSave, Excluded
<1>2. CASE Insert(w)
  <2>1. CASE docs' = docs
    BY <1>1, <2>1
  <2>2. CASE docs' # docs
    <3>1. /\ docs' = Put(docs, sid[w], [obj |-> Top(w), refs |-> ChildSids(w),
                                        role |-> IF TopLevel(w) THEN "main" ELSE "dep"])
          /\ ChildSids(w) \subseteq DOMAIN docs
      BY <1>2, <2>2 DEF Insert, SaveState, SaveKnows, ChildrenSaved, ChildSids, OfContent
    <3> QED
      BY <1>1, <3>1 DEF Put
  <2> QED
    BY <2>1, <2>2
<1>3. CASE Promote(w)
  BY <1>1, <1>3 DEF Promote, TypeOK, Docs, SaveState, SaveKnows, OfContent
<1>4. CASE ~Insert(w) /\ ~Promote(w)
  <2>1. docs' = docs
    BY <1>4 DEF SaveStep, StartSave, Descend, FindByContent, FindWinner, MatchByValue, CounterNext,
         FindDispatch, InsertDispatch, ReturnSid, FailSave
  <2> QED
    BY <1>1, <2>1
<1>5. QED
  BY <1>2, <1>3, <1>4

\* What is marked refers to what is marked, so the sweep deletes none of it.
LEMMA FsckRefs ==
  ASSUME ~SweepMayStop, IInv, RefsResolve, FsckStep
  PROVE  RefsResolve'
<1> USE DEF IInv, RefsResolve, store, fsckVars, Condemned, MarkState, Excluded
<1>1. ASSUME NEW s \in Stores, FsckStart(s)
      PROVE  RefsResolve'
  BY <1>1 DEF FsckStart
<1>2. ASSUME NEW d \in Sids, RepairDispatch(d)
      PROVE  RefsResolve'
  BY <1>2 DEF RepairDispatch
<1>3. CASE MarkRoots
  BY <1>3 DEF MarkRoots
<1>4. ASSUME NEW c \in Collections, MarkBatch(c)
      PROVE  RefsResolve'
  BY <1>4 DEF MarkBatch
<1>5. ASSUME NEW c \in Collections, SweepCollection(c)
      PROVE  RefsResolve'
  <2>1. /\ DOMAIN docs' \subseteq DOMAIN docs
        /\ \A d \in DOMAIN docs : d \notin Condemned => d \in DOMAIN docs'
        /\ \A d \in DOMAIN docs' : docs'[d] = docs[d]
    BY <1>5 DEF SweepCollection, RestrictDomain, Restrict
  <2>2. stage' = "mark" /\ unswept' # Collections /\ marked' = marked
    BY <1>5 DEF SweepCollection
  <2>3. ASSUME NEW d \in DOMAIN docs', d \notin Condemned
        PROVE  docs'[d].refs \subseteq DOMAIN docs'
    <3>1. d \in marked /\ d \notin pending
      BY <1>5, <2>1, <2>3 DEF SweepCollection, TypeOK, Docs
    <3>2. docs[d].refs \subseteq marked /\ docs[d].refs \subseteq DOMAIN docs
      BY <1>5, <2>1, <2>3, <3>1 DEF SweepCollection
    <3> QED
      BY <2>1, <2>3, <3>2
  <2> QED
    BY <2>1, <2>2, <2>3
<1>6. CASE FsckEnd
  BY <1>6 DEF FsckEnd, ReleaseFsck
<1>7. CASE FsckStop
  BY <1>7, GraphAssumption DEF FsckStop, ReleaseFsck, TypeOK
<1>8. QED
  BY <1>1, <1>2, <1>3, <1>4, <1>5, <1>6, <1>7 DEF FsckStep

\* No document points to a missing sid outside what a sweep is deleting
\* (docs/details/mongo.md, degraded mode): the writes of a save go bottom-up.
THEOREM RefsResolveHolds == ASSUME ~SweepMayStop PROVE Spec => []RefsResolve
<1>1. Init => RefsResolve
  BY DEF Init, RefsResolve
<1>2. ASSUME IInv, RefsResolve, [Next]_vars
      PROVE  RefsResolve'
  <2>1. ASSUME NEW w \in Stores, Crash(w)
        PROVE  RefsResolve'
    BY <1>2, <2>1 DEF Crash, ReleaseFsck, IInv, RefsResolve, store, fsckVars, Condemned, MarkState, TypeOK
  <2>2. CASE ReadStep \/ UNCHANGED vars
    BY <1>2, <2>2 DEF ReadStep, FetchRead, FetchRemember, FindRow, CheckBacking, ProbeBackings,
       vars, store, fsckVars, RefsResolve, Condemned
  <2> QED
    BY <1>2, <2>1, <2>2, SaveRefs, FsckRefs DEF Next
<1> QED
  BY <1>1, <1>2, Inductive, PTL DEF Spec

\* A completed fsck leaves no residue: what is left is main, with its dispatch row,
\* or something that is left refers to it (run_fsck).
THEOREM FsckLeavesCleanHolds == Spec => FsckLeavesClean
<1>1. ASSUME IInv, [Next]_vars, stage = "mark", stage' = "off", unswept = {}
      PROVE  \A d \in DOMAIN docs :
               \/ /\ docs[d].role = "main"
                  /\ docs[d].obj \in Entries => docs[d].obj \in DOMAIN dispatch
               \/ \E p \in DOMAIN docs : d \in docs[p].refs
  BY <1>1 DEF IInv, MarkState, Condemned, Undispatched, TypeOK, Docs
<1> QED
  BY <1>1, Inductive, PTL DEF Spec, FsckLeavesClean

-----------------------------------------------------------------------------
(* The documents implement ContentStore *)

\* The refinement mapping of the documents: their roles are not visible.
Stored == [d \in DOMAIN docs |-> [obj |-> docs[d].obj, refs |-> docs[d].refs]]

\* A step that neither inserts, deletes nor acknowledges wastes sids at most.
LEMMA WasteStep ==
  ASSUME Stored' = Stored, saved' = saved, Unused' \subseteq Unused
  PROVE  Abstract!Next
BY DEF Abstract!Next, Abstract!Waste, Stored

\* The sids of a step of a save that writes no document: one moves from the counter
\* to the save, or is given up.
LEMMA ShrinkStep ==
  ASSUME IInv, NEW w \in Stores, SaveStep(w), ~ReturnSid(w), docs' = docs \/ Promote(w)
  PROVE  Unused' \subseteq Unused
<1> USE DEF IInv, Goto
<1>1. \A v \in Stores \ {w} : step'[v] = step[v] /\ sid'[v] = sid[v]
  BY DEF SaveStep, StartSave, Descend, FindByContent, FindWinner, MatchByValue, CounterNext, Insert,
         Promote, FindDispatch, InsertDispatch, FailSave, EndSave, Found, Return, TypeOK
<1>2. CASE CounterNext(w)
  <2>1. counter' = counter + 1 /\ sid'[w] = counter + 1 /\ counter \in Nat /\ counter < MaxSid
    BY <1>2 DEF CounterNext, TypeOK
  <2> QED
    BY <1>1, <2>1, BoundsAssumption DEF Unused
<1>3. CASE ~CounterNext(w)
  <2>1. counter' = counter /\ step'[w] # "insert"
    BY <1>3 DEF SaveStep, StartSave, First, Descend, FindByContent, FindWinner, MatchByValue, Insert,
         Promote, FindDispatch, InsertDispatch, FailSave, EndSave, Found, Return, TypeOK, store
  <2> QED
    BY <1>1, <2>1 DEF Unused
<1> QED
  BY <1>2, <1>3

\* The sid, unused so far, leaves with the document.
LEMMA WriteStep ==
  ASSUME IInv, NEW w \in Stores, Insert(w), docs' # docs
  PROVE  Abstract!Next
<1> DEFINE refs == ChildSids(w)
<1> USE DEF IInv, Sids
<1>1. /\ step[w] = "insert" /\ Return(w, sid[w]) /\ UNCHANGED <<counter, saved>>
      /\ Dedup[Top(w)] = "content_id" => OfContent(Top(w)) = {}
      /\ docs' = Put(docs, sid[w], [obj |-> Top(w), refs |-> refs,
                                    role |-> IF TopLevel(w) THEN "main" ELSE "dep"])
  BY DEF Insert
<1>2. PICK o \in Objects, d \in Sids : o = Top(w) /\ d = sid[w] /\ d \in 1..counter /\ counter \in Nat
  BY <1>1 DEF SaveState, SaveKnows, Numbered, TypeOK, Top
<1>3. refs \in SUBSET DOMAIN docs /\ {docs[c].obj : c \in refs} = Refs[o]
  BY <1>1, <1>2 DEF SaveState, SaveKnows, ChildrenSaved, ChildSids, OfContent
<1>4. Stored' = [c \in DOMAIN Stored \cup {d} |->
                   IF c = d THEN [obj |-> o, refs |-> refs] ELSE Stored[c]]
  BY <1>1, <1>2 DEF Stored, Put
<1>5. Unused' = Unused \ {d}
  <2>1. /\ step'[w] # "insert"
        /\ \A v \in Stores \ {w} : step'[v] = step[v] /\ sid'[v] = sid[v]
    BY <1>1 DEF Return, Goto, TypeOK
  <2> QED
    BY <1>1, <1>2, <2>1 DEF Unused, Numbered
<1>6. Abstract!Write(o, d)
  <2>1. d \in Unused
    BY <1>1, <1>2 DEF Unused
  <2>2. o \in {x \in Objects : Dedup[x] = "content_id"} => \A c \in DOMAIN Stored : Stored[c].obj # o
    BY <1>1, <1>2 DEF Stored, OfContent
  <2>3. refs \in SUBSET DOMAIN Stored /\ {Stored[c].obj : c \in refs} = Refs[o]
    BY <1>3 DEF Stored
  <2> HIDE DEF refs
  <2> QED
    BY <1>1, <1>4, <1>5, <2>1, <2>2, <2>3 DEF Abstract!Write, Stored
<1> QED
  BY <1>6 DEF Abstract!Next

\* The saved object and everything it refers to are there.
LEMMA AcknowledgeStep ==
  ASSUME IInv, RefsResolve, NEW w \in Stores, ReturnSid(w)
  PROVE  Abstract!Next
<1> USE DEF IInv, Sids
<1>1. /\ sid[w] \in Sids /\ Root(w) \in Objects /\ sid[w] \in DOMAIN docs /\ docs[sid[w]].obj = Root(w)
  BY DEF ReturnSid, SaveState, SaveKnows, IsMain, OfContent, TypeOK, Docs, Root, Top, TopLevel
<1>2. Stored' = Stored /\ saved' = saved \cup {<<Root(w), sid[w]>>}
  BY DEF ReturnSid, Stored, store
<1>3. Unused' = Unused
  BY DEF ReturnSid, EndSave, Goto, store, Unused, TypeOK
<1>4. \A d \in DOMAIN docs : docs[d].refs \subseteq DOMAIN docs
  BY DEF ReturnSid, Excluded, RefsResolve
<1>5. \E K \in SUBSET DOMAIN Stored : sid[w] \in K /\ \A d \in K : Stored[d].refs \subseteq K
  <2>1. /\ DOMAIN docs \in SUBSET DOMAIN Stored /\ sid[w] \in DOMAIN docs
        /\ \A d \in DOMAIN docs : Stored[d].refs \subseteq DOMAIN docs
    BY <1>1, <1>4 DEF Stored
  <2> QED
    BY <2>1
<1>6. Abstract!Acknowledge(Root(w), sid[w])
  BY <1>1, <1>2, <1>3, <1>5 DEF Abstract!Acknowledge, Abstract!Whole, Stored
<1> QED
  BY <1>1, <1>6 DEF Abstract!Next

\* The marked documents are whole and hold all acknowledged ones.
LEMMA CollectStep ==
  ASSUME IInv, RefsResolve, NEW c \in Collections, SweepCollection(c)
  PROVE  Abstract!Next
<1> DEFINE K == marked \cap DOMAIN docs
<1> USE DEF IInv, Sids
<1>1. /\ DOMAIN docs' \subseteq DOMAIN docs
      /\ \A d \in DOMAIN docs : d \notin Condemned => d \in DOMAIN docs'
      /\ \A d \in DOMAIN docs' : docs'[d] = docs[d]
  BY DEF SweepCollection, RestrictDomain, Restrict
<1>2. Stored' = [d \in DOMAIN docs' |-> Stored[d]]
  BY <1>1 DEF Stored
<1>3. Unused' = Unused /\ saved' = saved
  BY DEF SweepCollection, Unused, saver
<1>4. K \subseteq DOMAIN docs'
  BY <1>1 DEF Condemned
<1>5. \A d \in K : Stored[d].refs \subseteq K
  <2>1. stage = "mark" /\ pending \cap DOMAIN docs = {}
    BY DEF SweepCollection
  <2>2. ASSUME NEW d \in K
        PROVE  docs[d].refs \subseteq K
    BY <2>1 DEF MarkState, RefsResolve, Condemned
  <2> QED
    BY <2>2 DEF Stored
<1>6. \A p \in saved : p[2] \in K
  BY DEF SavedIsDurable, OfContent, MarkState, SweepCollection
<1>7. Abstract!Collect
  <2>1. K \in SUBSET DOMAIN Stored /\ DOMAIN docs' \in SUBSET DOMAIN Stored
    BY <1>1 DEF Stored
  <2>2. \E kept \in SUBSET DOMAIN Stored : K \subseteq kept /\ Stored' = [d \in kept |-> Stored[d]]
    BY <1>2, <1>4, <2>1
  <2> HIDE DEF K
  <2>3. Abstract!Acked \subseteq K /\ Abstract!Whole(K)
    BY <1>5, <1>6 DEF Abstract!Acked, Abstract!Whole, Stored
  <2> QED
    BY <1>3, <2>1, <2>2, <2>3 DEF Abstract!Collect, Stored
<1> QED
  BY <1>7 DEF Abstract!Next

\* Every step of the saves, of fsck and of the readers is a step of the content
\* store or leaves it alone, when no sweep ends between two collections.
THEOREM ImplementsContentStoreHolds == ASSUME ~SweepMayStop PROVE Spec => ImplementsContentStore
<1>1. Init => Abstract!Init
  <2>1. ASSUME Init
        PROVE  Stored = [d \in {} |-> 0] /\ Unused = Sids /\ saved = {}
    BY <2>1 DEF Init, Stored, Unused, Sids
  <2> QED
    BY <2>1 DEF Abstract!Init, Stored
<1>2. ASSUME IInv, RefsResolve, [Next]_vars
      PROVE  [Abstract!Next]_(Abstract!vars)
  <2>1. ASSUME Stored' = Stored, saved' = saved, Unused' \subseteq Unused
        PROVE  [Abstract!Next]_(Abstract!vars)
    BY <2>1, WasteStep
  <2>2. ASSUME NEW w \in Stores, SaveStep(w)
        PROVE  [Abstract!Next]_(Abstract!vars)
    <3>1. CASE Insert(w) /\ docs' # docs
      BY <1>2, <3>1, WriteStep
    <3>2. CASE ReturnSid(w)
      BY <1>2, <3>2, AcknowledgeStep
    <3>3. CASE ~ReturnSid(w) /\ docs' = docs
      <4>1. Stored' = Stored /\ saved' = saved
        BY <2>2, <3>3 DEF SaveStep, StartSave, Descend, FindByContent, FindWinner, MatchByValue, CounterNext,
           Insert, Promote, FindDispatch, InsertDispatch, FailSave, Stored
      <4>2. Unused' \subseteq Unused
        BY <1>2, <2>2, <3>3, ShrinkStep
      <4> QED
        BY <2>1, <4>1, <4>2
    <3>4. CASE Promote(w) /\ docs' # docs
      <4>1. /\ DOMAIN docs' = DOMAIN docs
            /\ \A d \in DOMAIN docs : docs'[d].obj = docs[d].obj /\ docs'[d].refs = docs[d].refs
        BY <1>2, <3>4 DEF Promote, IInv, TypeOK, Docs
      <4>2. Stored' = Stored /\ saved' = saved
        BY <3>4, <4>1 DEF Promote, Stored
      <4>3. Unused' \subseteq Unused
        BY <1>2, <2>2, <3>4, ShrinkStep DEF Promote, ReturnSid
      <4> QED
        BY <2>1, <4>2, <4>3
    <3> QED
      BY <2>2, <3>1, <3>2, <3>3, <3>4 DEF SaveStep, StartSave, Descend, FindByContent, FindWinner,
         MatchByValue, CounterNext, FindDispatch, InsertDispatch, FailSave, store
  <2>3. ASSUME NEW w \in Stores, Crash(w)
        PROVE  [Abstract!Next]_(Abstract!vars)
    <3>1. Stored' = Stored /\ saved' = saved
      BY <2>3 DEF Crash, store, Stored
    <3>2. Unused' \subseteq Unused
      BY <1>2, <2>3 DEF Crash, EndSave, Goto, store, Unused, IInv, TypeOK
    <3> QED
      BY <2>1, <3>1, <3>2
  <2>4. CASE \E c \in Collections : SweepCollection(c)
    BY <1>2, <2>4, CollectStep
  <2>5. CASE \/ FsckStep /\ ~\E c \in Collections : SweepCollection(c)
             \/ ReadStep
             \/ UNCHANGED vars
    <3>1. UNCHANGED <<docs, counter, saver, saved>>
      BY <2>5 DEF FsckStep, FsckStart, RepairDispatch, MarkRoots, MarkBatch, FsckEnd, FsckStop, ReadStep,
         FetchRead, FetchRemember, FindRow, CheckBacking, ProbeBackings, vars, store
    <3>2. Stored' = Stored /\ saved' = saved /\ Unused' \subseteq Unused
      BY <3>1 DEF Stored, Unused, saver
    <3> QED
      BY <2>1, <3>2
  <2> QED
    BY <1>2, <2>2, <2>3, <2>4, <2>5 DEF Next
<1> QED
  BY <1>1, <1>2, Inductive, RefsResolveHolds, PTL DEF Spec, ImplementsContentStore, Abstract!Spec

-----------------------------------------------------------------------------
(* Saves in one transaction *)

\* Sids that fill an interval as long as the set of objects are different.
LEMMA OntoInterval ==
  ASSUME NEW N, IsFiniteSet(N), NEW f, NEW c \in Nat,
         {f[x] : x \in N} = c + 1 .. c + Cardinality(N)
  PROVE  Cardinality(N) \in Nat /\ \A x, y \in N : f[x] = f[y] => x = y
<1> DEFINE g == [x \in N |-> f[x]]
           I == c + 1 .. c + Cardinality(N)
<1>1. Cardinality(N) \in Nat
  BY FS_CardinalityType
<1>2. Cardinality(I) = Cardinality(N)
  BY <1>1, FS_Interval
<1>3. g \in Surjection(N, I)
  <2>1. g \in [N -> I]
    OBVIOUS
  <2> QED
    BY <2>1 DEF Surjection
<1>4. g \in Injection(N, I)
  <2> HIDE DEF g, I
  <2> QED
    BY <1>2, <1>3, FS_SurjSameCardinalityImpliesInj
<1>5. \A x, y \in N : g[x] = g[y] => x = y
  BY <1>4 DEF Injection, IsInjective
<1> QED
  BY <1>1, <1>5

\* Visited(o) is the least set with o and the references of what is encoded.
LEMMA VisitedLeast ==
  ASSUME NEW o \in Objects
  PROVE  /\ o \in Visited(o) /\ Visited(o) \subseteq Objects
         /\ \A x \in Visited(o) : Encoded(x) => Refs[x] \subseteq Visited(o)
         /\ \A S \in SUBSET Objects :
              o \in S /\ (\A x \in S : Encoded(x) => Refs[x] \subseteq S) => Visited(o) \subseteq S
BY GraphAssumption DEF Visited

\* What a committed save of o leaves, the objects it reaches having the sids sidOf.
Wrote(o, sidOf) ==
  /\ sidOf \in [Visited(o) -> Sids]
  /\ \A x \in Visited(o) :
       /\ sidOf[x] \in DOMAIN docs' /\ docs'[sidOf[x]].obj = x
       /\ Encoded(x) => docs'[sidOf[x]].refs = {sidOf[r] : r \in Refs[x]}
  /\ docs'[sidOf[o]].role = "main"
  /\ \A c \in DOMAIN docs :
       /\ c \in DOMAIN docs' /\ docs'[c] \in Docs
       /\ docs'[c].obj = docs[c].obj /\ docs'[c].refs = docs[c].refs
       /\ docs'[c].role = IF c = sidOf[o] THEN "main" ELSE docs[c].role
  /\ \A c \in DOMAIN docs' \ DOMAIN docs :
       /\ c \in counter + 1 .. counter' /\ docs'[c] \in Docs
       /\ \E x \in Visited(o) : /\ sidOf[x] = c /\ Matches(x, sidOf) = {}
                                /\ docs'[c].role = "main" => x = o
  /\ counter' \in counter .. MaxSid

LEMMA TxSaveWrites ==
  ASSUME IInv, NEW w \in Stores, NEW o \in Objects, TxSave(w, o)
  PROVE  \E sidOf \in Assignments(o) :
           /\ Wrote(o, sidOf)
           /\ SaveDispatch(o, sidOf[o])
           /\ saved' = saved \cup {<<o, sidOf[o]>>}
           /\ cached' = [cached EXCEPT ![w] =
                (IF lastGeneration[w] = generation THEN @ ELSE {}) \cup Range(sidOf)]
<1> USE GraphAssumption, BoundsAssumption DEF IInv, Sids
<1> DEFINE New(f) == {x \in Visited(o) : Matches(x, f) = {}}
           Content(f, x) == [obj |-> x, refs |-> {f[r] : r \in Refs[x]},
                             role |-> IF x = o THEN "main" ELSE "dep"]
<1>1. PICK sidOf \in Assignments(o) :
        /\ docs' = [d \in DOMAIN docs \cup {sidOf[x] : x \in New(sidOf)} |->
                      IF d \in DOMAIN docs
                      THEN [docs[d] EXCEPT !.role = IF d = sidOf[o] THEN "main" ELSE @]
                      ELSE Content(sidOf, CHOOSE x \in New(sidOf) : sidOf[x] = d)]
        /\ counter' = counter + Cardinality(New(sidOf))
        /\ SaveDispatch(o, sidOf[o])
        /\ saved' = saved \cup {<<o, sidOf[o]>>}
        /\ cached' = [cached EXCEPT ![w] =
             (IF lastGeneration[w] = generation THEN @ ELSE {}) \cup Range(sidOf)]
  BY DEF TxSave
<1> DEFINE new == New(sidOf)
<1>2. /\ sidOf \in [Visited(o) -> Sids]
      /\ \A x \in Visited(o) \ new : sidOf[x] \in Matches(x, sidOf)
      /\ {sidOf[x] : x \in new} = counter + 1 .. counter + Cardinality(new)
  BY DEF Assignments
<1>3. /\ o \in Visited(o) /\ Visited(o) \subseteq Objects
      /\ \A x \in Visited(o) : Encoded(x) => Refs[x] \subseteq Visited(o)
  BY VisitedLeast
<1>4. counter \in Nat /\ Cardinality(new) \in Nat /\ \A x, y \in new : sidOf[x] = sidOf[y] => x = y
  <2>1. IsFiniteSet(new)
    BY <1>3, ObjectsAssumption, FS_Subset
  <2>2. counter \in Nat
    BY DEF TypeOK
  <2> HIDE DEF new
  <2> QED
    BY <1>2, <2>1, <2>2, OntoInterval
<1>5. ASSUME NEW x \in new
      PROVE  /\ sidOf[x] \in counter + 1 .. counter' /\ sidOf[x] \in DOMAIN docs' \ DOMAIN docs
             /\ docs'[sidOf[x]] \in Docs /\ docs'[sidOf[x]].obj = x
             /\ docs'[sidOf[x]].refs = {sidOf[r] : r \in Refs[x]}
             /\ docs'[sidOf[x]].role = IF x = o THEN "main" ELSE "dep"
             /\ x \in Visited(o) /\ Matches(x, sidOf) = {}
  <2>1. sidOf[x] \in counter + 1 .. counter' /\ sidOf[x] \notin DOMAIN docs
    <3>1. sidOf[x] \in counter + 1 .. counter'
      BY <1>1, <1>2
    <3>2. \A d \in DOMAIN docs : d \in Nat /\ d <= counter
      BY DEF Numbered, TypeOK
    <3> QED
      BY <1>4, <3>1, <3>2
  <2>2. (CHOOSE y \in new : sidOf[y] = sidOf[x]) = x
    BY <1>4
  <2>3. docs'[sidOf[x]] = Content(sidOf, x)
    BY <1>1, <2>1, <2>2
  <2>4. Encoded(x)
    BY <1>3 DEF Encoded, Matches
  <2>5. x \in Objects /\ {sidOf[r] : r \in Refs[x]} \subseteq Sids
    BY <1>2, <1>3, <2>4
  <2> QED
    BY <1>1, <2>1, <2>3, <2>5 DEF Docs
<1>10. counter' \in counter .. MaxSid
  <2>1. CASE Cardinality(new) = 0
    BY <1>1, <1>4, <2>1 DEF TypeOK
  <2>2. CASE Cardinality(new) # 0
    <3>1. counter + Cardinality(new) \in counter + 1 .. counter + Cardinality(new)
      BY <1>4, <2>2
    <3>2. counter + Cardinality(new) \in Sids
      BY <1>2, <3>1
    <3> QED
      BY <1>1, <1>4, <3>2
  <2> QED
    BY <2>1, <2>2
<1>0. DOMAIN docs' \ DOMAIN docs \subseteq {sidOf[x] : x \in new}
  BY <1>1
<1> HIDE DEF new, Content
<1>6. ASSUME NEW c \in DOMAIN docs
      PROVE  /\ c \in DOMAIN docs' /\ docs'[c] \in Docs
             /\ docs'[c].obj = docs[c].obj /\ docs'[c].refs = docs[c].refs
             /\ docs'[c].role = IF c = sidOf[o] THEN "main" ELSE docs[c].role
  <2>1. docs[c] \in Docs
    BY DEF TypeOK
  <2>2. c \in DOMAIN docs' /\ docs'[c] = [docs[c] EXCEPT !.role = IF c = sidOf[o] THEN "main" ELSE @]
    BY <1>1
  <2> QED
    BY <2>1, <2>2 DEF Docs
<1>7. ASSUME NEW x \in Visited(o)
      PROVE  /\ sidOf[x] \in DOMAIN docs' /\ docs'[sidOf[x]].obj = x
             /\ Encoded(x) => docs'[sidOf[x]].refs = {sidOf[r] : r \in Refs[x]}
  <2>1. CASE x \in new
    BY <1>5, <2>1
  <2>2. CASE x \notin new
    <3>1. sidOf[x] \in Matches(x, sidOf)
      BY <1>2, <2>2
    <3>2. sidOf[x] \in DOMAIN docs /\ docs[sidOf[x]].obj = x
      BY <1>3, <3>1 DEF Matches, OfValue, OfContent
    <3>3. Encoded(x) => docs[sidOf[x]].refs = {sidOf[r] : r \in Refs[x]}
      BY <1>3, <3>1 DEF Matches, OfValue, Encoded
    <3> QED
      BY <1>6, <3>2, <3>3
  <2> QED
    BY <2>1, <2>2
<1>8. docs'[sidOf[o]].role = "main"
  <2>1. CASE o \in new
    BY <1>5, <2>1
  <2>2. CASE o \notin new
    <3>1. sidOf[o] \in DOMAIN docs
      BY <1>2, <1>3, <2>2 DEF Matches, OfValue, OfContent
    <3> QED
      BY <1>6, <3>1
  <2> QED
    BY <2>1, <2>2
<1>9. ASSUME NEW c \in DOMAIN docs' \ DOMAIN docs
      PROVE  /\ c \in counter + 1 .. counter' /\ docs'[c] \in Docs
             /\ \E x \in Visited(o) : /\ sidOf[x] = c /\ Matches(x, sidOf) = {}
                                      /\ docs'[c].role = "main" => x = o
  <2>1. PICK x \in new : c = sidOf[x]
    BY <1>0
  <2> QED
    BY <1>5, <2>1
<1>11. Wrote(o, sidOf)
  <2> QED
    BY <1>2, <1>6, <1>7, <1>8, <1>9, <1>10 DEF Wrote
<1> QED
  BY <1>1, <1>11

\* A save that commits as one transaction keeps what the saves of degraded mode keep.
LEMMA TxSaveInv ==
  ASSUME IInv, NEW w \in Stores, NEW o \in Objects, TxSave(w, o)
  PROVE  IInv'
<1> USE GraphAssumption, BoundsAssumption DEF IInv, Sids
<1>1. PICK f \in Assignments(o) :
        /\ Wrote(o, f)
        /\ SaveDispatch(o, f[o])
        /\ saved' = saved \cup {<<o, f[o]>>}
        /\ cached' = [cached EXCEPT ![w] =
             (IF lastGeneration[w] = generation THEN @ ELSE {}) \cup Range(f)]
  BY TxSaveWrites
<1>2. /\ fsck = NoStore /\ lastGeneration' = [lastGeneration EXCEPT ![w] = generation]
      /\ UNCHANGED <<saver, fsckVars, generation, loading, lookups>>
  BY DEF TxSave
<1>3. /\ stage = "off" /\ unswept = {}
      /\ \A v \in Stores : step'[v] = step[v] /\ stack'[v] = stack[v] /\ memo'[v] = memo[v] /\ sid'[v] = sid[v]
  BY <1>2 DEF Excluded, MarkState, saver
<1>4. /\ o \in Visited(o) /\ f[o] \in Sids
      /\ f[o] \in DOMAIN docs' /\ docs'[f[o]].obj = o /\ docs'[f[o]].role = "main"
  BY <1>1, VisitedLeast DEF Wrote
<1>5. Keeps
  BY <1>1 DEF Wrote, Keeps
<1>6. /\ dispatch' = IF o \in Entries THEN Put(dispatch, o, f[o]) ELSE dispatch
      /\ o \in Entries /\ o \in DOMAIN dispatch => dispatch[o] = f[o]
  BY <1>1 DEF SaveDispatch
<1>7. DispatchKeeps
  BY <1>6 DEF DispatchKeeps, Put
<1>8. ASSUME NEW c \in DOMAIN docs'
      PROVE  c \in Sids /\ c <= counter' /\ docs'[c] \in Docs
  <2>1. CASE c \in DOMAIN docs
    BY <1>1, <2>1 DEF Wrote, TypeOK, Numbered
  <2>2. CASE c \notin DOMAIN docs
    BY <1>1, <2>2 DEF Wrote, TypeOK
  <2> QED
    BY <2>1, <2>2
<1>9. TypeOK'
  <2>1. DOMAIN dispatch' \subseteq Entries /\ \A e \in DOMAIN dispatch' : dispatch'[e] \in Sids
    BY <1>4, <1>6 DEF Put, TypeOK
  <2>2. Range(f) \subseteq Sids
    BY <1>1 DEF Wrote, Range
  <2>3. cached' \in [Stores -> SUBSET Sids] /\ lastGeneration' \in [Stores -> 0..MaxGeneration]
    BY <1>1, <1>2, <2>2 DEF TypeOK
  <2>4. saved' \subseteq Objects \X Sids
    BY <1>1, <1>4 DEF TypeOK
  <2>5. counter' \in 0..MaxSid
    BY <1>1 DEF Wrote, TypeOK
  <2> QED
    BY <1>2, <1>8, <2>1, <2>3, <2>4, <2>5 DEF TypeOK, saver, fsckVars, lookups
<1>10. Numbered'
  <2>1. ASSUME NEW v \in Stores, step[v] = "insert"
        PROVE  sid[v] \in 1..counter' /\ sid[v] \notin DOMAIN docs'
    BY <1>1, <2>1 DEF Wrote, Numbered, TypeOK
  <2> QED
    BY <1>3, <1>8, <2>1 DEF Numbered
<1>11. Excluded'
  BY <1>2, <1>3 DEF Excluded, fsckVars
<1>12. SaveState'
  BY <1>3, <1>5, <1>7, KnowsInv DEF SaveState
<1>13. ASSUME NEW e, NEW d, IsMain(e, d)
       PROVE  IsMain(e, d)'
  BY <1>5, <1>13 DEF IsMain, OfContent, Keeps
<1>14. IsMain(o, f[o])'
  BY <1>4 DEF IsMain, OfContent
<1>15. DispatchSound'
  BY <1>6, <1>13, <1>14 DEF DispatchSound, Put
<1>16. MarkState'
  BY <1>2, <1>3 DEF MarkState, fsckVars
<1>17. SavedIsDurable'
  <2>1. ASSUME NEW p \in saved
        PROVE  /\ IsMain(p[1], p[2])'
               /\ p[1] \in Entries => p[1] \in DOMAIN dispatch' /\ dispatch'[p[1]] = p[2]
    BY <1>7, <1>13 DEF SavedIsDurable, IsMain, DispatchKeeps
  <2>2. o \in Entries => o \in DOMAIN dispatch' /\ dispatch'[o] = f[o]
    BY <1>6 DEF Put
  <2> QED
    BY <1>1, <1>14, <2>1, <2>2 DEF SavedIsDurable, IsMain
<1>18. OneDocumentPerContent'
  <2>1. ASSUME NEW c \in DOMAIN docs' \ DOMAIN docs, Dedup[docs'[c].obj] = "content_id"
        PROVE  /\ f[docs'[c].obj] = c /\ docs'[c].obj \in Visited(o)
               /\ \A d \in DOMAIN docs : docs'[d].obj # docs'[c].obj
    <3>0. \A d \in DOMAIN docs' \ DOMAIN docs :
             \E x \in Visited(o) : f[x] = d /\ Matches(x, f) = {}
      BY <1>1 DEF Wrote
    <3>1. PICK x \in Visited(o) : f[x] = c /\ Matches(x, f) = {}
      BY <3>0
    <3>2. docs'[c].obj = x
      BY <1>1, <3>1 DEF Wrote
    <3>3. OfContent(x) = {}
      BY <2>1, <3>1, <3>2 DEF Matches
    <3>4. \A d \in DOMAIN docs : docs[d].obj # x
      BY <3>3 DEF OfContent
    <3> QED
      BY <1>5, <3>1, <3>2, <3>4 DEF Keeps
  <2>2. \A d \in DOMAIN docs : docs'[d].obj = docs[d].obj
    BY <1>5 DEF Keeps
  <2> QED
    BY <2>1, <2>2 DEF OneDocumentPerContent
<1>19. LookupState'
  BY <1>1, <1>2 DEF LookupState, lookups
<1> QED
  BY <1>9, <1>10, <1>11, <1>12, <1>15, <1>16, <1>17, <1>18, <1>19

LEMMA TxInductive == TxSpec => []IInv
<1>1. TxInit => IInv
  BY InitInv DEF TxInit
<1>2. ASSUME IInv, [TxNext]_txVars
      PROVE  IInv'
  <2>1. CASE \E w \in Stores, o \in Objects : TxSave(w, o)
    BY <1>2, <2>1, TxSaveInv
  <2>2. CASE Next \/ UNCHANGED vars
    BY <1>2, <2>2, NextInv
  <2> QED
    BY <1>2, <2>1, <2>2 DEF TxNext, txVars, Next, WithTransactions, Degraded
<1> QED
  BY <1>1, <1>2, PTL DEF TxSpec

-----------------------------------------------------------------------------
(* With transactions nothing is left over *)

\* A set of documents with every main document and with what its members refer to.
Rooting(S) ==
  /\ \A d \in DOMAIN docs : docs[d].role = "main" => d \in S
  /\ \A p \in S : docs[p].refs \cap DOMAIN docs \subseteq S

\* No save is under way between two steps, every main entry has its dispatch row,
\* and every document is reached from a main one.
Transacted ==
  /\ \A w \in Stores : step[w] = "idle"
  /\ Undispatched = {}
  /\ \A S \in SUBSET DOMAIN docs : Rooting(S) => DOMAIN docs \subseteq S

\* A save writes what it reaches from its main document, and nothing else.
LEMMA TxSaveTransacted ==
  ASSUME IInv, Transacted, NEW w \in Stores, NEW o \in Objects, TxSave(w, o)
  PROVE  Transacted'
<1>1. PICK f \in Assignments(o) : Wrote(o, f) /\ SaveDispatch(o, f[o])
  BY TxSaveWrites
<1>2. o \in Visited(o) /\ f[o] \in DOMAIN docs' /\ docs'[f[o]].obj = o /\ docs'[f[o]].role = "main"
  BY <1>1, VisitedLeast DEF Wrote
<1>3. \A v \in Stores : step'[v] = "idle"
  BY DEF TxSave, saver, Transacted
<1>4. Undispatched' = {}
  <2>1. /\ DOMAIN dispatch \subseteq DOMAIN dispatch'
        /\ o \in Entries => o \in DOMAIN dispatch'
    BY <1>1 DEF SaveDispatch, Put
  <2>2. ASSUME NEW d \in DOMAIN docs', docs'[d].role = "main", docs'[d].obj \in Entries
        PROVE  docs'[d].obj \in DOMAIN dispatch'
    <3>1. CASE d = f[o]
      BY <1>2, <2>1, <2>2, <3>1
    <3>2. CASE d # f[o] /\ d \in DOMAIN docs
      <4>1. docs[d].role = "main" /\ docs[d].obj = docs'[d].obj
        BY <1>1, <2>2, <3>2 DEF Wrote
      <4>2. docs[d].obj \in DOMAIN dispatch
        BY <2>2, <3>2, <4>1 DEF Transacted, Undispatched
      <4> QED
        BY <2>1, <4>1, <4>2
    <3>3. CASE d # f[o] /\ d \notin DOMAIN docs
      <4>1. \A c \in DOMAIN docs' \ DOMAIN docs :
              \E x \in Visited(o) : f[x] = c /\ (docs'[c].role = "main" => x = o)
        BY <1>1 DEF Wrote
      <4> QED
        BY <2>2, <3>3, <4>1
    <3> QED
      BY <3>1, <3>2, <3>3
  <2> QED
    BY <2>2 DEF Undispatched
<1>5. ASSUME NEW S \in SUBSET DOMAIN docs', Rooting(S)'
      PROVE  DOMAIN docs' \subseteq S
  <2>1. /\ \A d \in DOMAIN docs' : docs'[d].role = "main" => d \in S
        /\ \A p \in S : docs'[p].refs \cap DOMAIN docs' \subseteq S
    BY <1>5 DEF Rooting
  <2>2. DOMAIN docs \subseteq S
    <3> DEFINE K == S \cap DOMAIN docs
    <3>1. \A d \in DOMAIN docs : docs[d].role = "main" => d \in K
      BY <1>1, <2>1 DEF Wrote
    <3>2. ASSUME NEW p \in K
          PROVE  docs[p].refs \cap DOMAIN docs \subseteq K
      <4>1. docs'[p].refs = docs[p].refs /\ DOMAIN docs \subseteq DOMAIN docs'
        BY <1>1 DEF Wrote
      <4> QED
        BY <2>1, <4>1
    <3>3. K \in SUBSET DOMAIN docs
      OBVIOUS
    <3> HIDE DEF K
    <3>4. DOMAIN docs \subseteq K
      BY <3>1, <3>2, <3>3 DEF Rooting, Transacted
    <3> QED
      BY <3>4 DEF K
  <2> DEFINE T == {x \in Visited(o) : f[x] \in S}
  <2>3. o \in T
    BY <1>2, <2>1
  <2>4. ASSUME NEW x \in T, Encoded(x)
        PROVE  Refs[x] \subseteq T
    <3>1. x \in Visited(o) /\ f[x] \in S /\ Refs[x] \subseteq Visited(o)
      BY <2>4, VisitedLeast
    <3>2. docs'[f[x]].refs = {f[r] : r \in Refs[x]} /\ \A r \in Refs[x] : f[r] \in DOMAIN docs'
      BY <1>1, <2>4, <3>1 DEF Wrote
    <3>3. \A r \in Refs[x] : f[r] \in S
      BY <2>1, <3>1, <3>2
    <3> QED
      BY <3>1, <3>3
  <2>5. T \in SUBSET Objects
    BY VisitedLeast
  <2> HIDE DEF T
  <2>6. Visited(o) \subseteq T
    BY <2>3, <2>4, <2>5, VisitedLeast
  <2>7. \A x \in Visited(o) : f[x] \in S
    BY <2>6 DEF T
  <2>8. \A c \in DOMAIN docs' \ DOMAIN docs : \E x \in Visited(o) : f[x] = c
    BY <1>1 DEF Wrote
  <2> QED
    BY <2>2, <2>7, <2>8
<1> QED
  BY <1>3, <1>4, <1>5 DEF Transacted

\* What is reached from the main documents is marked, so nothing is condemned.
LEMMA SweepTransacted ==
  ASSUME IInv, Transacted, NEW c \in Collections, SweepCollection(c)
  PROVE  DOMAIN docs' = DOMAIN docs /\ \A d \in DOMAIN docs : docs'[d] = docs[d]
<1>1. stage = "mark" /\ pending \cap DOMAIN docs = {}
  BY DEF SweepCollection
<1> DEFINE K == marked \cap DOMAIN docs
<1>2. Rooting(K)
  BY <1>1 DEF Rooting, IInv, MarkState
<1>3. K \in SUBSET DOMAIN docs
  OBVIOUS
<1>4. DOMAIN docs \subseteq K
  BY <1>2, <1>3 DEF Transacted
<1>5. Condemned = {}
  BY <1>4 DEF Condemned
<1> QED
  BY <1>5 DEF SweepCollection, RestrictDomain, Restrict

LEMMA TransactedInductive == TxSpec => [](supports_transactions => Transacted)
<1>1. TxInit => Transacted
  BY DEF TxInit, Init, Transacted, Undispatched, Rooting
<1>2. ASSUME IInv, supports_transactions => Transacted, [TxNext]_txVars
      PROVE  supports_transactions' => Transacted'
  <2> SUFFICES ASSUME supports_transactions'
               PROVE  Transacted'
    OBVIOUS
  <2>1. supports_transactions /\ Transacted
    BY <1>2 DEF TxNext, WithTransactions, Degraded, txVars
  <2>2. ASSUME DOMAIN docs' = DOMAIN docs, \A d \in DOMAIN docs : docs'[d] = docs[d],
               dispatch' = dispatch, \A w \in Stores : step'[w] = "idle"
        PROVE  Transacted'
    <3>1. Undispatched' = {}
      BY <2>1, <2>2 DEF Transacted, Undispatched
    <3>2. ASSUME NEW S \in SUBSET DOMAIN docs, Rooting(S)'
          PROVE  DOMAIN docs \subseteq S
      <4>1. Rooting(S)
        BY <2>2, <3>2 DEF Rooting
      <4> QED
        BY <2>1, <4>1 DEF Transacted
    <3> QED
      BY <2>2, <3>1, <3>2 DEF Transacted
  <2>3. CASE \E w \in Stores, o \in Objects : TxSave(w, o)
    BY <1>2, <2>1, <2>3, TxSaveTransacted
  <2>4. CASE \E w \in Stores : Crash(w)
    <3>1. docs' = docs /\ dispatch' = dispatch
      BY <2>4 DEF Crash, store
    <3>2. \A w \in Stores : step'[w] = "idle"
      BY <1>2, <2>1, <2>4 DEF Crash, EndSave, Goto, Transacted, IInv, TypeOK
    <3> QED
      BY <2>2, <3>1, <3>2
  <2>5. CASE FsckStep
    <3>1. \A w \in Stores : step'[w] = "idle"
      BY <2>1, <2>5 DEF FsckStep, FsckStart, RepairDispatch, MarkRoots, MarkBatch, SweepCollection,
         FsckEnd, FsckStop, saver, Transacted
    <3>2. dispatch' = dispatch
      BY <2>1, <2>5 DEF FsckStep, FsckStart, RepairDispatch, MarkRoots, MarkBatch, SweepCollection,
         FsckEnd, FsckStop, store, Transacted
    <3>3. DOMAIN docs' = DOMAIN docs /\ \A d \in DOMAIN docs : docs'[d] = docs[d]
      <4>1. CASE \E c \in Collections : SweepCollection(c)
        BY <1>2, <2>1, <4>1, SweepTransacted
      <4>2. CASE ~\E c \in Collections : SweepCollection(c)
        BY <2>5, <4>2 DEF FsckStep, FsckStart, RepairDispatch, MarkRoots, MarkBatch, FsckEnd, FsckStop, store
      <4> QED
        BY <4>1, <4>2
    <3> QED
      BY <2>2, <3>1, <3>2, <3>3
  <2>6. CASE ReadStep \/ UNCHANGED vars
    <3>1. UNCHANGED <<docs, dispatch, step>>
      BY <2>6 DEF ReadStep, FetchRead, FetchRemember, FindRow, CheckBacking, ProbeBackings,
         vars, store, saver
    <3> QED
      BY <2>1, <2>2, <3>1 DEF Transacted
  <2> QED
    BY <1>2, <2>1, <2>3, <2>4, <2>5, <2>6 DEF TxNext, txVars, WithTransactions, Degraded
<1> QED
  BY <1>1, <1>2, TxInductive, PTL DEF TxSpec

\* A save that commits as one transaction leaves no residue, whoever dies when
\* (MongoStore._save_implicit_transaction): fsck finds nothing to repair or sweep.
THEOREM TransactionsLeaveNothingHolds == TxSpec => []TransactionsLeaveNothing
<1>1. ASSUME IInv, supports_transactions => Transacted
      PROVE  TransactionsLeaveNothing
  <2> SUFFICES ASSUME supports_transactions
               PROVE  /\ \A d \in DOMAIN docs :
                           docs[d].role = "main" \/ \E p \in DOMAIN docs : d \in docs[p].refs
                      /\ Undispatched = {}
    BY DEF TransactionsLeaveNothing
  <2>1. ASSUME NEW d \in DOMAIN docs, docs[d].role # "main",
               \A p \in DOMAIN docs : d \notin docs[p].refs
        PROVE  FALSE
    <3> DEFINE K == DOMAIN docs \ {d}
    <3>1. Rooting(K)
      BY <2>1 DEF Rooting
    <3>2. DOMAIN docs \subseteq K
      BY <1>1, <3>1 DEF Transacted
    <3> QED
      BY <3>2
  <2> QED
    BY <1>1, <2>1 DEF Transacted
<1> QED
  BY <1>1, TxInductive, TransactedInductive, PTL

\* fetch_entry() finds what a save() had returned, whatever the database supports.
THEOREM EntryNotLostWithTransactions == TxSpec => []EntryNotLost
<1>1. IInv => EntryNotLost
  BY DEF IInv, LookupState, EntryNotLost
<1> QED
  BY <1>1, TxInductive, PTL
=============================================================================
