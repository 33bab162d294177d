----------------------------- MODULE MongoSave -----------------------------
(***************************************************************************)
(* The documents of the MongoDB backend without multi-document             *)
(* transactions (degraded mode): MongoStore.save in mongo/store.py writes  *)
(* an object graph bottom-up, one database operation at a time, beside     *)
(* other store processes, readers that take no lock, and the mark and      *)
(* sweep of mongo/fsck.py.                                                 *)
(*                                                                         *)
(* An object stands for everything its content identity covers; objects of *)
(* one class live in one collection.  The store's write lock makes saves   *)
(* of one store sequential, and the lease protocol, the subject of         *)
(* MongoLease, keeps saves and fsck apart: here it is the guard "no save   *)
(* runs" of FsckStart and "no fsck runs" of StartSave.                     *)
(***************************************************************************)
EXTENDS Integers, Sequences, FiniteSets, Functions

CONSTANTS
  Stores,       \* store processes
  Objects,      \* storable objects (record contents)
  Refs,         \* Refs[o]: the storable objects o refers to
  Dedup,        \* Dedup[o]: StorageInfo.dedup of the class of o
  Collections,  \* record collections
  Collection,   \* Collection[o]: the collection of the class of o
  Entries,      \* objects of an entry family with several backing classes
  Fetchers,     \* bound: stores whose other threads call fetch()
  Lookups,      \* bound: entries that fetch_entry() is asked for
  MaxSid,       \* bound: sids the counters hand out
  MaxGeneration,\* bound: fsck runs
  SweepMayStop, \* whether a sweep may end between two collections
  NoStore

ASSUME GraphAssumption ==
  /\ Refs \in [Objects -> SUBSET Objects]
  /\ Dedup \in [Objects -> {"content_id", "by_value", "none"}]
  /\ Collection \in [Objects -> Collections]
  /\ Entries \subseteq {o \in Objects : Dedup[o] = "content_id"}
  /\ Lookups \subseteq Entries
  /\ Fetchers \subseteq Stores
ASSUME BoundsAssumption ==
  /\ MaxSid \in Nat
  /\ MaxGeneration \in Nat
  /\ SweepMayStop \in BOOLEAN
  /\ NoStore \notin Stores

VARIABLES
  docs,           \* docs[d]: the record document with sid d
  counter,        \* the counters document: the last sid handed out
  dispatch,       \* dispatch[e]: the sid the dispatch collection maps entry e to
  step,           \* step[w]: the next database operation of the save of store w
  stack,          \* stack[w]: the objects whose _save is active, innermost first
  memo,           \* memo[w]: mongo_sids of the save's projection
  sid,            \* sid[w]: the sid the innermost _save has allocated or found
  saved,          \* history: the pairs <<object, sid>> returned by save()
  stage,          \* the stage of the fsck run
  fsck,           \* the store that runs it, or NoStore
  marked,         \* sids its mark phase has reached
  pending,        \* marked sids whose references are not marked yet
  unswept,        \* collections its sweep has not visited
  generation,     \* generation counter of the layout document
  lastGeneration, \* lastGeneration[s]: the generation the caches of s belong to
  cached,         \* cached[s]: sids of the identity cache of s
  loading,        \* loading[s]: sids read by fetch() and not remembered yet
  lookup,         \* lookup[e]: progress or outcome of fetch_entry(e)
  promised        \* history: lookups that began after a save(e) had returned

saver == <<step, stack, memo, sid>>
store == <<docs, counter, dispatch>>
fsckVars == <<stage, fsck, marked, pending, unswept>>
caches == <<lastGeneration, cached, loading>>
lookups == <<lookup, promised>>
vars == <<store, saver, saved, fsckVars, generation, caches, lookups>>

Sids == 1..MaxSid
Docs == [obj : Objects, role : {"main", "dep"}, refs : SUBSET Sids]

Put(f, x, v) == [y \in DOMAIN f \cup {x} |-> IF y = x THEN v ELSE f[y]]

TypeOK ==
  /\ DOMAIN docs \subseteq Sids
  /\ \A d \in DOMAIN docs : docs[d] \in Docs
  /\ counter \in 0..MaxSid
  /\ DOMAIN dispatch \subseteq Entries
  /\ \A e \in DOMAIN dispatch : dispatch[e] \in Sids
  /\ step \in [Stores -> {"idle", "find", "children", "alloc", "insert",
                          "winner", "promote", "dispatch", "register", "done"}]
  /\ stack \in [Stores -> Seq(Objects)]
  /\ DOMAIN memo = Stores
  /\ \A w \in Stores : /\ DOMAIN memo[w] \subseteq Objects
                       /\ \A o \in DOMAIN memo[w] : memo[w][o] \in Sids
  /\ sid \in [Stores -> 0..MaxSid]
  /\ saved \subseteq Objects \X Sids
  /\ stage \in {"off", "repair", "mark"}
  /\ fsck \in Stores \cup {NoStore}
  /\ marked \subseteq Sids
  /\ pending \subseteq marked
  /\ unswept \subseteq Collections
  /\ generation \in 0..MaxGeneration
  /\ lastGeneration \in [Stores -> 0..MaxGeneration]
  /\ cached \in [Stores -> SUBSET Sids]
  /\ loading \in [Stores -> SUBSET Sids]
  /\ lookup \in [Lookups -> {"idle", "missed", "row", "value", "none", "error"}]
  /\ promised \subseteq Lookups

Init ==
  /\ docs = [d \in {} |-> 0]
  /\ counter = 0
  /\ dispatch = [e \in {} |-> 0]
  /\ step = [w \in Stores |-> "idle"]
  /\ stack = [w \in Stores |-> <<>>]
  /\ memo = [w \in Stores |-> [o \in {} |-> 0]]
  /\ sid = [w \in Stores |-> 0]
  /\ saved = {}
  /\ stage = "off"
  /\ fsck = NoStore
  /\ marked = {}
  /\ pending = {}
  /\ unswept = {}
  /\ generation = 0
  /\ lastGeneration = [s \in Stores |-> 0]
  /\ cached = [s \in Stores |-> {}]
  /\ loading = [s \in Stores |-> {}]
  /\ lookup = [e \in Lookups |-> "idle"]
  /\ promised = {}

-----------------------------------------------------------------------------
(* save() *)

Top(w) == Head(stack[w])
Root(w) == stack[w][Len(stack[w])]
TopLevel(w) == Len(stack[w]) = 1
Goto(w, next) == step' = [step EXCEPT ![w] = next]

\* The first database operation of _save_active.
First(o) == IF Dedup[o] = "content_id" THEN "find" ELSE "children"

ChildrenSaved(w) == Refs[Top(w)] \subseteq DOMAIN memo[w]
ChildSids(w) == {memo[w][o] : o \in Refs[Top(w)]}

OfContent(o) == {d \in DOMAIN docs : docs[d].obj = o}
OfValue(o, refs) == {d \in OfContent(o) : docs[d].refs = refs}

\* The innermost _save returns d to its caller: the parent's encoding goes on
\* with its next reference, the top-level save with the entry dispatch.
Return(w, d) ==
  /\ memo' = [memo EXCEPT ![w] = Put(@, Top(w), d)]
  /\ sid' = [sid EXCEPT ![w] = d]
  /\ IF TopLevel(w)
     THEN /\ UNCHANGED stack
          /\ Goto(w, IF Top(w) \in Entries THEN "dispatch" ELSE "done")
     ELSE /\ stack' = [stack EXCEPT ![w] = Tail(@)]
          /\ Goto(w, "children")

\* A lookup found d.  A top-level save of a dependency-role document updates
\* its role in an operation of its own.
Found(w, d) ==
  IF TopLevel(w) /\ docs[d].role = "dep"
  THEN /\ sid' = [sid EXCEPT ![w] = d]
       /\ Goto(w, "promote")
       /\ UNCHANGED <<memo, stack>>
  ELSE Return(w, d)

\* A save that returns or raises leaves nothing behind but its documents.
EndSave(w) ==
  /\ Goto(w, "idle")
  /\ stack' = [stack EXCEPT ![w] = <<>>]
  /\ memo' = [memo EXCEPT ![w] = [o \in {} |-> 0]]
  /\ sid' = [sid EXCEPT ![w] = 0]

\* acquire_writer, _observe_generation and the entry of the top-level _save.
StartSave(w, o) ==
  /\ step[w] = "idle"
  /\ fsck = NoStore
  /\ cached' = [cached EXCEPT ![w] = IF lastGeneration[w] = generation THEN @ ELSE {}]
  /\ lastGeneration' = [lastGeneration EXCEPT ![w] = generation]
  /\ stack' = [stack EXCEPT ![w] = <<o>>]
  /\ Goto(w, First(o))
  /\ UNCHANGED <<store, memo, sid, saved, fsckVars, generation, loading, lookups>>

\* The content_id lookup of _save_active, and the lookup of the winner after
\* a duplicate key error.
FindByContent(w) ==
  /\ step[w] = "find"
  /\ \/ /\ OfContent(Top(w)) = {}
        /\ Goto(w, "children")
        /\ UNCHANGED <<stack, memo, sid>>
     \/ \E d \in OfContent(Top(w)) : Found(w, d)
  /\ UNCHANGED <<store, saved, fsckVars, generation, caches, lookups>>

FindWinner(w) ==
  /\ step[w] = "winner"
  /\ \E d \in OfContent(Top(w)) : Found(w, d)
  /\ UNCHANGED <<store, saved, fsckVars, generation, caches, lookups>>

\* encode_record calls _save for a reference not yet in mongo_sids; _save
\* refreshes the writer lease first.
Descend(w, o) ==
  /\ step[w] = "children"
  /\ o \in Refs[Top(w)] \ DOMAIN memo[w]
  /\ stack' = [stack EXCEPT ![w] = <<o>> \o @]
  /\ Goto(w, First(o))
  /\ UNCHANGED <<store, memo, sid, saved, fsckVars, generation, caches, lookups>>

\* The lookup of an equal document by value, over the encoded references.
MatchByValue(w) ==
  /\ step[w] = "children"
  /\ ChildrenSaved(w)
  /\ Dedup[Top(w)] = "by_value"
  /\ \/ /\ OfValue(Top(w), ChildSids(w)) = {}
        /\ Goto(w, "alloc")
        /\ UNCHANGED <<stack, memo, sid>>
     \/ \E d \in OfValue(Top(w), ChildSids(w)) : Found(w, d)
  /\ UNCHANGED <<store, saved, fsckVars, generation, caches, lookups>>

\* Faulty variant: the next sid is derived from the documents present.
CounterNextFromDocs(w) ==
  /\ \/ step[w] = "alloc"
     \/ step[w] = "children" /\ ChildrenSaved(w) /\ Dedup[Top(w)] # "by_value"
  /\ Cardinality(DOMAIN docs) < MaxSid
  /\ counter' = Cardinality(DOMAIN docs) + 1
  /\ sid' = [sid EXCEPT ![w] = counter']
  /\ Goto(w, "insert")
  /\ UNCHANGED <<docs, dispatch, stack, memo, saved, fsckVars, generation, caches, lookups>>

\* counter_next: one atomic increment, outside any transaction.
CounterNext(w) ==
  /\ \/ step[w] = "alloc"
     \/ step[w] = "children" /\ ChildrenSaved(w) /\ Dedup[Top(w)] # "by_value"
  /\ counter < MaxSid
  /\ counter' = counter + 1
  /\ sid' = [sid EXCEPT ![w] = counter + 1]
  /\ Goto(w, "insert")
  /\ UNCHANGED <<docs, dispatch, stack, memo, saved, fsckVars, generation, caches, lookups>>

\* Faulty variant: the unique index on content_id is missing.
InsertUnindexed(w) ==
  /\ step[w] = "insert"
  /\ docs' = Put(docs, sid[w], [obj |-> Top(w), refs |-> ChildSids(w),
                                role |-> IF TopLevel(w) THEN "main" ELSE "dep"])
  /\ Return(w, sid[w])
  /\ UNCHANGED <<counter, dispatch, saved, fsckVars, generation, caches, lookups>>

\* insert_one, refused by the unique index when the content is already there.
Insert(w) ==
  /\ step[w] = "insert"
  /\ IF Dedup[Top(w)] = "content_id" /\ OfContent(Top(w)) # {}
     THEN /\ Goto(w, "winner")
          /\ UNCHANGED <<docs, stack, memo, sid>>
     ELSE /\ docs' = Put(docs, sid[w], [obj |-> Top(w), refs |-> ChildSids(w),
                                        role |-> IF TopLevel(w) THEN "main" ELSE "dep"])
          /\ Return(w, sid[w])
  /\ UNCHANGED <<counter, dispatch, saved, fsckVars, generation, caches, lookups>>

\* Faulty variant: a document found by its content keeps its role.
PromoteForgotten(w) ==
  /\ step[w] = "promote"
  /\ Return(w, sid[w])
  /\ UNCHANGED <<store, saved, fsckVars, generation, caches, lookups>>

\* The role update of a dependency that is now saved in its own right.
Promote(w) ==
  /\ step[w] = "promote"
  /\ docs' = [docs EXCEPT ![sid[w]].role = "main"]
  /\ Return(w, sid[w])
  /\ UNCHANGED <<counter, dispatch, saved, fsckVars, generation, caches, lookups>>

\* Faulty variant: a missing row is left to the next fsck.
FindDispatchLeft(w) ==
  /\ step[w] = "dispatch"
  /\ Goto(w, "done")
  /\ UNCHANGED <<store, stack, memo, sid, saved, fsckVars, generation, caches, lookups>>

\* _save_entry_dispatch: a row for this document is accepted, another one
\* raises, no row is inserted in an operation of its own.
FindDispatch(w) ==
  /\ step[w] = "dispatch"
  /\ IF Root(w) \in DOMAIN dispatch
     THEN /\ dispatch[Root(w)] = sid[w]
          /\ Goto(w, "done")
     ELSE Goto(w, "register")
  /\ UNCHANGED <<store, stack, memo, sid, saved, fsckVars, generation, caches, lookups>>

InsertDispatch(w) ==
  /\ step[w] = "register"
  /\ IF Root(w) \in DOMAIN dispatch
     THEN dispatch[Root(w)] = sid[w] /\ UNCHANGED dispatch
     ELSE dispatch' = Put(dispatch, Root(w), sid[w])
  /\ Goto(w, "done")
  /\ UNCHANGED <<docs, counter, stack, memo, sid, saved, fsckVars, generation, caches, lookups>>

\* save() remembers the graph and returns the sid.
ReturnSid(w) ==
  /\ step[w] = "done"
  /\ saved' = saved \cup {<<Root(w), sid[w]>>}
  /\ cached' = [cached EXCEPT ![w] = @ \cup Range(memo[w])]
  /\ EndSave(w)
  /\ UNCHANGED <<store, fsckVars, generation, lastGeneration, loading, lookups>>

\* A database error, a lost lease or a conflict ends the save where it stands.
FailSave(w) ==
  /\ step[w] # "idle"
  /\ EndSave(w)
  /\ UNCHANGED <<store, saved, fsckVars, generation, caches, lookups>>

-----------------------------------------------------------------------------
(* fsck() *)

\* acquire_fsck and the bump of the generation.
FsckStart(s) ==
  /\ fsck = NoStore
  /\ \A w \in Stores : step[w] = "idle"
  /\ generation < MaxGeneration
  /\ generation' = generation + 1
  /\ fsck' = s
  /\ stage' = "repair"
  /\ UNCHANGED <<store, saver, saved, marked, pending, unswept, caches, lookups>>

Undispatched == {d \in DOMAIN docs : /\ docs[d].role = "main"
                                     /\ docs[d].obj \in Entries \ DOMAIN dispatch}

\* _integrity_pass inserts a missing dispatch row of a main document.
RepairDispatch(d) ==
  /\ stage = "repair"
  /\ d \in Undispatched
  /\ dispatch' = Put(dispatch, docs[d].obj, d)
  /\ UNCHANGED <<docs, counter, saver, saved, fsckVars, generation, caches, lookups>>

\* Faulty variant: every document is a root.
RootsAnyRole == DOMAIN docs

\* Main documents and whatever a dispatch row addresses.
Roots == {d \in DOMAIN docs : docs[d].role = "main"} \cup Range(dispatch)

\* The roots of _mark.
MarkRoots ==
  /\ stage = "repair"
  /\ Undispatched = {}
  /\ stage' = "mark"
  /\ marked' = Roots
  /\ pending' = Roots
  /\ unswept' = Collections
  /\ UNCHANGED <<store, saver, saved, fsck, generation, caches, lookups>>

\* Faulty variant: references of references are not followed.
MarkBatchShallow(c) ==
  LET batch == {d \in pending \cap DOMAIN docs : Collection[docs[d].obj] = c}
  IN /\ stage = "mark"
     /\ batch # {}
     /\ marked' = marked \cup UNION {docs[d].refs : d \in batch}
     /\ pending' = pending \ batch
     /\ UNCHANGED <<store, saver, saved, stage, fsck, unswept, generation, caches, lookups>>

\* One batch of the queue of collection c: its references are enqueued.
MarkBatch(c) ==
  LET batch == {d \in pending \cap DOMAIN docs : Collection[docs[d].obj] = c}
      targets == UNION {docs[d].refs : d \in batch}
  IN /\ stage = "mark"
     /\ batch # {}
     /\ marked' = marked \cup targets
     /\ pending' = (pending \ batch) \cup (targets \ marked)
     /\ UNCHANGED <<store, saver, saved, stage, fsck, unswept, generation, caches, lookups>>

Condemned == {d \in DOMAIN docs : docs[d].role = "dep" /\ d \notin marked}

\* delete_many over one collection, in the arbitrary order of the schemas.
SweepCollection(c) ==
  /\ stage = "mark"
  /\ pending \cap DOMAIN docs = {}
  /\ c \in unswept
  /\ docs' = RestrictDomain(docs, LAMBDA d : d \notin Condemned \/ Collection[docs[d].obj] # c)
  /\ unswept' = unswept \ {c}
  /\ UNCHANGED <<counter, dispatch, saver, saved, stage, fsck, marked, pending,
                 generation, caches, lookups>>

ReleaseFsck ==
  /\ stage' = "off"
  /\ fsck' = NoStore
  /\ marked' = {}
  /\ pending' = {}
  /\ unswept' = {}

\* run_fsck returns: its own caches are cleared and current.
FsckEnd ==
  /\ stage = "mark"
  /\ pending \cap DOMAIN docs = {}
  /\ unswept = {}
  /\ cached' = [cached EXCEPT ![fsck] = {}]
  /\ lastGeneration' = [lastGeneration EXCEPT ![fsck] = generation]
  /\ ReleaseFsck
  /\ UNCHANGED <<store, saver, saved, generation, loading, lookups>>

\* A lost lease, a database error or the death of the process ends the run.
FsckStop ==
  /\ fsck # NoStore
  /\ SweepMayStop \/ unswept \in {{}, Collections}
  /\ ReleaseFsck
  /\ UNCHANGED <<store, saver, saved, generation, caches, lookups>>

-----------------------------------------------------------------------------
(* Readers, which take no lock, and the death of a process *)

\* fetch() of a sid that is not cached reads the document.
FetchRead(s, d) ==
  /\ loading[s] = {}
  /\ d \in DOMAIN docs \ cached[s]
  /\ loading' = [loading EXCEPT ![s] = {d}]
  /\ UNCHANGED <<store, saver, saved, fsckVars, generation, lastGeneration, cached, lookups>>

\* It decodes what it read and remembers the instance.
FetchRemember(s) ==
  /\ loading[s] # {}
  /\ cached' = [cached EXCEPT ![s] = @ \cup loading[s]]
  /\ loading' = [loading EXCEPT ![s] = {}]
  /\ UNCHANGED <<store, saver, saved, fsckVars, generation, lastGeneration, lookups>>

\* fetch_entry() reads the dispatch row, then either the backing it names or,
\* without a row, every backing collection.
FindRow(e) ==
  /\ lookup[e] \in {"idle", "value", "none", "error"}
  /\ lookup' = [lookup EXCEPT ![e] = IF e \in DOMAIN dispatch THEN "row" ELSE "missed"]
  /\ promised' = IF \E d \in Sids : <<e, d>> \in saved THEN promised \cup {e}
                                                      ELSE promised \ {e}
  /\ UNCHANGED <<store, saver, saved, fsckVars, generation, caches>>

CheckBacking(e) ==
  /\ lookup[e] = "row"
  /\ lookup' = [lookup EXCEPT ![e] = IF dispatch[e] \in OfContent(e) THEN "value" ELSE "error"]
  /\ UNCHANGED <<store, saver, saved, fsckVars, generation, caches, promised>>

ProbeBackings(e) ==
  /\ lookup[e] = "missed"
  /\ lookup' = [lookup EXCEPT ![e] = IF OfContent(e) = {} THEN "none" ELSE "error"]
  /\ UNCHANGED <<store, saver, saved, fsckVars, generation, caches, promised>>

\* The process dies and a new one opens the store: its save, its fsck run, its
\* reads and its caches are gone, and the generation is read anew.
Crash(s) ==
  /\ fsck = s => SweepMayStop \/ unswept \in {{}, Collections}
  /\ EndSave(s)
  /\ IF fsck = s THEN ReleaseFsck ELSE UNCHANGED fsckVars
  /\ cached' = [cached EXCEPT ![s] = {}]
  /\ loading' = [loading EXCEPT ![s] = {}]
  /\ lastGeneration' = [lastGeneration EXCEPT ![s] = generation]
  /\ UNCHANGED <<store, saved, generation, lookups>>

SaveStep(w) ==
  \/ \E o \in Objects : StartSave(w, o) \/ Descend(w, o)
  \/ FindByContent(w) \/ FindWinner(w) \/ MatchByValue(w)
  \/ CounterNext(w) \/ Insert(w) \/ Promote(w)
  \/ FindDispatch(w) \/ InsertDispatch(w) \/ ReturnSid(w) \/ FailSave(w)

FsckStep ==
  \/ \E s \in Stores : FsckStart(s)
  \/ \E d \in Sids : RepairDispatch(d)
  \/ MarkRoots
  \/ \E c \in Collections : MarkBatch(c) \/ SweepCollection(c)
  \/ FsckEnd \/ FsckStop

ReadStep ==
  \/ \E s \in Fetchers, d \in Sids : FetchRead(s, d)
  \/ \E s \in Fetchers : FetchRemember(s)
  \/ \E e \in Lookups : FindRow(e) \/ CheckBacking(e) \/ ProbeBackings(e)

Next ==
  \/ \E w \in Stores : SaveStep(w) \/ Crash(w)
  \/ FsckStep
  \/ ReadStep

Spec == Init /\ [][Next]_vars

-----------------------------------------------------------------------------
(* Properties *)

\* References always resolve: outside the documents a sweep is deleting, no
\* document points to a missing sid (docs/details/mongo.md, degraded mode),
\* whatever saves fail half way and whatever fsck removes.
RefsResolve ==
  \A d \in DOMAIN docs :
    \/ stage = "mark" /\ unswept # Collections /\ d \in Condemned
    \/ docs[d].refs \subseteq DOMAIN docs

\* What save() returned stays: a main document with that content which no
\* fsck can sweep, and which its dispatch row names.
SavedIsDurable ==
  \A p \in saved :
    /\ p[2] \in OfContent(p[1])
    /\ docs[p[2]].role = "main"
    /\ p[1] \in Entries => p[1] \in DOMAIN dispatch /\ dispatch[p[1]] = p[2]

\* What save() returned refers to nothing that is missing
\* (docs/details/mongo.md: "A record cannot point to a missing referenced sid").
SavedResolves == \A p \in saved : p[2] \in DOMAIN docs => docs[p[2]].refs \subseteq DOMAIN docs

\* A content-addressed object has one document, however many stores save it
\* at once and whether it is saved alone or as a reference.
OneDocumentPerContent ==
  \A c, d \in DOMAIN docs :
    docs[c].obj = docs[d].obj /\ Dedup[docs[c].obj] = "content_id" => c = d

\* A completed fsck leaves no residue: every remaining document is a main
\* document, known to its dispatch collection, or something refers to it.
FsckLeavesClean ==
  [][stage = "mark" /\ stage' = "off" /\ unswept = {} =>
       \A d \in DOMAIN docs :
         \/ /\ docs[d].role = "main"
            /\ docs[d].obj \in Entries => docs[d].obj \in DOMAIN dispatch
         \/ \E p \in DOMAIN docs : d \in docs[p].refs]_vars

\* fetch_entry() of an entry that a save() had returned before the call
\* neither misses it nor raises EntryDispatchIntegrityError.
EntryNotLost == \A e \in promised : lookup[e] \notin {"none", "error"}

\* Sids the counters have not given to a document.
Unused == (counter + 1 .. MaxSid) \cup {sid[w] : w \in {v \in Stores : step[v] = "insert"}}

Abstract == INSTANCE ContentStore
  WITH stored <- [d \in DOMAIN docs |-> [obj |-> docs[d].obj, refs |-> docs[d].refs]],
       unused <- Unused,
       acked <- saved,
       Unique <- {o \in Objects : Dedup[o] = "content_id"},
       Sids <- Sids

\* The documents implement the append-only content store: every sid gets at
\* most one document, a document is written after what it refers to, and
\* fsck removes only what no acknowledged object needs.
ImplementsContentStore == Abstract!Spec
=============================================================================
