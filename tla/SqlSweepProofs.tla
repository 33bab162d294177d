--------------------------- MODULE SqlSweepProofs ---------------------------
(***************************************************************************)
(* Proofs about DegradedWrite and SqlFsck: what keeps a SQL store whole    *)
(* where no transaction does.                                              *)
(***************************************************************************)
EXTENDS DegradedWrite, SqlFsck, FiniteSetTheorems, TLAPS

----------------------------------------------------------------------------
(***************************************************************************)
(* Proofs about DegradedWrite, for any stores, contents and child tables,  *)
(* when a lease is stolen only from a store that is not in an operation.   *)
(*                                                                         *)
(* The argument: one store at a time is in an operation.  The sid it has   *)
(* reserved is nobody else's, so the rows that carry it are exactly those  *)
(* the operation has written so far; a sweep inside the operation looks    *)
(* only at tables it has not yet written to.  A marker goes away after a   *)
(* sweep of its table, or with the operation that wrote it, whose rows     *)
(* have then a parent or belong to a save that raised.                     *)
(***************************************************************************)

Touching == {"touch", "sweep", "unmark", "mark"}

\* The child tables that the operation of w has marked.
Done(w) ==
  (Needed(obj[w]) \ left[w]) \ (IF step[w] \in Touching THEN {table[w]} ELSE {})

Exclusive == \A w \in Owners : step[w] # "idle" => leased = w

\* Where the locals of an operation stand at each of its steps.
ProgressOf(w) ==
  /\ step[w] = "idle" => sid[w] = 0 /\ todo[w] = {} /\ touched[w] = {} /\ table[w] = Parent
  /\ step[w] = "find" =>
       /\ sid[w] = 0 /\ todo[w] = {} /\ touched[w] = {} /\ table[w] = Parent
       /\ left[w] = Needed(obj[w])
  /\ step[w] \in Touching =>
       /\ todo[w] = {}
       /\ IF table[w] = Parent
          THEN sid[w] = 0 /\ touched[w] = {} /\ left[w] = Needed(obj[w])
          ELSE sid[w] # 0 /\ table[w] \in Needed(obj[w]) \ left[w]
  /\ step[w] \in {"alloc", "init"} =>
       /\ sid[w] = 0 /\ todo[w] = {} /\ touched[w] = {Parent} /\ table[w] = Parent
       /\ left[w] = Needed(obj[w])
  /\ step[w] \in {"child", "parent"} => sid[w] # 0
  /\ step[w] \notin {"idle", "clean"} => left[w] \subseteq Needed(obj[w])
  /\ step[w] = "parent" => left[w] = {} /\ todo[w] = {}
  /\ step[w] = "child" /\ todo[w] # {} =>
       /\ table[w] \in Done(w)
       /\ todo[w] \subseteq RowsOf(obj[w], table[w], sid[w])

Progress == \A w \in Owners : ProgressOf(w)

\* The rows under a reserved sid.
Written ==
  \A w \in Owners : sid[w] # 0 =>
    /\ sid[w] < counter
    /\ step[w] # "clean" =>
         /\ sid[w] \notin DOMAIN parents
         /\ touched[w] = {Parent} \cup Done(w)
         /\ \A c \in ChildTables, i \in Nat :
              <<c, sid[w], i>> \in rows <=>
                c \in Done(w) /\ i \in 1..Rows[obj[w]][c] /\ <<c, sid[w], i>> \notin todo[w]
    /\ step[w] = "clean" => sid[w] \in DOMAIN parents \cup raised

\* A marker with the name of a store is of the operation the store is in.
MarkerOwned ==
  \A t \in Tables, w \in Owners : dirty[t] = w <=> t \in touched[w]

\* What lies without a parent under the marker of a running operation is its own.
MarkedRows ==
  \A c \in ChildTables, d \in Sids, i \in Nat, w \in Owners :
    <<c, d, i>> \in rows /\ d \notin DOMAIN parents /\ dirty[c] = w => d = sid[w] \/ d \in raised

\* The sweep precedes the removal of a marker that another operation left.
SweptFirst ==
  \A w \in Owners :
    /\ step[w] = "mark" => dirty[table[w]] = Clean
    /\ step[w] = "unmark" =>
         \A c \in ChildTables, d \in Sids, i \in Nat :
           <<c, d, i>> \in rows /\ table[w] \in {Parent, c} => d \in DOMAIN parents

\* ParentComplete and ResidueMarked, row by row.
CompleteRows ==
  \A d \in DOMAIN parents, c \in ChildTables, i \in Nat :
    <<c, d, i>> \in rows <=> i \in 1..Rows[parents[d]][c]

ResidueRows ==
  \A c \in ChildTables, d \in Sids, i \in Nat :
    <<c, d, i>> \in rows /\ d \notin DOMAIN parents => dirty[c] # Clean \/ d \in raised

IInv ==
  /\ TypeOK
  /\ Exclusive
  /\ Progress
  /\ Written
  /\ MarkerOwned
  /\ MarkedRows
  /\ SweptFirst
  /\ CompleteRows
  /\ ResidueRows

LEMMA BeginInv ==
  ASSUME IInv, NEW w \in Owners, NEW o \in Objects, Begin(w, o)
  PROVE  IInv'
<1> USE NamesAssumption, RowsAssumption
    DEF Begin, Goto, IInv, Tables, Sids, data, local
<1>1. TypeOK'
  BY DEF TypeOK, Needed
<1>2. Exclusive'
  BY DEF TypeOK, Exclusive
<1>3. Progress'
  BY DEF TypeOK, Progress, ProgressOf, Done, Needed, Touching, RowsOf
<1>4. Written'
  BY DEF TypeOK, Exclusive, Progress, ProgressOf, Written, Done, Needed, Touching, RowsOf
<1>5. MarkerOwned'
  BY DEF TypeOK, Exclusive, Progress, ProgressOf, Written, Done, MarkerOwned, Touching
<1>6. MarkedRows'
  BY DEF TypeOK, Exclusive, Progress, ProgressOf, Written, MarkerOwned, MarkedRows, SweptFirst, ResidueRows
<1>7. SweptFirst'
  BY DEF TypeOK, Exclusive, Progress, ProgressOf, Written, Done, SweptFirst, MarkerOwned, Touching
<1>8. CompleteRows'
  BY DEF TypeOK, Progress, ProgressOf, Written, CompleteRows, Done, Needed, Touching, RowsOf
<1>9. ResidueRows'
  BY DEF TypeOK, Exclusive, Progress, ProgressOf, Written, MarkerOwned, MarkedRows, SweptFirst, ResidueRows
<1> QED
  BY <1>1, <1>2, <1>3, <1>4, <1>5, <1>6, <1>7, <1>8, <1>9

LEMMA FindInv ==
  ASSUME IInv, NEW w \in Owners, Find(w)
  PROVE  IInv'
<1> USE NamesAssumption, RowsAssumption
    DEF Find, Goto, IInv, Tables, Sids, data, local
<1>1. TypeOK'
  BY DEF TypeOK
<1>2. Exclusive'
  BY DEF TypeOK, Exclusive
<1>3. Progress'
  BY DEF TypeOK, Progress, ProgressOf, Done, Needed, Touching, RowsOf
<1>4. Written'
  BY DEF TypeOK, Exclusive, Progress, ProgressOf, Written, Done, Needed, Touching, RowsOf
<1>5. MarkerOwned'
  BY DEF TypeOK, Exclusive, Progress, ProgressOf, Written, Done, MarkerOwned, Touching
<1>6. MarkedRows'
  BY DEF TypeOK, Exclusive, Progress, ProgressOf, Written, MarkerOwned, MarkedRows, SweptFirst, ResidueRows
<1>7. SweptFirst'
  BY DEF TypeOK, Exclusive, Progress, ProgressOf, Written, Done, SweptFirst, MarkerOwned, Touching
<1>8. CompleteRows'
  BY DEF TypeOK, Progress, ProgressOf, Written, CompleteRows, Done, Needed, Touching, RowsOf
<1>9. ResidueRows'
  BY DEF TypeOK, Exclusive, Progress, ProgressOf, Written, MarkerOwned, MarkedRows, SweptFirst, ResidueRows
<1> QED
  BY <1>1, <1>2, <1>3, <1>4, <1>5, <1>6, <1>7, <1>8, <1>9

LEMMA TouchInv ==
  ASSUME IInv, NEW w \in Owners, Touch(w)
  PROVE  IInv'
<1> USE NamesAssumption, RowsAssumption
    DEF Touch, Goto, IInv, Tables, Sids, data, local
<1>1. TypeOK'
  BY DEF TypeOK
<1>2. Exclusive'
  BY DEF TypeOK, Exclusive
<1>3. Progress'
  BY DEF TypeOK, Progress, ProgressOf, Done, Needed, Touching, RowsOf
<1>4. Written'
  BY DEF TypeOK, Exclusive, Progress, ProgressOf, Written, Done, Needed, Touching, RowsOf
<1>5. MarkerOwned'
  BY DEF TypeOK, Exclusive, Progress, ProgressOf, Written, Done, MarkerOwned, Touching
<1>6. MarkedRows'
  BY DEF TypeOK, Exclusive, Progress, ProgressOf, Written, MarkerOwned, MarkedRows, SweptFirst, ResidueRows
<1>7. SweptFirst'
  BY DEF TypeOK, Exclusive, Progress, ProgressOf, Written, Done, SweptFirst, MarkerOwned, Touching
<1>8. CompleteRows'
  BY DEF TypeOK, Progress, ProgressOf, Written, CompleteRows, Done, Needed, Touching, RowsOf
<1>9. ResidueRows'
  BY DEF TypeOK, Exclusive, Progress, ProgressOf, Written, MarkerOwned, MarkedRows, SweptFirst, ResidueRows
<1> QED
  BY <1>1, <1>2, <1>3, <1>4, <1>5, <1>6, <1>7, <1>8, <1>9

LEMMA SweepInv ==
  ASSUME IInv, NEW w \in Owners, Sweep(w)
  PROVE  IInv'
<1> USE NamesAssumption, RowsAssumption
    DEF Sweep, Ownerless, Goto, IInv, Tables, Sids, data, local
<1>1. TypeOK'
  BY DEF TypeOK
<1>2. Exclusive'
  BY DEF TypeOK, Exclusive
<1>3. Progress'
  <2>1. /\ step'[w] = "unmark"
        /\ \A v \in Owners \ {w} : step'[v] = step[v] /\ Done(v)' = Done(v)
    BY DEF TypeOK, Done
  <2> QED
    BY <2>1 DEF Progress, ProgressOf, Touching
<1>4. Written'
  BY DEF TypeOK, Exclusive, Progress, ProgressOf, Written, Done, Needed, Touching, RowsOf
<1>5. MarkerOwned'
  BY DEF TypeOK, Exclusive, Progress, ProgressOf, Written, Done, MarkerOwned, Touching
<1>6. MarkedRows'
  BY DEF TypeOK, Exclusive, Progress, ProgressOf, Written, MarkerOwned, MarkedRows, SweptFirst, ResidueRows
<1>7. SweptFirst'
  BY DEF TypeOK, Exclusive, Progress, ProgressOf, Written, Done, SweptFirst, MarkerOwned, Touching
<1>8. CompleteRows'
  BY DEF TypeOK, Progress, ProgressOf, Written, CompleteRows, Done, Needed, Touching, RowsOf
<1>9. ResidueRows'
  BY DEF TypeOK, Exclusive, Progress, ProgressOf, Written, MarkerOwned, MarkedRows, SweptFirst, ResidueRows
<1> QED
  BY <1>1, <1>2, <1>3, <1>4, <1>5, <1>6, <1>7, <1>8, <1>9

LEMMA UnmarkInv ==
  ASSUME IInv, NEW w \in Owners, Unmark(w)
  PROVE  IInv'
<1> USE NamesAssumption, RowsAssumption
    DEF Unmark, Goto, IInv, Tables, Sids, data, local
<1>1. TypeOK'
  BY DEF TypeOK
<1>2. Exclusive'
  BY DEF TypeOK, Exclusive
<1>3. Progress'
  BY DEF TypeOK, Progress, ProgressOf, Done, Needed, Touching, RowsOf
<1>4. Written'
  BY DEF TypeOK, Exclusive, Progress, ProgressOf, Written, Done, Needed, Touching, RowsOf
<1>5. MarkerOwned'
  BY DEF TypeOK, Exclusive, Progress, ProgressOf, Written, Done, MarkerOwned, Touching
<1>6. MarkedRows'
  BY DEF TypeOK, Exclusive, Progress, ProgressOf, Written, MarkerOwned, MarkedRows, SweptFirst, ResidueRows
<1>7. SweptFirst'
  BY DEF TypeOK, Exclusive, Progress, ProgressOf, Written, Done, SweptFirst, MarkerOwned, Touching
<1>8. CompleteRows'
  BY DEF TypeOK, Progress, ProgressOf, Written, CompleteRows, Done, Needed, Touching, RowsOf
<1>9. ResidueRows'
  BY DEF TypeOK, Exclusive, Progress, ProgressOf, Written, MarkerOwned, MarkedRows, SweptFirst, ResidueRows
<1> QED
  BY <1>1, <1>2, <1>3, <1>4, <1>5, <1>6, <1>7, <1>8, <1>9

LEMMA MarkInv ==
  ASSUME IInv, NEW w \in Owners, Mark(w)
  PROVE  IInv'
<1> USE NamesAssumption, RowsAssumption
    DEF Mark, Goto, IInv, Tables, Sids, data, local
<1>1. TypeOK'
  <2>1. table[w] # Parent => RowsOf(obj[w], table[w], sid[w]) \in SUBSET (ChildTables \X Sids \X Nat)
    BY DEF TypeOK, Progress, ProgressOf, Touching, RowsOf
  <2>2. dirty' \in [Tables -> Owners \cup {Clean, Residue}] /\ touched' \in [Owners -> SUBSET Tables]
    BY DEF TypeOK
  <2>3. todo' \in [Owners -> SUBSET (ChildTables \X Sids \X Nat)]
    <3>1. todo' = todo \/ todo' = [todo EXCEPT ![w] = RowsOf(obj[w], table[w], sid[w])]
      OBVIOUS
    <3> QED
      BY <2>1, <3>1 DEF TypeOK
  <2>4. step' \in [Owners -> {"idle", "find", "touch", "sweep", "unmark", "mark", "alloc",
                            "init", "child", "parent", "clean"}]
    BY DEF TypeOK
  <2> QED
    BY <2>2, <2>3, <2>4 DEF TypeOK
<1>2. Exclusive'
  BY DEF TypeOK, Exclusive
<1>3. Progress'
  BY DEF TypeOK, Progress, ProgressOf, Done, Needed, Touching, RowsOf
<1>4. Written'
  BY DEF TypeOK, Exclusive, Progress, ProgressOf, Written, Done, Needed, Touching, RowsOf
<1>5. MarkerOwned'
  BY DEF TypeOK, Exclusive, Progress, ProgressOf, Written, Done, MarkerOwned, Touching
<1>6. MarkedRows'
  BY DEF TypeOK, Exclusive, Progress, ProgressOf, Written, MarkerOwned, MarkedRows, SweptFirst, ResidueRows
<1>7. SweptFirst'
  BY DEF TypeOK, Exclusive, Progress, ProgressOf, Written, Done, SweptFirst, MarkerOwned, Touching
<1>8. CompleteRows'
  BY DEF TypeOK, Progress, ProgressOf, Written, CompleteRows, Done, Needed, Touching, RowsOf
<1>9. ResidueRows'
  BY DEF TypeOK, Exclusive, Progress, ProgressOf, Written, MarkerOwned, MarkedRows, SweptFirst, ResidueRows
<1> QED
  BY <1>1, <1>2, <1>3, <1>4, <1>5, <1>6, <1>7, <1>8, <1>9

LEMMA AllocInv ==
  ASSUME IInv, NEW w \in Owners, Alloc(w)
  PROVE  IInv'
<1> USE NamesAssumption, RowsAssumption
    DEF Alloc, Goto, IInv, Tables, Sids, data, local
<1>1. TypeOK'
  <2>1. sid' \in [Owners -> 0..MaxSid] /\ counter' \in 0..MaxSid + 1
    BY DEF TypeOK
  <2>2. \A d \in DOMAIN parents : d < counter'
    BY DEF TypeOK
  <2>3. \A r \in rows : r[2] < counter'
    BY DEF TypeOK
  <2> QED
    BY <2>1, <2>2, <2>3 DEF TypeOK
<1>2. Exclusive'
  BY DEF TypeOK, Exclusive
<1>3. Progress'
  BY DEF TypeOK, Progress, ProgressOf, Done, Needed, Touching, RowsOf
<1>4. Written'
  BY DEF TypeOK, Exclusive, Progress, ProgressOf, Written, Done, Needed, Touching, RowsOf
<1>5. MarkerOwned'
  BY DEF TypeOK, Exclusive, Progress, ProgressOf, Written, Done, MarkerOwned, Touching
<1>6. MarkedRows'
  BY DEF TypeOK, Exclusive, Progress, ProgressOf, Written, MarkerOwned, MarkedRows, SweptFirst, ResidueRows
<1>7. SweptFirst'
  BY DEF TypeOK, Exclusive, Progress, ProgressOf, Written, Done, SweptFirst, MarkerOwned, Touching
<1>8. CompleteRows'
  BY DEF TypeOK, Progress, ProgressOf, Written, CompleteRows, Done, Needed, Touching, RowsOf
<1>9. ResidueRows'
  BY DEF TypeOK, Exclusive, Progress, ProgressOf, Written, MarkerOwned, MarkedRows, SweptFirst, ResidueRows
<1> QED
  BY <1>1, <1>2, <1>3, <1>4, <1>5, <1>6, <1>7, <1>8, <1>9

LEMMA InitCounterInv ==
  ASSUME IInv, NEW w \in Owners, InitCounter(w)
  PROVE  IInv'
<1> USE NamesAssumption, RowsAssumption
    DEF InitCounter, Goto, IInv, Tables, Sids, data, local
<1>1. TypeOK'
  <2>1. CASE counter = 0
    <3> DEFINE P(n) == /\ \A d \in DOMAIN parents : d < n
                       /\ n = 1 \/ n - 1 \in DOMAIN parents
    <3>1. ASSUME NEW d \in DOMAIN parents
          PROVE  FALSE
      <4>1. d \in 1..MaxSid /\ d < counter
        BY DEF TypeOK
      <4> QED
        BY <2>1, <4>1
    <3>2. ASSUME NEW r \in rows
          PROVE  FALSE
      <4>1. r[2] \in 1..MaxSid /\ r[2] < counter
        BY DEF TypeOK
      <4> QED
        BY <2>1, <4>1
    <3>3. 1 \in 1..MaxSid + 1 /\ P(1)
      BY <3>1
    <3>4. counter' \in 1..MaxSid + 1
      BY <2>1, <3>3
    <3> QED
      BY <3>1, <3>2, <3>4 DEF TypeOK
  <2>2. CASE counter # 0
    BY <2>2 DEF TypeOK
  <2> QED
    BY <2>1, <2>2
<1>2. Exclusive'
  BY DEF TypeOK, Exclusive
<1>3. Progress'
  <2>1. ASSUME NEW v \in Owners, v # w
        PROVE  ProgressOf(v)'
    BY <2>1 DEF TypeOK, Progress, ProgressOf, Done
  <2>2. ProgressOf(w)'
    BY DEF TypeOK, Progress, ProgressOf, Done, Touching
  <2> QED
    BY <2>1, <2>2 DEF Progress
<1>4. Written'
  BY DEF TypeOK, Exclusive, Progress, ProgressOf, Written, Done, Needed, Touching, RowsOf
<1>5. MarkerOwned'
  BY DEF TypeOK, Exclusive, Progress, ProgressOf, Written, Done, MarkerOwned, Touching
<1>6. MarkedRows'
  BY DEF TypeOK, Exclusive, Progress, ProgressOf, Written, MarkerOwned, MarkedRows, SweptFirst, ResidueRows
<1>7. SweptFirst'
  BY DEF TypeOK, Exclusive, Progress, ProgressOf, Written, Done, SweptFirst, MarkerOwned, Touching
<1>8. CompleteRows'
  BY DEF TypeOK, Progress, ProgressOf, Written, CompleteRows, Done, Needed, Touching, RowsOf
<1>9. ResidueRows'
  BY DEF TypeOK, Exclusive, Progress, ProgressOf, Written, MarkerOwned, MarkedRows, SweptFirst, ResidueRows
<1> QED
  BY <1>1, <1>2, <1>3, <1>4, <1>5, <1>6, <1>7, <1>8, <1>9

LEMMA NextChildTableInv ==
  ASSUME IInv, NEW w \in Owners, NEW c \in ChildTables, NextChildTable(w, c)
  PROVE  IInv'
<1> USE NamesAssumption, RowsAssumption
    DEF NextChildTable, Goto, IInv, Tables, Sids, data, local
<1>1. TypeOK'
  BY DEF TypeOK
<1>2. Exclusive'
  BY DEF TypeOK, Exclusive
<1>3. Progress'
  BY DEF TypeOK, Progress, ProgressOf, Done, Needed, Touching, RowsOf
<1>4. Written'
  BY DEF TypeOK, Exclusive, Progress, ProgressOf, Written, Done, Needed, Touching, RowsOf
<1>5. MarkerOwned'
  BY DEF TypeOK, Exclusive, Progress, ProgressOf, Written, Done, MarkerOwned, Touching
<1>6. MarkedRows'
  BY DEF TypeOK, Exclusive, Progress, ProgressOf, Written, MarkerOwned, MarkedRows, SweptFirst, ResidueRows
<1>7. SweptFirst'
  BY DEF TypeOK, Exclusive, Progress, ProgressOf, Written, Done, SweptFirst, MarkerOwned, Touching
<1>8. CompleteRows'
  BY DEF TypeOK, Progress, ProgressOf, Written, CompleteRows, Done, Needed, Touching, RowsOf
<1>9. ResidueRows'
  BY DEF TypeOK, Exclusive, Progress, ProgressOf, Written, MarkerOwned, MarkedRows, SweptFirst, ResidueRows
<1> QED
  BY <1>1, <1>2, <1>3, <1>4, <1>5, <1>6, <1>7, <1>8, <1>9

LEMMA InsertChildRowInv ==
  ASSUME IInv, NEW w \in Owners, NEW r \in todo[w], InsertChildRow(w, r)
  PROVE  IInv'
<1> USE NamesAssumption, RowsAssumption
    DEF InsertChildRow, Goto, IInv, Tables, Sids, data, local
<1>1. PICK i \in 1..Rows[obj[w]][table[w]] : r = <<table[w], sid[w], i>>
  BY DEF Progress, ProgressOf, RowsOf
<1>2. /\ table[w] \in ChildTables /\ table[w] \in Done(w)
      /\ i \in Nat
      /\ sid[w] \in Sids /\ sid[w] < counter /\ sid[w] \notin DOMAIN parents
  BY DEF Progress, ProgressOf, Written, TypeOK, Done, Needed
<1>3. dirty[table[w]] = w
  BY <1>2 DEF Progress, ProgressOf, Written, MarkerOwned
<1>4. TypeOK'
  BY <1>1, <1>2, <1>3 DEF TypeOK
<1>5. Exclusive'
  BY DEF TypeOK, Exclusive
<1>6. Progress'
  BY <1>1, <1>2 DEF TypeOK, Progress, ProgressOf, Done, Needed, Touching, RowsOf
<1>7. Written'
  BY <1>1, <1>2, <1>3 DEF TypeOK, Exclusive, Progress, ProgressOf, Written, Done, Needed, Touching, RowsOf
<1>8. MarkerOwned'
  BY DEF TypeOK, Exclusive, Progress, ProgressOf, Written, Done, MarkerOwned, Touching
<1>9. MarkedRows'
  BY <1>1, <1>2, <1>3 DEF TypeOK, Exclusive, Progress, ProgressOf, Written, MarkerOwned, MarkedRows, SweptFirst, ResidueRows
<1>10. SweptFirst'
  BY DEF TypeOK, Exclusive, Progress, ProgressOf, Written, Done, SweptFirst, MarkerOwned, Touching
<1>11. CompleteRows'
  BY <1>1, <1>2, <1>3 DEF TypeOK, Progress, ProgressOf, Written, CompleteRows, Done, Needed, Touching, RowsOf
<1>12. ResidueRows'
  BY <1>1, <1>2, <1>3 DEF TypeOK, Exclusive, Progress, ProgressOf, Written, MarkerOwned, MarkedRows, SweptFirst, ResidueRows
<1> QED
  BY <1>4, <1>5, <1>6, <1>7, <1>8, <1>9, <1>10, <1>11, <1>12

LEMMA InsertParentInv ==
  ASSUME IInv, NEW w \in Owners, InsertParent(w)
  PROVE  IInv'
<1> USE NamesAssumption, RowsAssumption
    DEF InsertParent, Goto, IInv, Tables, Sids, data, local
<1>1. TypeOK'
  <2>1. sid[w] \in Sids /\ sid[w] < counter
    BY DEF TypeOK, Progress, ProgressOf, Written
  <2>2. DOMAIN parents' = DOMAIN parents \cup {sid[w]}
    OBVIOUS
  <2>3. parents' \in [DOMAIN parents' -> Objects]
    BY <2>2 DEF TypeOK
  <2> QED
    BY <2>1, <2>2, <2>3 DEF TypeOK
<1>2. Exclusive'
  BY DEF TypeOK, Exclusive
<1>3. Progress'
  <2>1. /\ step'[w] = "clean"
        /\ \A v \in Owners \ {w} : step'[v] = step[v] /\ Done(v)' = Done(v)
    BY DEF TypeOK, Done
  <2> QED
    BY <2>1 DEF Progress, ProgressOf, Touching
<1>4. Written'
  BY DEF TypeOK, Exclusive, Progress, ProgressOf, Written, Done, Needed, Touching, RowsOf
<1>5. MarkerOwned'
  BY DEF TypeOK, Exclusive, Progress, ProgressOf, Written, Done, MarkerOwned, Touching
<1>6. MarkedRows'
  BY DEF TypeOK, Exclusive, Progress, ProgressOf, Written, MarkerOwned, MarkedRows, SweptFirst, ResidueRows
<1>7. SweptFirst'
  BY DEF TypeOK, Exclusive, Progress, ProgressOf, Written, Done, SweptFirst, MarkerOwned, Touching
<1>8. CompleteRows'
  <2>1. sid[w] # 0 /\ sid[w] \notin DOMAIN parents /\ todo[w] = {} /\ left[w] = {}
    BY DEF Progress, ProgressOf, Written
  <2>2. Done(w) = Needed(obj[w])
    BY <2>1 DEF Done, Touching
  <2>3. \A c \in ChildTables, i \in Nat : i \in 1..Rows[obj[w]][c] => c \in Needed(obj[w])
    BY DEF TypeOK, Needed
  <2>4. \A c \in ChildTables, i \in Nat :
          <<c, sid[w], i>> \in rows <=> i \in 1..Rows[obj[w]][c]
    BY <2>1, <2>2, <2>3 DEF Written
  <2> QED
    BY <2>1, <2>4 DEF CompleteRows, TypeOK
<1>9. ResidueRows'
  BY DEF TypeOK, Exclusive, Progress, ProgressOf, Written, MarkerOwned, MarkedRows, SweptFirst, ResidueRows
<1> QED
  BY <1>1, <1>2, <1>3, <1>4, <1>5, <1>6, <1>7, <1>8, <1>9

LEMMA RemoveMarkerInv ==
  ASSUME IInv, NEW w \in Owners, NEW t \in Tables, RemoveMarker(w, t)
  PROVE  IInv'
<1> USE NamesAssumption, RowsAssumption
    DEF RemoveMarker, Goto, IInv, Tables, Sids, data, local
<1>1. TypeOK'
  BY DEF TypeOK
<1>2. Exclusive'
  BY DEF TypeOK, Exclusive
<1>3. Progress'
  BY DEF TypeOK, Progress, ProgressOf, Done, Needed, Touching, RowsOf
<1>4. Written'
  BY DEF TypeOK, Exclusive, Progress, ProgressOf, Written, Done, Needed, Touching, RowsOf
<1>5. MarkerOwned'
  BY DEF TypeOK, Exclusive, Progress, ProgressOf, Written, Done, MarkerOwned, Touching
<1>6. MarkedRows'
  BY DEF TypeOK, Exclusive, Progress, ProgressOf, Written, MarkerOwned, MarkedRows, SweptFirst, ResidueRows
<1>7. SweptFirst'
  BY DEF TypeOK, Exclusive, Progress, ProgressOf, Written, Done, SweptFirst, MarkerOwned, Touching
<1>8. CompleteRows'
  BY DEF TypeOK, Progress, ProgressOf, Written, CompleteRows, Done, Needed, Touching, RowsOf
<1>9. ResidueRows'
  BY DEF TypeOK, Exclusive, Progress, ProgressOf, Written, MarkerOwned, MarkedRows, SweptFirst, ResidueRows
<1> QED
  BY <1>1, <1>2, <1>3, <1>4, <1>5, <1>6, <1>7, <1>8, <1>9

LEMMA EndInv ==
  ASSUME IInv, NEW w \in Owners, End(w)
  PROVE  IInv'
<1> USE NamesAssumption, RowsAssumption
    DEF End, Reset, Goto, IInv, Tables, Sids, data, local
<1>1. TypeOK'
  BY DEF TypeOK
<1>2. Exclusive'
  BY DEF TypeOK, Exclusive
<1>3. Progress'
  BY DEF TypeOK, Progress, ProgressOf, Done, Needed, Touching, RowsOf
<1>4. Written'
  BY DEF TypeOK, Exclusive, Progress, ProgressOf, Written, Done, Needed, Touching, RowsOf
<1>5. MarkerOwned'
  BY DEF TypeOK, Exclusive, Progress, ProgressOf, Written, Done, MarkerOwned, Touching
<1>6. MarkedRows'
  BY DEF TypeOK, Exclusive, Progress, ProgressOf, Written, MarkerOwned, MarkedRows, SweptFirst, ResidueRows
<1>7. SweptFirst'
  BY DEF TypeOK, Exclusive, Progress, ProgressOf, Written, Done, SweptFirst, MarkerOwned, Touching
<1>8. CompleteRows'
  BY DEF TypeOK, Progress, ProgressOf, Written, CompleteRows, Done, Needed, Touching, RowsOf
<1>9. ResidueRows'
  BY DEF TypeOK, Exclusive, Progress, ProgressOf, Written, MarkerOwned, MarkedRows, SweptFirst, ResidueRows
<1> QED
  BY <1>1, <1>2, <1>3, <1>4, <1>5, <1>6, <1>7, <1>8, <1>9

LEMMA RaiseInv ==
  ASSUME IInv, NEW w \in Owners, Raise(w)
  PROVE  IInv'
<1> USE NamesAssumption, RowsAssumption
    DEF Raise, Goto, IInv, Tables, Sids, data, local
<1>1. TypeOK'
  BY DEF TypeOK
<1>2. Exclusive'
  BY DEF TypeOK, Exclusive
<1>3. Progress'
  <2>1. ASSUME NEW v \in Owners, v # w
        PROVE  ProgressOf(v)'
    BY <2>1 DEF TypeOK, Progress, ProgressOf, Done
  <2>2. ProgressOf(w)'
    BY DEF TypeOK, Progress, ProgressOf, Done, Touching
  <2> QED
    BY <2>1, <2>2 DEF Progress
<1>4. Written'
  BY DEF TypeOK, Exclusive, Progress, ProgressOf, Written, Done, Needed, Touching, RowsOf
<1>5. MarkerOwned'
  BY DEF TypeOK, Exclusive, Progress, ProgressOf, Written, Done, MarkerOwned, Touching
<1>6. MarkedRows'
  BY DEF TypeOK, Exclusive, Progress, ProgressOf, Written, MarkerOwned, MarkedRows, SweptFirst, ResidueRows
<1>7. SweptFirst'
  BY DEF TypeOK, Exclusive, Progress, ProgressOf, Written, Done, SweptFirst, MarkerOwned, Touching
<1>8. CompleteRows'
  BY DEF TypeOK, Progress, ProgressOf, Written, CompleteRows, Done, Needed, Touching, RowsOf
<1>9. ResidueRows'
  BY DEF TypeOK, Exclusive, Progress, ProgressOf, Written, MarkerOwned, MarkedRows, SweptFirst, ResidueRows
<1> QED
  BY <1>1, <1>2, <1>3, <1>4, <1>5, <1>6, <1>7, <1>8, <1>9

LEMMA CrashInv ==
  ASSUME IInv, NEW w \in Owners, Crash(w)
  PROVE  IInv'
<1> USE NamesAssumption, RowsAssumption
    DEF Crash, Reset, Goto, IInv, Tables, Sids, data, local
<1>1. TypeOK'
  BY DEF TypeOK
<1>2. Exclusive'
  BY DEF TypeOK, Exclusive
<1>3. Progress'
  BY DEF TypeOK, Progress, ProgressOf, Done, Needed, Touching, RowsOf
<1>4. Written'
  BY DEF TypeOK, Exclusive, Progress, ProgressOf, Written, Done, Needed, Touching, RowsOf
<1>5. MarkerOwned'
  BY DEF TypeOK, Exclusive, Progress, ProgressOf, Written, Done, MarkerOwned, Touching
<1>6. MarkedRows'
  BY DEF TypeOK, Exclusive, Progress, ProgressOf, Written, MarkerOwned, MarkedRows, SweptFirst, ResidueRows
<1>7. SweptFirst'
  BY DEF TypeOK, Exclusive, Progress, ProgressOf, Written, Done, SweptFirst, MarkerOwned, Touching
<1>8. CompleteRows'
  BY DEF TypeOK, Progress, ProgressOf, Written, CompleteRows, Done, Needed, Touching, RowsOf
<1>9. ResidueRows'
  BY DEF TypeOK, Exclusive, Progress, ProgressOf, Written, MarkerOwned, MarkedRows, SweptFirst, ResidueRows
<1> QED
  BY <1>1, <1>2, <1>3, <1>4, <1>5, <1>6, <1>7, <1>8, <1>9

LEMMA DisposeInv ==
  ASSUME IInv, NEW w \in Owners, Dispose(w)
  PROVE  IInv'
<1> USE NamesAssumption, RowsAssumption
    DEF Dispose, Goto, IInv, Tables, Sids, data, local
<1>1. TypeOK'
  BY DEF TypeOK
<1>2. Exclusive'
  BY DEF TypeOK, Exclusive
<1>3. Progress'
  BY DEF TypeOK, Progress, ProgressOf, Done, Needed, Touching, RowsOf
<1>4. Written'
  BY DEF TypeOK, Exclusive, Progress, ProgressOf, Written, Done, Needed, Touching, RowsOf
<1>5. MarkerOwned'
  BY DEF TypeOK, Exclusive, Progress, ProgressOf, Written, Done, MarkerOwned, Touching
<1>6. MarkedRows'
  BY DEF TypeOK, Exclusive, Progress, ProgressOf, Written, MarkerOwned, MarkedRows, SweptFirst, ResidueRows
<1>7. SweptFirst'
  BY DEF TypeOK, Exclusive, Progress, ProgressOf, Written, Done, SweptFirst, MarkerOwned, Touching
<1>8. CompleteRows'
  BY DEF TypeOK, Progress, ProgressOf, Written, CompleteRows, Done, Needed, Touching, RowsOf
<1>9. ResidueRows'
  BY DEF TypeOK, Exclusive, Progress, ProgressOf, Written, MarkerOwned, MarkedRows, SweptFirst, ResidueRows
<1> QED
  BY <1>1, <1>2, <1>3, <1>4, <1>5, <1>6, <1>7, <1>8, <1>9

LEMMA StealInv ==
  ASSUME IInv, NEW w \in Owners, ~StealLive, Steal(w)
  PROVE  IInv'
<1> USE NamesAssumption, RowsAssumption
    DEF Steal, Goto, IInv, Tables, Sids, data, local
<1>1. TypeOK'
  BY DEF TypeOK
<1>2. Exclusive'
  BY DEF TypeOK, Exclusive
<1>3. Progress'
  BY DEF TypeOK, Progress, ProgressOf, Done, Needed, Touching, RowsOf
<1>4. Written'
  BY DEF TypeOK, Exclusive, Progress, ProgressOf, Written, Done, Needed, Touching, RowsOf
<1>5. MarkerOwned'
  BY DEF TypeOK, Exclusive, Progress, ProgressOf, Written, Done, MarkerOwned, Touching
<1>6. MarkedRows'
  BY DEF TypeOK, Exclusive, Progress, ProgressOf, Written, MarkerOwned, MarkedRows, SweptFirst, ResidueRows
<1>7. SweptFirst'
  BY DEF TypeOK, Exclusive, Progress, ProgressOf, Written, Done, SweptFirst, MarkerOwned, Touching
<1>8. CompleteRows'
  BY DEF TypeOK, Progress, ProgressOf, Written, CompleteRows, Done, Needed, Touching, RowsOf
<1>9. ResidueRows'
  BY DEF TypeOK, Exclusive, Progress, ProgressOf, Written, MarkerOwned, MarkedRows, SweptFirst, ResidueRows
<1> QED
  BY <1>1, <1>2, <1>3, <1>4, <1>5, <1>6, <1>7, <1>8, <1>9

-----------------------------------------------------------------------------
(* The specification *)

LEMMA InitInv == Init => IInv
BY NamesAssumption, RowsAssumption
   DEF Init, IInv, TypeOK, Tables, Exclusive, Progress, ProgressOf, Written, MarkerOwned, MarkedRows,
       SweptFirst, CompleteRows, ResidueRows, Touching

LEMMA NextInv ==
  ASSUME ~StealLive, IInv, [Next]_vars
  PROVE  IInv'
<1>1. ASSUME NEW w \in Owners, SaveStep(w) \/ Crash(w) \/ Dispose(w) \/ Steal(w)
      PROVE  IInv'
  BY <1>1, BeginInv, FindInv, TouchInv, SweepInv, UnmarkInv, MarkInv, AllocInv, InitCounterInv,
     NextChildTableInv, InsertChildRowInv, InsertParentInv, RemoveMarkerInv, EndInv, RaiseInv,
     CrashInv, DisposeInv, StealInv
     DEF SaveStep
<1>2. CASE UNCHANGED vars
  BY <1>2 DEF vars, data, local, IInv, TypeOK, Exclusive, Progress, ProgressOf, Written, MarkerOwned,
     MarkedRows, SweptFirst, CompleteRows, ResidueRows, Done
<1>3. QED
  BY <1>1, <1>2 DEF Next

LEMMA Inductive == ASSUME ~StealLive PROVE Spec => []IInv
BY InitInv, NextInv, PTL DEF Spec

\* The variables keep their types, and no row has a sid the counter has yet to hand out.
THEOREM TypeCorrect == ASSUME ~StealLive PROVE Spec => []TypeOK
<1>1. IInv => TypeOK
  BY DEF IInv
<1> QED
  BY <1>1, Inductive, PTL

\* A visible parent row has all of its child rows, whatever dies, raises or is
\* swept in between (_save_active and _targeted_dirty_sweep of the degraded store).
THEOREM ParentCompleteHolds == ASSUME ~StealLive PROVE Spec => []ParentComplete
<1>1. ASSUME IInv
      PROVE  ParentComplete
  <2> SUFFICES ASSUME NEW d \in DOMAIN parents
               PROVE  {r \in rows : r[2] = d} = UNION {RowsOf(parents[d], c, d) : c \in ChildTables}
    BY DEF ParentComplete
  <2>1. /\ rows \subseteq ChildTables \X Sids \X Nat
        /\ parents[d] \in Objects
    BY <1>1 DEF IInv, TypeOK
  <2>2. ASSUME NEW r \in rows, r[2] = d
        PROVE  \E c \in ChildTables : r \in RowsOf(parents[d], c, d)
    <3>1. PICK c \in ChildTables, i \in Nat : r = <<c, d, i>>
      BY <2>1, <2>2
    <3> QED
      BY <1>1, <3>1 DEF IInv, CompleteRows, RowsOf
  <2>3. ASSUME NEW c \in ChildTables, NEW r \in RowsOf(parents[d], c, d)
        PROVE  r \in rows /\ r[2] = d
    <3>1. PICK i \in 1..Rows[parents[d]][c] : r = <<c, d, i>>
      BY DEF RowsOf
    <3>2. i \in Nat
      BY <2>1, RowsAssumption
    <3> QED
      BY <1>1, <3>1, <3>2 DEF IInv, CompleteRows
  <2> QED
    BY <2>2, <2>3
<1> QED
  BY <1>1, Inductive, PTL

\* A child row of a dead writer lies in a table that carries a marker, so that the
\* next writer of the table deletes it (_after_degraded_write, _touch_dirty_table).
THEOREM ResidueMarkedHolds == ASSUME ~StealLive PROVE Spec => []ResidueMarked
<1>1. ASSUME IInv
      PROVE  ResidueMarked
  <2> SUFFICES ASSUME NEW r \in rows, r[2] \notin DOMAIN parents
               PROVE  dirty[r[1]] # Clean \/ r[2] \in raised
    BY DEF ResidueMarked, Ownerless
  <2>1. PICK c \in ChildTables, d \in Sids, i \in Nat : r = <<c, d, i>>
    BY <1>1 DEF IInv, TypeOK
  <2> QED
    BY <1>1, <2>1 DEF IInv, ResidueRows
<1> QED
  BY <1>1, Inductive, PTL

----------------------------------------------------------------------------
(***************************************************************************)
(* Proofs about SqlFsck: for every set of rows, any references and child   *)
(* tables, any damage, any arguments and any number of runs and crashes,   *)
(* in both profiles.                                                       *)
(*                                                                         *)
(* The two properties need what the mark means while it is computed: the   *)
(* marked set is the least one that holds the roots and is closed under    *)
(* references, and it stays so while rows disappear, since only unmarked   *)
(* rows do.  What is owed to the user stays within it because the least    *)
(* closed set of the first state cannot shrink.                            *)
(***************************************************************************)

----------------------------------------------------------------------------
(* The inductive invariant                                                 *)

\* What a row leads to, and the roots, for any contents f, r, k and d.
TargetsOf(f, r, k, i) ==
  IF i \notin DOMAIN r THEN {} ELSE ({f[i]} \cup {x.element : x \in {x \in k : x.owner = i}}) \ {NoRow}
MainOf(r) == {i \in DOMAIN r : r[i] = 1}
RootsOf(r, d) == MainOf(r) \cup UNION {x.to : x \in d}

\* The kept rows g.rows are the least set that holds main and the kept dispatch rows.
KeptTargets(g, f, i) == ({f[i]} \cup {x.element : x \in {x \in g.kids : x.owner = i}}) \ {NoRow}
NeededRows(g, f, main) ==
  \A S \in SUBSET Ids :
    (/\ main \subseteq S /\ \A d \in g.dispatch : d.to \subseteq S
     /\ \A i \in S \cap g.rows : KeptTargets(g, f, i) \subseteq S)
    => g.rows \subseteq S

\* The contents r, k and d hold all that is kept, and what kept rows own is kept.
Typed(r, k, d) ==
  /\ DOMAIN r \in SUBSET Ids /\ r \in [DOMAIN r -> {0, 1, 2}]
  /\ k \in SUBSET [owner : Ids, element : Ids \cup {NoRow}]
  /\ d \in SUBSET [content : Range(Content), to : SUBSET Ids]
Intact(g, f, r, k, d) ==
  /\ Typed(r, k, d)
  /\ g.rows \subseteq DOMAIN r /\ g.kids \subseteq k /\ g.dispatch \subseteq d
  /\ \A x \in k : x.owner \in g.rows => x \in g.kids
  /\ NeededRows(g, f, MainOf(r))

\* m is the least set that holds the roots and is closed, but for q.
Least(f, r, k, d, m, q) ==
  /\ RootsOf(r, d) \subseteq m
  /\ \A i \in m \ q : TargetsOf(f, r, k, i) \subseteq m
  /\ \A S \in SUBSET Ids :
       RootsOf(r, d) \subseteq S /\ (\A i \in S \cap m : TargetsOf(f, r, k, i) \subseteq S) => m \subseteq S

KeptClosed(g) ==
  /\ \A x \in g.kids : x.owner \in g.rows
  /\ \A d \in g.dispatch :
       Cardinality(d.to) = 1 /\ \A i \in d.to : i \in g.rows /\ Content[i] = d.content

Rollback ==
  pc # "idle" /\ ~degraded => Intact(kept, ref, saved[1], saved[2], saved[3]) /\ saved[4] \in SUBSET Ids

Marking ==
  pc \in {"queue", "sweep", "children", "end", "done"} =>
    Least(ref, roles, kids, dispatch, marked, queue) /\ (pc # "queue" => queue = {})

\* What each part of fsck has achieved holds until the end.
Achieved ==
  /\ pc \notin {"idle", "timestamps"} => (flags.clamp => late = {})
  /\ pc \notin {"idle", "timestamps", "conflicts"} => (flags.conflicts => Invalid = {})
  /\ pc \notin {"idle", "timestamps", "conflicts", "dispatch"} => (flags.repair => Undispatched = {})
  /\ pc \notin {"idle", "timestamps", "conflicts", "dispatch", "roles"} => (flags.repair => BadRoles = {})
  /\ pc \in {"children", "end", "done"} => (flags.collect => Unmarked = {})
  /\ pc \in {"end", "done"} => (flags.collect => OwnerlessChildren = {})
  /\ pc = "done" => (flags.clamp => ~ahead)

FsckIInv ==
  FsckTypeOK /\ Intact(kept, ref, roles, kids, dispatch) /\ KeptClosed(kept) /\ Rollback /\ Marking /\ Achieved

----------------------------------------------------------------------------
(* The mark                                                                *)

LEMMA TargetsIs == \A i : Targets(i) = TargetsOf(ref, roles, kids, i)
  BY DEF Targets, TargetsOf, Present

LEMMA RootsIs == Roots(dispatch) = RootsOf(roles, dispatch)
  BY DEF Roots, RootsOf, MainOf, Present

\* Row i leads to j.
Leads(f, r, k, i, j) ==
  i \in DOMAIN r /\ j # NoRow /\ (j = f[i] \/ \E x \in k : x.owner = i /\ x.element = j)

LEMMA TargetsMembers ==
  \A f, r, k, i, j : j \in TargetsOf(f, r, k, i) <=> Leads(f, r, k, i, j)
  BY DEF TargetsOf, Leads

LEMMA TargetsTyped ==
  ASSUME NEW f \in [Ids -> Ids \cup {NoRow}], NEW r, NEW k, NEW d, Typed(r, k, d), NEW i
  PROVE  TargetsOf(f, r, k, i) \subseteq Ids
  BY DEF TargetsOf, Typed

\* One round of the queue.
LEMMA LeastRound ==
  ASSUME NEW f, NEW r, NEW k, NEW d, NEW m, NEW q \in SUBSET m, Least(f, r, k, d, m, q),
         NEW found, \A j : j \in found <=> j \notin m /\ \E i \in q : j \in TargetsOf(f, r, k, i)
  PROVE  Least(f, r, k, d, m \cup found, found)
<1>1. RootsOf(r, d) \subseteq m \cup found
  BY DEF Least
<1>2. ASSUME NEW i \in (m \cup found) \ found
      PROVE  TargetsOf(f, r, k, i) \subseteq m \cup found
  <2>1. CASE i \in q
    <3> SUFFICES ASSUME NEW j \in TargetsOf(f, r, k, i), j \notin m PROVE j \in found
      OBVIOUS
    <3> QED
      BY <2>1
  <2>2. CASE i \notin q
    BY <2>2, <1>2 DEF Least
  <2> QED
    BY <2>1, <2>2
<1>3. ASSUME NEW S \in SUBSET Ids, RootsOf(r, d) \subseteq S,
             \A i \in S \cap (m \cup found) : TargetsOf(f, r, k, i) \subseteq S
      PROVE  m \cup found \subseteq S
  <2>1. m \subseteq S
    BY <1>3 DEF Least
  <2>2. \A i \in q : TargetsOf(f, r, k, i) \subseteq S
    BY <2>1, <1>3
  <2> QED
    BY <2>1, <2>2
<1> QED
  BY <1>1, <1>2, <1>3 DEF Least

\* Contents in which the marked rows lead to the same rows and that have the same roots.
LEMMA LeastSame ==
  ASSUME NEW f, NEW r, NEW k, NEW d, NEW m, NEW q, Least(f, r, k, d, m, q),
         NEW r2, NEW k2, RootsOf(r2, d) = RootsOf(r, d),
         \A i \in m : TargetsOf(f, r2, k2, i) = TargetsOf(f, r, k, i)
  PROVE  Least(f, r2, k2, d, m, q)
  BY DEF Least

\* When the queue is empty, all that is kept is marked.
LEMMA KeptMarked ==
  ASSUME NEW g, NEW f, NEW r, NEW k, NEW d, Intact(g, f, r, k, d),
         NEW m \in SUBSET Ids, Least(f, r, k, d, m, {})
  PROVE  g.rows \subseteq m
<1>1. MainOf(r) \subseteq m /\ \A x \in g.dispatch : x.to \subseteq m
  BY DEF Least, RootsOf, Intact
<1>2. ASSUME NEW i \in m \cap g.rows
      PROVE  KeptTargets(g, f, i) \subseteq m
  <2>1. i \in DOMAIN r /\ g.kids \subseteq k
    BY DEF Intact
  <2>2. TargetsOf(f, r, k, i) \subseteq m
    BY DEF Least
  <2>3. KeptTargets(g, f, i) \subseteq TargetsOf(f, r, k, i)
    BY <2>1 DEF KeptTargets, TargetsOf
  <2> QED
    BY <2>2, <2>3
<1> QED
  BY <1>1, <1>2 DEF Intact, NeededRows

----------------------------------------------------------------------------
(* What keeps the contents intact                                          *)

\* Rows that are not kept and no main records may go.
LEMMA IntactRows ==
  ASSUME NEW g, NEW f, NEW r, NEW k, NEW d, Intact(g, f, r, k, d),
         NEW gone, gone \cap g.rows = {}, \A i \in gone \cap DOMAIN r : r[i] = 0,
         NEW r2, r2 = [i \in DOMAIN r \ gone |-> r[i]]
  PROVE  Intact(g, f, r2, k, d) /\ MainOf(r2) = MainOf(r)
<1>1. DOMAIN r2 = DOMAIN r \ gone /\ \A i \in DOMAIN r2 : r2[i] = r[i]
  OBVIOUS
<1>2. MainOf(r2) = MainOf(r)
  BY <1>1 DEF MainOf
<1>3. Typed(r2, k, d)
  BY <1>1 DEF Intact, Typed
<1> QED
  BY <1>1, <1>2, <1>3 DEF Intact

\* Roles other than that of a main record may change.
LEMMA IntactRoles ==
  ASSUME NEW g, NEW f, NEW r, NEW k, NEW d, Intact(g, f, r, k, d),
         NEW r2 \in [DOMAIN r -> {0, 1, 2}], MainOf(r2) = MainOf(r)
  PROVE  Intact(g, f, r2, k, d)
  BY DEF Intact, Typed

LEMMA IntactKids ==
  ASSUME NEW g, NEW f, NEW r, NEW k, NEW d, Intact(g, f, r, k, d),
         NEW k2 \in SUBSET k, g.kids \subseteq k2
  PROVE  Intact(g, f, r, k2, d)
  BY DEF Intact, Typed

LEMMA IntactDispatch ==
  ASSUME NEW g, NEW f, NEW r, NEW k, NEW d, Intact(g, f, r, k, d),
         NEW d2, g.dispatch \subseteq d2, d2 \subseteq [content : Range(Content), to : SUBSET Ids]
  PROVE  Intact(g, f, r, k, d2)
  BY DEF Intact, Typed

----------------------------------------------------------------------------
(* The first state                                                         *)

LEMMA InitKept ==
  ASSUME FsckInit
  PROVE  Intact(kept, ref, roles, kids, dispatch) /\ KeptClosed(kept)
<1> DEFINE valid == {d \in dispatch : Valid(d)}
           R == Roots(valid)
<1>0. Typed(roles, kids, dispatch)
  BY DEF FsckInit, Typed
<1>1. /\ kept.rows = Required(R) /\ kept.dispatch = valid
      /\ kept.kids = {x \in kids : x.owner \in Required(R)}
  BY DEF FsckInit
<1>2. R \subseteq Present
  BY <1>0 DEF Roots, Valid, Present
<1>3. R \subseteq Required(R)
  BY <1>2 DEF Required
<1>4. ASSUME NEW S \in SUBSET Ids, MainOf(roles) \subseteq S, \A d \in kept.dispatch : d.to \subseteq S,
             \A i \in S \cap kept.rows : KeptTargets(kept, ref, i) \subseteq S
      PROVE  kept.rows \subseteq S
  <2> DEFINE T == (S \cap kept.rows) \cup (Ids \ Present)
  <2>1. R \subseteq T
    BY <1>1, <1>2, <1>3, <1>4 DEF Roots, MainOf, Present
  <2>2. ASSUME NEW i \in T \cap Present, NEW j, Leads(ref, roles, kids, i, j)
        PROVE  j \in T
    <3>1. i \in S \cap kept.rows
      BY <2>2
    <3>2. j \in Ids
      BY <2>2, <1>0, <3>1 DEF Leads, Typed, FsckInit
    <3>3. j \in KeptTargets(kept, ref, i)
      BY <3>1, <2>2, <1>1 DEF KeptTargets, Leads
    <3>4. j \in S
      BY <3>1, <3>3, <1>4
    <3>5. ASSUME j \in Present
          PROVE  j \in Required(R)
      <4>1. ASSUME NEW U \in SUBSET Ids, R \subseteq U, Closed(U)
            PROVE  j \in U
        <5>1. i \in U
          BY <4>1, <3>1, <1>1 DEF Required
        <5> QED
          BY <5>1, <4>1, <2>2 DEF Closed, Leads
      <4> QED
        BY <4>1, <3>5 DEF Required
    <3> QED
      BY <3>2, <3>4, <3>5, <1>1
  <2>3. Closed(T)
    <3> SUFFICES ASSUME NEW i \in T \cap Present,
                        NEW j \in {ref[i]} \cup {x.element : x \in {x \in kids : x.owner = i}}
                 PROVE  j \in T \cup {NoRow}
      BY DEF Closed
    <3> QED
      BY <2>2 DEF Leads, Present
  <2>4. T \in SUBSET Ids
    OBVIOUS
  <2>5. Required(R) \subseteq T
    BY <2>1, <2>3, <2>4 DEF Required
  <2>6. Required(R) \subseteq Present
    BY DEF Required
  <2> QED
    BY <2>5, <2>6, <1>1
<1>5. NeededRows(kept, ref, MainOf(roles))
  BY <1>4 DEF NeededRows
<1>6. Intact(kept, ref, roles, kids, dispatch)
  BY <1>0, <1>1, <1>5 DEF Intact, Required, Present
<1>7. KeptClosed(kept)
  <2>1. \A d \in valid : d.to \subseteq R
    BY DEF Roots
  <2> QED
    BY <1>1, <1>3, <2>1 DEF KeptClosed, Valid
<1> QED
  BY <1>6, <1>7

LEMMA Initially == FsckInit => FsckIInv
<1> SUFFICES ASSUME FsckInit PROVE FsckIInv
  OBVIOUS
<1>1. Intact(kept, ref, roles, kids, dispatch) /\ KeptClosed(kept)
  BY InitKept
<1>2. FsckTypeOK
  BY FsckAssumption DEF FsckInit, FsckTypeOK, Present
<1>3. Rollback /\ Marking /\ Achieved
  BY DEF FsckInit, Rollback, Marking, Achieved
<1> QED
  BY <1>1, <1>2, <1>3 DEF FsckIInv

----------------------------------------------------------------------------
(* The steps of fsck                                                       *)

LEMMA SameRows ==
  ASSUME UNCHANGED roles
  PROVE  /\ UNCHANGED BadRoles
         /\ UNCHANGED dispatch => UNCHANGED <<Invalid, Undispatched>>
         /\ UNCHANGED kids => UNCHANGED OwnerlessChildren
         /\ UNCHANGED marked => UNCHANGED Unmarked
  BY DEF BadRoles, Invalid, Valid, Undispatched, OwnerlessChildren, Unmarked, Present

LEMMA StartStep == ASSUME FsckIInv, Start PROVE FsckIInv'
<1> USE DEF FsckIInv
<1>0. UNCHANGED <<roles, ref, kids, dispatch, late, ahead, degraded, kept>>
  BY DEF Start, contents
<1>1. FsckTypeOK'
  BY <1>0, FsckAssumption DEF Start, FsckTypeOK
<1>2. Intact(kept, ref, roles, kids, dispatch)' /\ KeptClosed(kept)'
  BY <1>0
<1>3. Rollback'
  <2> SUFFICES ASSUME ~degraded
               PROVE  Intact(kept', ref', saved'[1], saved'[2], saved'[3]) /\ saved'[4] \in SUBSET Ids
    BY <1>0 DEF Rollback
  <2>1. saved' = <<roles, kids, dispatch, late>>
    BY DEF Start, contents
  <2>2. saved'[1] = roles /\ saved'[2] = kids /\ saved'[3] = dispatch /\ saved'[4] = late
    BY <2>1
  <2>3. Intact(kept', ref', saved'[1], saved'[2], saved'[3])
    BY <2>2, <1>0
  <2> QED
    BY <2>2, <2>3 DEF FsckTypeOK
<1>4. Marking' /\ Achieved'
  BY DEF Start, Marking, Achieved
<1> QED
  BY <1>1, <1>2, <1>3, <1>4

\* What steps that leave kept, ref, saved and the profile alone keep.
LEMMA RollbackKept ==
  ASSUME Rollback, UNCHANGED <<ref, degraded, saved, kept>>, pc # "idle"
  PROVE  Rollback'
<1> SUFFICES ASSUME ~degraded
             PROVE  Intact(kept', ref', saved'[1], saved'[2], saved'[3]) /\ saved'[4] \in SUBSET Ids
  BY DEF Rollback
<1>1. Intact(kept, ref, saved[1], saved[2], saved[3]) /\ saved[4] \in SUBSET Ids
  BY DEF Rollback
<1>2. kept' = kept /\ ref' = ref /\ saved' = saved
  OBVIOUS
<1> QED
  BY <1>1, <1>2

LEMMA ClampStep == ASSUME FsckIInv, ClampTimestamps PROVE FsckIInv'
<1> USE DEF FsckIInv
<1>0. UNCHANGED <<roles, ref, kids, dispatch, degraded, kept, saved, flags>> /\ pc = "timestamps" /\ pc' = "conflicts"
  BY DEF ClampTimestamps, Go
<1>1. FsckTypeOK'
  BY <1>0 DEF ClampTimestamps, Go, FsckTypeOK
<1>2. Intact(kept, ref, roles, kids, dispatch)' /\ KeptClosed(kept)'
  BY <1>0
<1>3. Rollback'
  BY <1>0, RollbackKept
<1>4. Marking' /\ Achieved'
  BY <1>0 DEF ClampTimestamps, Marking, Achieved
<1> QED
  BY <1>1, <1>2, <1>3, <1>4

LEMMA DeleteInvalidStep == ASSUME FsckIInv, DeleteInvalidDispatch PROVE FsckIInv'
<1> USE DEF FsckIInv
<1>0. /\ UNCHANGED <<roles, ref, kids, late, degraded, kept, saved, flags>>
      /\ pc = "conflicts" /\ pc' \in {"conflicts", "dispatch"}
  BY DEF DeleteInvalidDispatch
<1>1. kept.dispatch \subseteq dispatch' /\ dispatch' \subseteq dispatch
  <2>1. ASSUME NEW d \in Invalid, d \in kept.dispatch
        PROVE  FALSE
    BY <2>1 DEF Invalid, Valid, KeptClosed, Intact, Present
  <2> QED
    BY <2>1 DEF DeleteInvalidDispatch, Intact
<1>2. FsckTypeOK'
  BY <1>0, <1>1 DEF DeleteInvalidDispatch, FsckTypeOK
<1>3. Intact(kept', ref', roles', kids', dispatch') /\ KeptClosed(kept)'
  <2>1. dispatch' \subseteq [content : Range(Content), to : SUBSET Ids]
    BY <1>2 DEF FsckTypeOK
  <2>2. Intact(kept, ref, roles, kids, dispatch')
    BY <1>1, <2>1, IntactDispatch
  <2> QED
    BY <1>0, <2>2
<1>4. Rollback'
  BY <1>0, RollbackKept
<1>5. Marking'
  BY <1>0 DEF Marking
<1>6. Achieved'
  <2>1. pc' = "dispatch" => (flags.conflicts => Invalid = {}) /\ UNCHANGED dispatch
    BY <1>0 DEF DeleteInvalidDispatch
  <2>2. pc' = "dispatch" => (flags.conflicts => Invalid' = {})
    BY <2>1, <1>0, SameRows
  <2> QED
    BY <1>0, <2>2 DEF Achieved
<1> QED
  BY <1>2, <1>3, <1>4, <1>5, <1>6

LEMMA AddDispatchStep == ASSUME FsckIInv, AddDispatch PROVE FsckIInv'
<1> USE DEF FsckIInv
<1>0. /\ UNCHANGED <<roles, ref, kids, late, degraded, kept, saved, flags>>
      /\ pc = "dispatch" /\ pc' \in {"dispatch", "roles"}
  BY DEF AddDispatch
<1>1. \/ dispatch' = dispatch /\ (flags.repair => Undispatched = {})
      \/ /\ pc' = "dispatch"
         /\ \E i \in Undispatched : dispatch' = dispatch \cup {[content |-> Content[i], to |-> {i}]}
  BY <1>0 DEF AddDispatch
<1>2. dispatch \subseteq dispatch' /\ dispatch' \subseteq [content : Range(Content), to : SUBSET Ids]
  BY <1>1, FsckAssumption DEF FsckTypeOK, Undispatched, Present, Range
<1>3. FsckTypeOK'
  BY <1>0, <1>2 DEF AddDispatch, FsckTypeOK
<1>4. Intact(kept', ref', roles', kids', dispatch') /\ KeptClosed(kept)'
  <2>1. Intact(kept, ref, roles, kids, dispatch')
    BY <1>2, IntactDispatch DEF Intact
  <2> QED
    BY <1>0, <2>1
<1>5. Rollback'
  BY <1>0, RollbackKept
<1>6. Marking'
  BY <1>0 DEF Marking
<1>7. Achieved'
  <2>1. flags.conflicts => Invalid' = {}
    <3>1. flags.conflicts => Invalid = {}
      BY <1>0 DEF Achieved
    <3>2. CASE dispatch' = dispatch
      BY <3>1, <3>2, <1>0, SameRows
    <3>3. ASSUME NEW i \in Undispatched, dispatch' = dispatch \cup {[content |-> Content[i], to |-> {i}]}
          PROVE  flags.conflicts => Invalid' = {}
      <4>1. i \in Present /\ Cardinality({i}) = 1
        BY FS_Singleton DEF Undispatched
      <4>2. ASSUME NEW d \in Invalid'
            PROVE  d \in Invalid
        <5>1. d \in dispatch' /\ ~Valid(d)'
          BY <4>2 DEF Invalid
        <5>2. d # [content |-> Content[i], to |-> {i}]
          BY <4>1, <5>1, <1>0 DEF Valid, Present
        <5>3. d \in dispatch /\ ~Valid(d)
          BY <5>1, <5>2, <3>3, <1>0 DEF Valid, Present
        <5> QED
          BY <5>3 DEF Invalid
      <4> QED
        BY <3>1, <4>2
    <3> QED
      BY <1>1, <3>2, <3>3
  <2>2. pc' = "roles" => (flags.repair => Undispatched' = {})
    BY <1>0, <1>1, SameRows
  <2> QED
    BY <1>0, <2>1, <2>2 DEF Achieved
<1> QED
  BY <1>3, <1>4, <1>5, <1>6, <1>7

LEMMA NormalizeStep == ASSUME FsckIInv, NormalizeRole PROVE FsckIInv'
<1> USE DEF FsckIInv
<1>0. /\ UNCHANGED <<ref, kids, dispatch, late, degraded, kept, saved, flags>>
      /\ pc = "roles" /\ pc' \in {"roles", "mark"}
  BY DEF NormalizeRole
<1>1. \/ roles' = roles /\ (flags.repair => BadRoles = {})
      \/ pc' = "roles" /\ \E i \in BadRoles : roles' = [roles EXCEPT ![i] = 0]
  BY <1>0 DEF NormalizeRole
<1>2. /\ Intact(kept, ref, roles', kids, dispatch)
      /\ MainOf(roles') = MainOf(roles) /\ DOMAIN roles' = DOMAIN roles
  <2>1. CASE roles' = roles
    BY <2>1
  <2>2. ASSUME NEW i \in BadRoles, roles' = [roles EXCEPT ![i] = 0]
        PROVE  /\ Intact(kept, ref, roles', kids, dispatch)
               /\ MainOf(roles') = MainOf(roles) /\ DOMAIN roles' = DOMAIN roles
    <3>1. i \in DOMAIN roles /\ roles[i] # 1
      BY DEF BadRoles, Present
    <3>2. roles' \in [DOMAIN roles -> {0, 1, 2}] /\ \A j \in DOMAIN roles : j # i => roles'[j] = roles[j]
      BY <2>2, <3>1 DEF FsckTypeOK
    <3>3. DOMAIN roles' = DOMAIN roles /\ MainOf(roles') = MainOf(roles)
      BY <2>2, <3>1, <3>2 DEF MainOf
    <3> QED
      BY <3>2, <3>3, IntactRoles
  <2> QED
    BY <1>1, <2>1, <2>2
<1>3. FsckTypeOK'
  <2>1. Typed(roles', kids, dispatch)
    BY <1>2 DEF Intact
  <2> QED
    BY <1>0, <2>1 DEF NormalizeRole, FsckTypeOK, Typed
<1>4. Intact(kept', ref', roles', kids', dispatch') /\ KeptClosed(kept)'
  BY <1>0, <1>2
<1>5. Rollback'
  BY <1>0, RollbackKept
<1>6. Marking'
  BY <1>0 DEF Marking
<1>7. Achieved'
  <2>1. Invalid' = Invalid /\ Undispatched' = Undispatched
    <3>1. \A i \in Present : roles[i] = 1 <=> roles'[i] = 1
      BY <1>2 DEF MainOf, Present
    <3> QED
      BY <1>0, <1>2, <3>1 DEF Invalid, Valid, Undispatched, Present
  <2>2. pc' = "mark" => (flags.repair => BadRoles' = {})
    BY <1>0, <1>1, SameRows
  <2> QED
    BY <1>0, <2>1, <2>2 DEF Achieved
<1> QED
  BY <1>3, <1>4, <1>5, <1>6, <1>7

LEMMA MarkRootsStep == ASSUME FsckIInv, MarkRoots PROVE FsckIInv'
<1> USE DEF FsckIInv
<1>0. /\ UNCHANGED <<roles, ref, kids, dispatch, late, ahead, degraded, kept, saved, flags>>
      /\ pc = "mark" /\ pc' = "queue" /\ marked' = RootsOf(roles, dispatch) /\ queue' = marked'
  BY RootsIs DEF MarkRoots, contents
<1>1. marked' \subseteq Ids
  BY <1>0 DEF RootsOf, MainOf, Intact, Typed
<1>2. FsckTypeOK'
  BY <1>0, <1>1 DEF MarkRoots, FsckTypeOK
<1>3. Intact(kept', ref', roles', kids', dispatch') /\ KeptClosed(kept)'
  BY <1>0
<1>4. Rollback'
  BY <1>0, RollbackKept
<1>5. Marking'
  <2>1. Least(ref, roles, kids, dispatch, marked', queue')
    BY <1>0 DEF Least
  <2> QED
    BY <2>1, <1>0 DEF Marking
<1>6. Achieved'
  BY <1>0, SameRows DEF Achieved
<1> QED
  BY <1>2, <1>3, <1>4, <1>5, <1>6

LEMMA MarkTargetsStep == ASSUME FsckIInv, MarkTargets PROVE FsckIInv'
<1> USE DEF FsckIInv
<1> DEFINE found == (UNION {Targets(i) : i \in queue}) \ marked
<1>0. /\ UNCHANGED <<roles, ref, kids, dispatch, late, ahead, degraded, kept, saved, flags>>
      /\ pc = "queue" /\ pc' \in {"queue", "sweep", "end"}
  BY DEF MarkTargets, contents
<1>1. \/ pc' = "queue" /\ marked' = marked \cup found /\ queue' = found
      \/ pc' # "queue" /\ queue = {} /\ UNCHANGED <<marked, queue>> /\ (flags.collect <=> pc' = "sweep")
  BY <1>0 DEF MarkTargets, FsckTypeOK
<1>2. \A j : j \in found <=> j \notin marked /\ \E i \in queue : j \in TargetsOf(ref, roles, kids, i)
  <2>1. \A j : j \in found <=> j \notin marked /\ \E i \in queue : j \in Targets(i)
    OBVIOUS
  <2> QED
    BY <2>1, TargetsIs
<1>3. found \subseteq Ids
  <2>1. \A i : TargetsOf(ref, roles, kids, i) \subseteq Ids
    BY TargetsTyped DEF Intact, FsckTypeOK
  <2> HIDE DEF found
  <2> QED
    BY <1>2, <2>1
<1> HIDE DEF found
<1>4. FsckTypeOK'
  BY <1>0, <1>1, <1>3 DEF MarkTargets, FsckTypeOK
<1>5. Intact(kept', ref', roles', kids', dispatch') /\ KeptClosed(kept)'
  BY <1>0
<1>6. Rollback'
  BY <1>0, RollbackKept
<1>7. Marking'
  <2>1. Least(ref, roles, kids, dispatch, marked, queue) /\ queue \subseteq marked
    BY <1>0 DEF Marking, FsckTypeOK
  <2>2. Least(ref, roles, kids, dispatch, marked \cup found, found)
    BY <2>1, <1>2, LeastRound
  <2>3. Least(ref, roles, kids, dispatch, marked', queue')
    BY <1>1, <2>1, <2>2
  <2>4. Least(ref', roles', kids', dispatch', marked', queue')
    BY <1>0, <2>3
  <2> QED
    BY <2>4, <1>1 DEF Marking
<1>8. Achieved'
  BY <1>0, <1>1, SameRows DEF Achieved
<1> QED
  BY <1>4, <1>5, <1>6, <1>7, <1>8

\* Rows that were not marked go, and with them nothing that is kept or marked.
LEMMA SweepTableStep == ASSUME FsckIInv, SweepTable PROVE FsckIInv'
<1> USE DEF FsckIInv
<1>0. /\ UNCHANGED <<ref, kids, dispatch, late, degraded, kept, saved, flags, marked, queue>>
      /\ pc = "sweep" /\ pc' \in {"sweep", "children"}
      /\ Least(ref, roles, kids, dispatch, marked, {}) /\ queue = {}
  BY DEF SweepTable, Marking
<1>1. PICK gone \in SUBSET Unmarked :
        roles' = [i \in DOMAIN roles \ gone |-> roles[i]] /\ (pc' = "children" => Unmarked = {})
  <2>1. CASE Unmarked = {}
    <3>1. roles' = roles
      BY <2>1 DEF SweepTable
    <3>2. roles = [i \in DOMAIN roles \ {} |-> roles[i]]
      BY DEF FsckTypeOK
    <3> QED
      BY <2>1, <3>1, <3>2
  <2>2. CASE Unmarked # {}
    <3>1. PICK t : roles' = [i \in {i \in Present : Table[i] # t \/ i \notin Unmarked} |-> roles[i]]
      BY <2>2 DEF SweepTable
    <3>2. pc' = "sweep"
      BY <2>2, <1>0 DEF SweepTable
    <3> DEFINE gone == {i \in Unmarked : Table[i] = t}
    <3>3. {i \in Present : Table[i] # t \/ i \notin Unmarked} = DOMAIN roles \ gone
      BY DEF Present
    <3> QED
      BY <3>1, <3>2, <3>3
  <2> QED
    BY <2>1, <2>2
<1>2. kept.rows \subseteq marked
  BY <1>0, KeptMarked DEF FsckTypeOK
<1>3. gone \cap marked = {} /\ gone \cap kept.rows = {} /\ \A i \in gone \cap DOMAIN roles : roles[i] = 0
  BY <1>2 DEF Unmarked
<1>4. Intact(kept, ref, roles', kids, dispatch) /\ MainOf(roles') = MainOf(roles)
  <2> HIDE DEF FsckIInv
  <2>1. Intact(kept, ref, roles, kids, dispatch)
    BY DEF FsckIInv
  <2> QED
    BY <1>1, <1>3, <2>1, IntactRows
<1>5. DOMAIN roles' = DOMAIN roles \ gone /\ \A i \in DOMAIN roles' : roles'[i] = roles[i]
  BY <1>1
<1>6. FsckTypeOK'
  <2>1. Typed(roles', kids, dispatch)
    BY <1>4 DEF Intact
  <2> QED
    BY <1>0, <2>1 DEF SweepTable, FsckTypeOK, Typed
<1>7. Rollback'
  BY <1>0, RollbackKept
<1>8. Marking'
  <2>1. RootsOf(roles', dispatch) = RootsOf(roles, dispatch)
    BY <1>4 DEF RootsOf
  <2>2. \A i \in marked : TargetsOf(ref, roles', kids, i) = TargetsOf(ref, roles, kids, i)
    BY <1>3, <1>5 DEF TargetsOf
  <2>3. Least(ref, roles', kids, dispatch, marked, {})
    BY <1>0, <2>1, <2>2, LeastSame
  <2>4. Least(ref', roles', kids', dispatch', marked', queue')
    BY <1>0, <2>3
  <2> QED
    BY <1>0, <2>4 DEF Marking
<1>9. Achieved'
  <2>1. flags.conflicts => Invalid' = {}
    <3>1. flags.conflicts => Invalid = {}
      BY <1>0 DEF Achieved
    <3>2. \A d \in dispatch : d.to \subseteq marked
      BY <1>0 DEF Least, RootsOf
    <3>3. \A d \in dispatch : Valid(d) => Valid(d)'
      BY <3>2, <1>0, <1>3, <1>5 DEF Valid, Present
    <3> QED
      BY <3>1, <3>3, <1>0 DEF Invalid
  <2>2. flags.repair => Undispatched' = {} /\ BadRoles' = {}
    BY <1>0, <1>5 DEF Achieved, Undispatched, BadRoles, Present
  <2>3. pc' = "children" => Unmarked' = {}
    BY <1>0, <1>1, <1>5 DEF Unmarked, Present
  <2> QED
    BY <1>0, <2>1, <2>2, <2>3 DEF Achieved
<1> QED
  BY <1>0, <1>4, <1>6, <1>7, <1>8, <1>9

LEMMA SweepChildrenStep == ASSUME FsckIInv, SweepChildren PROVE FsckIInv'
<1> USE DEF FsckIInv
<1>0. /\ UNCHANGED <<roles, ref, dispatch, late, degraded, kept, saved, flags, marked, queue>>
      /\ pc = "children" /\ pc' \in {"children", "end"}
      /\ Least(ref, roles, kids, dispatch, marked, {}) /\ queue = {}
  BY DEF SweepChildren, Marking
<1>1. /\ kids' \subseteq kids /\ \A x \in kids \ kids' : x.owner \notin DOMAIN roles
      /\ pc' = "end" => OwnerlessChildren = {} /\ kids' = kids
  BY <1>0 DEF SweepChildren, OwnerlessChildren, Present
<1>2. FsckTypeOK'
  BY <1>0, <1>1 DEF SweepChildren, FsckTypeOK
<1>3. Intact(kept', ref', roles', kids', dispatch') /\ KeptClosed(kept)'
  <2>1. kept.kids \subseteq kids'
    BY <1>1 DEF Intact, KeptClosed
  <2>2. Intact(kept, ref, roles, kids', dispatch)
    BY <1>1, <2>1, IntactKids
  <2> QED
    BY <1>0, <2>2
<1>4. Rollback'
  BY <1>0, RollbackKept
<1>5. Marking'
  <2>1. \A i : TargetsOf(ref, roles, kids', i) = TargetsOf(ref, roles, kids, i)
    BY <1>1 DEF TargetsOf
  <2>2. Least(ref, roles, kids', dispatch, marked, {})
    BY <1>0, <2>1, LeastSame
  <2>3. Least(ref', roles', kids', dispatch', marked', queue')
    BY <1>0, <2>2
  <2> QED
    BY <1>0, <2>3 DEF Marking
<1>6. Achieved'
  BY <1>0, <1>1, SameRows DEF Achieved
<1> QED
  BY <1>2, <1>3, <1>4, <1>5, <1>6

LEMMA EndStep == ASSUME FsckIInv, EndFsck PROVE FsckIInv'
<1> USE DEF FsckIInv
<1>0. /\ UNCHANGED <<roles, ref, kids, dispatch, late, degraded, kept, saved, flags, marked, queue>>
      /\ pc = "end" /\ pc' = "done"
  BY DEF EndFsck, contents
<1>1. FsckTypeOK'
  BY <1>0 DEF EndFsck, FsckTypeOK
<1>2. Intact(kept', ref', roles', kids', dispatch') /\ KeptClosed(kept)'
  BY <1>0
<1>3. Rollback'
  BY <1>0, RollbackKept
<1>4. Marking'
  <2>1. Least(ref', roles', kids', dispatch', marked', queue') /\ queue' = {}
    BY <1>0 DEF Marking
  <2> QED
    BY <2>1 DEF Marking
<1>5. Achieved'
  BY <1>0, SameRows DEF EndFsck, Achieved
<1> QED
  BY <1>1, <1>2, <1>3, <1>4, <1>5

LEMMA AgainStep == ASSUME FsckIInv, Again PROVE FsckIInv'
<1> USE DEF FsckIInv
<1>0. UNCHANGED <<roles, ref, kids, dispatch, kept>> /\ pc' = "idle"
  BY DEF Again, Go, contents
<1>1. FsckTypeOK'
  BY <1>0 DEF Again, Go, contents, FsckTypeOK
<1>2. Intact(kept', ref', roles', kids', dispatch') /\ KeptClosed(kept)'
  BY <1>0
<1>3. Rollback' /\ Marking' /\ Achieved'
  BY <1>0 DEF Rollback, Marking, Achieved
<1> QED
  BY <1>1, <1>2, <1>3

LEMMA CrashStep == ASSUME FsckIInv, CrashFsck PROVE FsckIInv'
<1> USE DEF FsckIInv
<1>0. UNCHANGED <<ref, degraded, kept>> /\ pc # "idle" /\ pc' = "idle" /\ ahead' = (late' # {})
  BY DEF CrashFsck, Go
<1>1. Intact(kept, ref, roles', kids', dispatch') /\ late' \in SUBSET Ids
  <2>1. CASE degraded
    <3>1. UNCHANGED <<roles, kids, dispatch, late>>
      BY <2>1 DEF CrashFsck, contents
    <3> QED
      BY <3>1 DEF FsckTypeOK
  <2>2. CASE ~degraded
    <3>1. roles' = saved[1] /\ kids' = saved[2] /\ dispatch' = saved[3] /\ late' = saved[4]
      BY <2>2 DEF CrashFsck
    <3>2. Intact(kept, ref, saved[1], saved[2], saved[3]) /\ saved[4] \in SUBSET Ids
      BY <2>2, <1>0 DEF Rollback
    <3> QED
      BY <3>1, <3>2
  <2> QED
    BY <2>1, <2>2
<1>2. FsckTypeOK'
  <2>1. Typed(roles', kids', dispatch')
    BY <1>1 DEF Intact
  <2> QED
    BY <1>0, <1>1, <2>1 DEF CrashFsck, Go, FsckTypeOK, Typed
<1>3. Intact(kept', ref', roles', kids', dispatch') /\ KeptClosed(kept)'
  BY <1>0, <1>1
<1>4. Rollback' /\ Marking' /\ Achieved'
  BY <1>0 DEF Rollback, Marking, Achieved
<1> QED
  BY <1>2, <1>3, <1>4

LEMMA FsckInductive == FsckSpec => []FsckIInv
<1>1. FsckIInv /\ [FsckNext]_fsckVars => FsckIInv'
  <2> SUFFICES ASSUME FsckIInv, [FsckNext]_fsckVars PROVE FsckIInv'
    OBVIOUS
  <2>1. CASE UNCHANGED fsckVars
    <3>1. UNCHANGED <<roles, ref, kids, dispatch, late, ahead, pc, flags, marked, queue, degraded, saved, kept, runs>>
      BY <2>1 DEF fsckVars
    <3>2. FsckTypeOK'
      BY <3>1 DEF FsckIInv, FsckTypeOK
    <3>3. Rollback' /\ Marking' /\ Intact(kept', ref', roles', kids', dispatch') /\ KeptClosed(kept)'
      BY <3>1 DEF FsckIInv, Rollback, Marking
    <3>4. Achieved'
      BY <3>1, SameRows DEF FsckIInv, Achieved
    <3> QED
      BY <3>2, <3>3, <3>4 DEF FsckIInv
  <2> QED
    BY <2>1, StartStep, ClampStep, DeleteInvalidStep, AddDispatchStep, NormalizeStep, MarkRootsStep,
       MarkTargetsStep, SweepTableStep, SweepChildrenStep, EndStep, AgainStep, CrashStep DEF FsckNext
<1> QED
  BY <1>1, Initially, PTL DEF FsckSpec

----------------------------------------------------------------------------
(* What fsck promises                                                      *)

\* The state is typed.
THEOREM FsckTypeCorrect == FsckSpec => []FsckTypeOK
<1>1. FsckIInv => FsckTypeOK
  BY DEF FsckIInv
<1> QED
  BY <1>1, FsckInductive, PTL

\* No statement of any fsck run, and no run that was cut off and rolled back or left as it
\* was, deletes a row that a main record or a valid dispatch row of the first state leads to,
\* a child row of such a row, or a valid dispatch row.
THEOREM RootsSurviveHolds == FsckSpec => []RootsSurvive
<1>1. FsckIInv => RootsSurvive
  BY DEF FsckIInv, Intact, RootsSurvive, Present
<1> QED
  BY <1>1, FsckInductive, PTL

\* A run that completes has reached the fixpoint of what it was asked for: only what the
\* roots lead to is left of the dependencies, whatever the damage and the runs before it.
THEOREM OnePassFixpointHolds == FsckSpec => []OnePassFixpoint
<1>1. FsckIInv => OnePassFixpoint
  <2> SUFFICES ASSUME FsckIInv, pc = "done" PROVE OnePassFixpoint
    BY DEF OnePassFixpoint
  <2>1. ASSUME flags.collect, NEW i \in Present, roles[i] = 0
        PROVE  i \in Required(Roots(dispatch))
    <3>1. i \in marked
      BY <2>1 DEF FsckIInv, Achieved, Unmarked
    <3>2. Least(ref, roles, kids, dispatch, marked, queue)
      BY DEF FsckIInv, Marking
    <3>3. ASSUME NEW S \in SUBSET Ids, Roots(dispatch) \subseteq S, Closed(S)
          PROVE  i \in S
      <4>1. \A j \in S \cap marked : Targets(j) \subseteq S
        BY <3>3 DEF Closed, Targets
      <4> QED
        BY <3>1, <3>2, <3>3, <4>1, RootsIs, TargetsIs DEF Least
    <3> QED
      BY <3>3 DEF Required
  <2>2. flags.collect => \A k \in kids : k.owner \in Present
    BY DEF FsckIInv, Achieved, OwnerlessChildren
  <2> QED
    BY <2>1, <2>2 DEF OnePassFixpoint, FsckIInv, Achieved
<1> QED
  BY <1>1, FsckInductive, PTL
============================================================================
