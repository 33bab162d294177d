----------------------------- MODULE MCSqlSweep -----------------------------
(* What keeps a SQL store whole where no transaction does: the writes of   *)
(* the degraded profile, one content having rows in both child tables and  *)
(* the other in one of them; and fsck of damaged stores, whose rows e and  *)
(* f are of the two record tables of a family and have the same content,   *)
(* and whose rows d1 and d2 may refer to each other.  And the logical      *)
(* graphs of all schemas of three records.                                 *)
EXTENDS DegradedWrite, SqlFsck, LogicalGraph, TLC

CONSTANTS table1, table2, content1, content2

VARIABLES
  mode,  \* "write", "fsck" or "graph"
  edges  \* a logical graph
MCVars == <<mode, vars, fsckVars, edges>>

MCChildTables == {table1, table2}
MCObjects == {content1, content2}
MCRows == (content1 :> ((table1 :> 2) @@ (table2 :> 1))) @@ (content2 :> ((table1 :> 1) @@ (table2 :> 0)))

Symmetry == Permutations(Owners)

MCTable == [i \in Ids |-> IF i \in {"e", "f"} THEN i ELSE "d"]
MCContent == [i \in Ids |-> IF i \in {"e", "f"} THEN "c" ELSE i]
MCRef(back) == ("e" :> "d1") @@ ("f" :> "d2") @@ ("d1" :> NoRow) @@ ("d2" :> back)

ChildRows == {[owner |-> o, element |-> x] : o \in {"e", "d1"}, x \in {"d2", NoRow}}
DispatchRows == {[content |-> "c", to |-> t] : t \in SUBSET {"e", "f"}}

Damaged ==
  /\ \E present \in SUBSET Ids : roles \in [present -> {0, 1, 2}]
  /\ \A i \in DOMAIN roles : (roles[i] = 1 => i # "d1") /\ (roles[i] = 2 => i = "e")
  /\ \E back \in {NoRow, "d1"} : ref = MCRef(back)
  /\ kids \in {k \in SUBSET ChildRows : Cardinality(k) <= 1}
  /\ dispatch \in {{}} \cup {{d} : d \in DispatchRows}
  /\ late \in SUBSET (DOMAIN roles \cap {"e"}) /\ (late # {} => kids = {} /\ ref = MCRef(NoRow))
  /\ FsckInit

(* What is not there in this behaviour.                                    *)
NoWrite ==
  /\ Init /\ obj = [w \in Owners |-> content1]
NoFsck ==
  /\ roles = <<>> /\ ref = <<>> /\ kids = {} /\ dispatch = {} /\ late = {} /\ ahead = FALSE
  /\ pc = "idle" /\ flags = <<>> /\ marked = {} /\ queue = {} /\ runs = MaxRuns /\ saved = <<>> /\ degraded = FALSE
  /\ kept = [rows |-> {}, kids |-> {}, dispatch |-> {}]

GraphTypes == 1..3
Build ==
  /\ edges = {}
  /\ \E refs \in [GraphTypes -> SUBSET GraphTypes], own \in {{}, {2}} :
       edges' = FromSchemas({1}, refs, [c \in GraphTypes |-> IF c = 1 THEN own ELSE {}], {1, 2})

MCInit ==
  /\ edges = {}
  /\ \/ mode = "write" /\ Init /\ NoFsck
     \/ mode = "fsck" /\ Damaged /\ NoWrite
     \/ mode = "graph" /\ NoWrite /\ NoFsck

OnlyWrite == mode = "write" /\ UNCHANGED <<mode, fsckVars, edges>>
OnlyFsck == mode = "fsck" /\ UNCHANGED <<mode, vars, edges>>
OnlyGraph == mode = "graph" /\ UNCHANGED <<mode, vars, fsckVars>>

MCNext ==
  \/ OnlyWrite /\ (\E w \in Owners, o \in Objects : Begin(w, o))
  \/ OnlyWrite /\ (\E w \in Owners : Find(w))
  \/ OnlyWrite /\ (\E w \in Owners : Touch(w))
  \/ OnlyWrite /\ (\E w \in Owners : Sweep(w))
  \/ OnlyWrite /\ (\E w \in Owners : Unmark(w))
  \/ OnlyWrite /\ (\E w \in Owners : Mark(w))
  \/ OnlyWrite /\ (\E w \in Owners : Alloc(w))
  \/ OnlyWrite /\ (\E w \in Owners : InitCounter(w))
  \/ OnlyWrite /\ (\E w \in Owners, t \in ChildTables : NextChildTable(w, t))
  \/ OnlyWrite /\ (\E w \in Owners : \E r \in todo[w] : InsertChildRow(w, r))
  \/ OnlyWrite /\ (\E w \in Owners : InsertParent(w))
  \/ OnlyWrite /\ (\E w \in Owners, t \in Tables : RemoveMarker(w, t))
  \/ OnlyWrite /\ (\E w \in Owners : End(w))
  \/ OnlyWrite /\ (\E w \in Owners : Raise(w))
  \/ OnlyWrite /\ (\E w \in Owners : Crash(w))
  \/ OnlyWrite /\ (\E w \in Owners : Dispose(w))
  \/ OnlyWrite /\ (\E w \in Owners : Steal(w))
  \/ OnlyFsck /\ Start
  \/ OnlyFsck /\ ClampTimestamps
  \/ OnlyFsck /\ DeleteInvalidDispatch
  \/ OnlyFsck /\ AddDispatch
  \/ OnlyFsck /\ NormalizeRole
  \/ OnlyFsck /\ MarkRoots
  \/ OnlyFsck /\ MarkTargets
  \/ OnlyFsck /\ SweepTable
  \/ OnlyFsck /\ SweepChildren
  \/ OnlyFsck /\ EndFsck
  \/ OnlyFsck /\ Again
  \/ OnlyFsck /\ CrashFsck
  \/ OnlyGraph /\ Build
MCSpec == MCInit /\ [][MCNext]_MCVars

LoadOrderSound == OrderSound(edges) /\ WavesSound(edges)
=============================================================================
