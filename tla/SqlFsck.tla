------------------------------ MODULE SqlFsck ------------------------------
(***************************************************************************)
(* fsck of a SQL store (backend/sql/fsck.py): dispatch repair, roles and   *)
(* mark, the sweep of unmarked dependencies and of ownerless child rows,   *)
(* future timestamps.  Nobody else writes: SQLite holds BEGIN IMMEDIATE,   *)
(* the degraded profile its lease.  There each statement commits alone and *)
(* the process may die after any of them; otherwise all of them roll back. *)
(***************************************************************************)
EXTENDS Integers, FiniteSets, FiniteSetsExt, SequencesExt

CONSTANTS
  Ids,       \* the rows of the parent tables
  Table,     \* table of a row
  Content,   \* content id of a row
  Backings,  \* tables of the records of the one family that has a dispatch table
  NoRow,
  MaxRuns    \* bound: fsck runs

ASSUME FsckAssumption ==
  /\ DOMAIN Table = Ids /\ DOMAIN Content = Ids /\ IsFiniteSet(Ids) /\ NoRow \notin Ids
  /\ Backings \subseteq Range(Table) /\ MaxRuns \in Nat

VARIABLES
  roles,     \* [ids of the parent rows that exist -> _httk_role]
  ref,       \* their reference column
  kids,      \* child rows: [owner, element]
  dispatch,  \* dispatch rows: [content, to]; "to" are the backings it names
  late,      \* rows whose timestamp lies in the future
  ahead,     \* the store's mark is in the future
  pc,        \* "idle", or the part of fsck that is next
  flags,     \* the arguments of fsck
  marked,    \* the rows that _mark has marked
  queue,     \* those of them whose targets it has yet to look up
  degraded,  \* the write profile
  saved,     \* what a rollback restores
  kept,      \* history: the rows, child rows and dispatch rows that fsck owes the user
  runs

contents == <<roles, kids, dispatch, late>>
fsckVars == <<roles, ref, kids, dispatch, late, ahead, pc, flags, marked, queue, degraded, saved, kept, runs>>

Present == DOMAIN roles
Valid(d) == Cardinality(d.to) = 1 /\ \A i \in d.to : i \in Present /\ Content[i] = d.content
Invalid == {d \in dispatch : ~Valid(d)}

----------------------------------------------------------------------------
\* Faulty variant: the elements of child tables are not followed.
Referred(i) == IF i \notin Present THEN {} ELSE {ref[i]} \ {NoRow}

\* _mark: what a row that is there leads to.
Targets(i) ==
  IF i \notin Present THEN {}
  ELSE ({ref[i]} \cup {k.element : k \in {k \in kids : k.owner = i}}) \ {NoRow}

Roots(dispatches) == {i \in Present : roles[i] = 1} \cup UNION {d.to : d \in dispatches}

\* The reference definition of what rows depend on.
Closed(S) ==
  \A i \in S \cap Present :
    ({ref[i]} \cup {k.element : k \in {k \in kids : k.owner = i}}) \subseteq S \cup {NoRow}
Required(roots) == {i \in Present : \A S \in SUBSET Ids : roots \subseteq S /\ Closed(S) => i \in S}

\* A store with any damage; no fsck has run.
FsckInit ==
  /\ \E present \in SUBSET Ids : roles \in [present -> {0, 1, 2}]
  /\ ref \in [Ids -> Ids \cup {NoRow}]
  /\ kids \in SUBSET [owner : Ids, element : Ids \cup {NoRow}]
  /\ dispatch \in SUBSET [content : Range(Content), to : SUBSET Ids]
  /\ late \in SUBSET Present /\ ahead = (late # {}) /\ degraded \in BOOLEAN
  /\ pc = "idle" /\ flags = [repair |-> FALSE, collect |-> FALSE, conflicts |-> FALSE, clamp |-> FALSE]
  /\ marked = {} /\ queue = {} /\ saved = <<>> /\ runs = 0
  /\ LET valid == {d \in dispatch : Valid(d)}
     IN kept = [rows |-> Required(Roots(valid)),
                kids |-> {k \in kids : k.owner \in Required(Roots(valid))}, dispatch |-> valid]

Start ==
  /\ pc = "idle" /\ runs < MaxRuns
  /\ \E repair, collect, conflicts, clamp, foreign \in BOOLEAN :
       \* Tables that nobody can attribute refuse every change.
       /\ flags' = [repair |-> repair /\ ~foreign, collect |-> collect /\ ~foreign,
                    conflicts |-> conflicts /\ repair /\ ~foreign,
                    clamp |-> clamp /\ repair /\ ~foreign]
       /\ pc' = "timestamps" /\ marked' = {} /\ queue' = {}
       /\ saved' = IF degraded THEN <<>> ELSE contents
       /\ runs' = runs + 1
  /\ UNCHANGED <<contents, ref, ahead, degraded, kept>>

Go(to) == pc' = to /\ UNCHANGED <<flags, marked, queue, saved, runs>>

\* _check_future_timestamps
ClampTimestamps ==
  /\ pc = "timestamps" /\ Go("conflicts")
  /\ late' = IF flags.clamp THEN {} ELSE late
  /\ UNCHANGED <<roles, ref, kids, dispatch, ahead, degraded, kept>>

\* _repair_dispatches: rows whose backing is not the one record of their content.
DeleteInvalidDispatch ==
  /\ pc = "conflicts"
  /\ IF flags.conflicts /\ Invalid # {}
     THEN \E d \in Invalid : dispatch' = dispatch \ {d} /\ UNCHANGED pc
     ELSE pc' = "dispatch" /\ UNCHANGED dispatch
  /\ UNCHANGED <<roles, ref, kids, late, ahead, flags, marked, queue, degraded, saved, kept, runs>>

Undispatched ==
  {i \in Present : roles[i] = 1 /\ Table[i] \in Backings /\ \A d \in dispatch : d.content # Content[i]}

AddDispatch ==
  /\ pc = "dispatch"
  /\ IF flags.repair /\ Undispatched # {}
     THEN /\ \E i \in Undispatched : dispatch' = dispatch \cup {[content |-> Content[i], to |-> {i}]}
          /\ UNCHANGED pc
     ELSE pc' = "roles" /\ UNCHANGED dispatch
  /\ UNCHANGED <<roles, ref, kids, late, ahead, flags, marked, queue, degraded, saved, kept, runs>>

\* An invalid role is made that of a dependency, before the roots are read.
BadRoles == {i \in Present : roles[i] \notin {0, 1}}

NormalizeRole ==
  /\ pc = "roles"
  /\ IF flags.repair /\ BadRoles # {}
     THEN (\E i \in BadRoles : roles' = [roles EXCEPT ![i] = 0]) /\ UNCHANGED pc
     ELSE pc' = "mark" /\ UNCHANGED roles
  /\ UNCHANGED <<ref, kids, dispatch, late, ahead, flags, marked, queue, degraded, saved, kept, runs>>

\* The roots are marked first.
MarkRoots ==
  /\ pc = "mark" /\ pc' = "queue" /\ marked' = Roots(dispatch) /\ queue' = marked'
  /\ UNCHANGED <<contents, ref, ahead, flags, degraded, saved, kept, runs>>

\* Then what they lead to: one step takes all that stands in the queue.
MarkTargets ==
  /\ pc = "queue"
  /\ LET found == (UNION {Targets(i) : i \in queue}) \ marked
     IN IF queue # {}
        THEN marked' = marked \cup found /\ queue' = found /\ UNCHANGED pc
        ELSE pc' = (IF flags.collect THEN "sweep" ELSE "end") /\ UNCHANGED <<marked, queue>>
  /\ UNCHANGED <<contents, ref, ahead, flags, degraded, saved, kept, runs>>

Unmarked == {i \in Present : roles[i] = 0 /\ i \notin marked}

\* One table after the other, in whatever order.
SweepTable ==
  /\ pc = "sweep"
  /\ IF Unmarked # {}
     THEN /\ \E t \in {Table[i] : i \in Unmarked} :
               roles' = [i \in {i \in Present : Table[i] # t \/ i \notin Unmarked} |-> roles[i]]
          /\ UNCHANGED pc
     ELSE pc' = "children" /\ UNCHANGED roles
  /\ UNCHANGED <<ref, kids, dispatch, late, ahead, flags, marked, queue, degraded, saved, kept, runs>>

\* Faulty variant: only the child rows of rows that the mark reached are looked at.
OrphansOfMarked == {k \in kids : k.owner \in marked \ Present}

OwnerlessChildren == {k \in kids : k.owner \notin Present}

\* _sweep_ownerless_children, one child table after the other.
SweepChildren ==
  /\ pc = "children"
  /\ IF OwnerlessChildren # {}
     THEN /\ \E t \in {Table[k.owner] : k \in OwnerlessChildren} :
               kids' = kids \ {k \in OwnerlessChildren : Table[k.owner] = t}
          /\ UNCHANGED pc
     ELSE pc' = "end" /\ UNCHANGED kids
  /\ UNCHANGED <<roles, ref, dispatch, late, ahead, flags, marked, queue, degraded, saved, kept, runs>>

\* The commit; after a clamp the store reads its mark again.
EndFsck ==
  /\ pc = "end" /\ pc' = "done"
  /\ ahead' = IF flags.clamp THEN late # {} ELSE ahead
  /\ UNCHANGED <<contents, ref, flags, marked, queue, degraded, saved, kept, runs>>

Again == pc = "done" /\ Go("idle") /\ UNCHANGED <<contents, ref, ahead, degraded, kept>>

\* The process dies in the middle; the store is opened again, and reads its mark.
CrashFsck ==
  /\ pc \notin {"idle", "done"} /\ Go("idle")
  /\ IF degraded THEN UNCHANGED contents
     ELSE roles' = saved[1] /\ kids' = saved[2] /\ dispatch' = saved[3] /\ late' = saved[4]
  /\ ahead' = (late' # {})
  /\ UNCHANGED <<ref, degraded, kept>>

FsckNext ==
  \/ Start \/ ClampTimestamps \/ DeleteInvalidDispatch \/ AddDispatch \/ NormalizeRole
  \/ MarkRoots \/ MarkTargets \/ SweepTable \/ SweepChildren \/ EndFsck \/ Again \/ CrashFsck
FsckSpec == FsckInit /\ [][FsckNext]_fsckVars

----------------------------------------------------------------------------
(* The state is typed.                                                     *)
FsckTypeOK ==
  /\ \E present \in SUBSET Ids : roles \in [present -> {0, 1, 2}]
  /\ ref \in [Ids -> Ids \cup {NoRow}]
  /\ kids \in SUBSET [owner : Ids, element : Ids \cup {NoRow}]
  /\ dispatch \in SUBSET [content : Range(Content), to : SUBSET Ids]
  /\ late \in SUBSET Ids /\ ahead \in BOOLEAN /\ degraded \in BOOLEAN
  /\ pc \in {"idle", "timestamps", "conflicts", "dispatch", "roles", "mark", "queue",
             "sweep", "children", "end", "done"}
  /\ flags \in [repair : BOOLEAN, collect : BOOLEAN, conflicts : BOOLEAN, clamp : BOOLEAN]
  /\ marked \in SUBSET Ids /\ queue \in SUBSET marked /\ runs \in 0..MaxRuns

\* Nothing that a root or a valid dispatch row leads to is lost, with the child rows it
\* owns, by any run, or part of a run that was cut off.
RootsSurvive ==
  /\ kept.rows \subseteq Present /\ kept.kids \subseteq kids /\ kept.dispatch \subseteq dispatch

\* One completed run reaches the fixpoint of what it was asked for, whatever the
\* damage and the runs before it: a second one with these arguments finds nothing to do.
OnePassFixpoint ==
  pc = "done" =>
    /\ flags.collect => /\ \A i \in Present : roles[i] = 0 => i \in Required(Roots(dispatch))
                        /\ \A k \in kids : k.owner \in Present
    /\ flags.repair => Undispatched = {} /\ BadRoles = {}
    /\ flags.conflicts => Invalid = {}
    /\ flags.clamp => late = {} /\ ~ahead

=============================================================================
