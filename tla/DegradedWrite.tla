---------------------------- MODULE DegradedWrite ----------------------------
(***************************************************************************)
(* save() of a degraded SqlStore (httk/store/backend/sql/store.py): every  *)
(* statement commits on its own, so the order of the writes and the dirty  *)
(* markers take the place of a transaction.                                *)
(*                                                                         *)
(* A save verifies the writer lease, looks its content up, marks each      *)
(* table dirty before the first write to it, reserves a sid from the       *)
(* counter, writes the child rows, then the parent row, and removes its    *)
(* markers.  A marker left by a dead writer makes the next writer of the   *)
(* table delete the child rows that have no parent.                        *)
(*                                                                         *)
(* Modelled is one parent table with its child tables.  The value of a     *)
(* marker, unique to an operation, is modelled by the owner while that     *)
(* operation runs and by Residue afterwards.                               *)
(***************************************************************************)
EXTENDS Integers, FiniteSets

CONSTANTS
  Owners,      \* store processes
  Objects,     \* record contents
  ChildTables, \* the child tables of their class
  Rows,        \* Rows[o][c]: the number of rows of o in child table c
  Parent,      \* the parent table
  MaxSid,      \* bound: sids the counter hands out
  StealLive,   \* whether a lease may be stolen from a process that lives
  Nobody, Clean, Residue

Tables == ChildTables \cup {Parent}

ASSUME RowsAssumption == Rows \in [Objects -> [ChildTables -> Nat]]
ASSUME NamesAssumption ==
  /\ Parent \notin ChildTables
  /\ Nobody \notin Owners
  /\ {Clean, Residue} \cap Owners = {}
  /\ Clean # Residue
  /\ MaxSid \in Nat
  /\ StealLive \in BOOLEAN

VARIABLES
  parents, \* parents[d]: the content of the parent row with sid d
  rows,    \* child rows: <<child table, parent sid, position>>
  counter, \* next_sid of the counters table, 0 before its first use
  dirty,   \* dirty[t]: the marker of table t
  leased,  \* the owner named by the lease row
  step,    \* step[w]: the next statement of the operation of w
  obj,     \* obj[w]: the object it saves
  table,   \* table[w]: the table it is marking or writing
  sid,     \* sid[w]: the sid it has reserved
  todo,    \* todo[w]: child rows it has yet to write, of tables it has touched
  touched, \* touched[w]: tables it has marked
  left,    \* left[w]: child tables it has not touched yet
  raised   \* history: sids reserved by operations that ended in an exception

data == <<parents, rows, counter>>
local == <<obj, table, sid, todo, touched, left>>
vars == <<data, dirty, leased, step, local, raised>>

Sids == 1..MaxSid

\* The child rows of content o in table c, under parent sid d.
RowsOf(o, c, d) == {<<c, d, i>> : i \in 1..Rows[o][c]}
Needed(o) == {c \in ChildTables : Rows[o][c] > 0}

\* The types; a sid of a parent row or of a child row has left the counter.
TypeOK ==
  /\ DOMAIN parents \subseteq Sids
  /\ parents \in [DOMAIN parents -> Objects]
  /\ \A d \in DOMAIN parents : d < counter
  /\ rows \subseteq ChildTables \X Sids \X Nat
  /\ \A r \in rows : r[2] < counter
  /\ counter \in 0..MaxSid + 1
  /\ dirty \in [Tables -> Owners \cup {Clean, Residue}]
  /\ leased \in Owners \cup {Nobody}
  /\ step \in [Owners -> {"idle", "find", "touch", "sweep", "unmark", "mark", "alloc",
                          "init", "child", "parent", "clean"}]
  /\ obj \in [Owners -> Objects]
  /\ table \in [Owners -> Tables]
  /\ sid \in [Owners -> 0..MaxSid]
  /\ todo \in [Owners -> SUBSET (ChildTables \X Sids \X Nat)]
  /\ touched \in [Owners -> SUBSET Tables]
  /\ left \in [Owners -> SUBSET ChildTables]
  /\ raised \subseteq Sids

Init ==
  /\ parents = [d \in {} |-> 0]
  /\ rows = {}
  /\ counter = 0
  /\ dirty = [t \in Tables |-> Clean]
  /\ leased = Nobody
  /\ step = [w \in Owners |-> "idle"]
  /\ obj \in [Owners -> Objects]
  /\ table = [w \in Owners |-> Parent]
  /\ sid = [w \in Owners |-> 0]
  /\ todo = [w \in Owners |-> {}]
  /\ touched = [w \in Owners |-> {}]
  /\ left = [w \in Owners |-> {}]
  /\ raised = {}

-----------------------------------------------------------------------------
(* save() *)

Goto(w, next) == step' = [step EXCEPT ![w] = next]

\* The locals of a store that runs no operation.
Reset(w) ==
  /\ table' = [table EXCEPT ![w] = Parent]
  /\ sid' = [sid EXCEPT ![w] = 0]
  /\ todo' = [todo EXCEPT ![w] = {}]
  /\ touched' = [touched EXCEPT ![w] = {}]
  /\ left' = [left EXCEPT ![w] = {}]
  /\ UNCHANGED obj

\* _ensure_degraded_lease and _begin_degraded_operation.
Begin(w, o) ==
  /\ step[w] = "idle"
  /\ leased \in {w, Nobody}
  /\ leased' = w
  /\ obj' = [obj EXCEPT ![w] = o]
  /\ left' = [left EXCEPT ![w] = Needed(o)]
  /\ Goto(w, "find")
  /\ UNCHANGED <<data, dirty, table, sid, todo, touched, raised>>

\* The content lookup ends the save, or the parent table is touched.
Find(w) ==
  /\ step[w] = "find"
  /\ Goto(w, IF \E d \in DOMAIN parents : parents[d] = obj[w] THEN "clean" ELSE "touch")
  /\ UNCHANGED <<data, dirty, leased, local, raised>>

\* _touch_dirty_table reads the marker: one that is not of this operation is
\* swept for and removed before this operation's own is written.
Touch(w) ==
  /\ step[w] = "touch"
  /\ Goto(w, IF dirty[table[w]] \in {Clean, w} THEN "mark" ELSE "sweep")
  /\ UNCHANGED <<data, dirty, leased, local, raised>>

Ownerless == {r \in rows : r[2] \notin DOMAIN parents}

\* _targeted_dirty_sweep: a dirty parent table sweeps all its child tables, a
\* dirty child table itself.
Sweep(w) ==
  /\ step[w] = "sweep"
  /\ rows' = rows \ {r \in Ownerless : table[w] \in {Parent, r[1]}}
  /\ Goto(w, "unmark")
  /\ UNCHANGED <<parents, counter, dirty, leased, local, raised>>

Unmark(w) ==
  /\ step[w] = "unmark"
  /\ dirty' = [dirty EXCEPT ![table[w]] = Clean]
  /\ Goto(w, "mark")
  /\ UNCHANGED <<data, leased, local, raised>>

\* Faulty variant: child tables get no marker.
MarkParentOnly(w) ==
  /\ step[w] = "mark"
  /\ dirty' = IF table[w] = Parent THEN [dirty EXCEPT ![Parent] = w] ELSE dirty
  /\ touched' = [touched EXCEPT ![w] = @ \cup {table[w]}]
  /\ IF table[w] = Parent
     THEN Goto(w, "alloc") /\ UNCHANGED todo
     ELSE /\ Goto(w, "child")
          /\ todo' = [todo EXCEPT ![w] = RowsOf(obj[w], table[w], sid[w])]
  /\ UNCHANGED <<data, leased, obj, table, sid, left, raised>>

\* The upsert of the marker.  The parent table is followed by the sid, a
\* child table by its rows.
Mark(w) ==
  /\ step[w] = "mark"
  /\ dirty' = [dirty EXCEPT ![table[w]] = w]
  /\ touched' = [touched EXCEPT ![w] = @ \cup {table[w]}]
  /\ IF table[w] = Parent
     THEN Goto(w, "alloc") /\ UNCHANGED todo
     ELSE /\ Goto(w, "child")
          /\ todo' = [todo EXCEPT ![w] = RowsOf(obj[w], table[w], sid[w])]
  /\ UNCHANGED <<data, leased, obj, table, sid, left, raised>>

\* Faulty variant: the sid comes from the parent rows, not from a counter.
AllocFromParents(w) ==
  /\ step[w] = "alloc"
  /\ Cardinality(DOMAIN parents) < MaxSid
  /\ sid' = [sid EXCEPT ![w] = Cardinality(DOMAIN parents) + 1]
  /\ counter' = IF counter <= sid'[w] THEN sid'[w] + 1 ELSE counter
  /\ Goto(w, IF left[w] = {} THEN "parent" ELSE "child")
  /\ UNCHANGED <<parents, rows, dirty, leased, obj, table, todo, touched, left, raised>>

\* _allocate_degraded_sid: UPDATE ... RETURNING of the counter row; a missing
\* row is initialized from the largest sid, and the update tried again.
Alloc(w) ==
  /\ step[w] = "alloc"
  /\ counter <= MaxSid
  /\ IF counter = 0
     THEN Goto(w, "init") /\ UNCHANGED <<counter, sid>>
     ELSE /\ counter' = counter + 1
          /\ sid' = [sid EXCEPT ![w] = counter]
          /\ Goto(w, IF left[w] = {} THEN "parent" ELSE "child")
  /\ UNCHANGED <<parents, rows, dirty, leased, obj, table, todo, touched, left, raised>>

InitCounter(w) ==
  /\ step[w] = "init"
  /\ counter' = IF counter = 0
                THEN CHOOSE n \in 1..MaxSid + 1 :
                       /\ \A d \in DOMAIN parents : d < n
                       /\ n = 1 \/ n - 1 \in DOMAIN parents
                ELSE counter
  /\ Goto(w, "alloc")
  /\ UNCHANGED <<parents, rows, dirty, leased, local, raised>>

\* The child fields in turn: each touches its table before its first row.
NextChildTable(w, c) ==
  /\ step[w] = "child"
  /\ todo[w] = {}
  /\ c \in left[w]
  /\ table' = [table EXCEPT ![w] = c]
  /\ left' = [left EXCEPT ![w] = @ \ {c}]
  /\ Goto(w, "touch")
  /\ UNCHANGED <<data, dirty, leased, obj, sid, todo, touched, raised>>

\* The rows of an executemany commit one by one.
InsertChildRow(w, r) ==
  /\ step[w] = "child"
  /\ r \in todo[w]
  /\ rows' = rows \cup {r}
  /\ todo' = [todo EXCEPT ![w] = @ \ {r}]
  /\ Goto(w, IF todo[w] = {r} /\ left[w] = {} THEN "parent" ELSE "child")
  /\ UNCHANGED <<parents, counter, dirty, leased, obj, table, sid, touched, left, raised>>

\* The parent row is written last; its content is unique.
InsertParent(w) ==
  /\ step[w] = "parent"
  /\ \A d \in DOMAIN parents : parents[d] # obj[w]
  /\ parents' = [d \in DOMAIN parents \cup {sid[w]} |-> IF d = sid[w] THEN obj[w] ELSE parents[d]]
  /\ Goto(w, "clean")
  /\ UNCHANGED <<rows, counter, dirty, leased, local, raised>>

\* _end_degraded_operation, which also runs when the save raised: it deletes
\* the markers of this operation, one statement for each table.
RemoveMarker(w, t) ==
  /\ step[w] = "clean"
  /\ t \in touched[w]
  /\ dirty' = [dirty EXCEPT ![t] = IF @ = w THEN Clean ELSE @]
  /\ touched' = [touched EXCEPT ![w] = @ \ {t}]
  /\ UNCHANGED <<data, leased, step, obj, table, sid, todo, left, raised>>

End(w) ==
  /\ step[w] = "clean"
  /\ touched[w] = {}
  /\ Goto(w, "idle")
  /\ Reset(w)
  /\ UNCHANGED <<data, dirty, leased, raised>>

\* An error in the save: nothing it wrote is removed but its markers.
Raise(w) ==
  /\ step[w] \notin {"idle", "clean"}
  /\ raised' = raised \cup ({sid[w]} \ {0})
  /\ Goto(w, "clean")
  /\ UNCHANGED <<data, dirty, leased, local>>

-----------------------------------------------------------------------------
(* Death, disposal, and the lease *)

\* The process dies: lease and markers stay behind.
Crash(w) ==
  /\ step[w] # "idle"
  /\ dirty' = [t \in Tables |-> IF dirty[t] = w THEN Residue ELSE dirty[t]]
  /\ Goto(w, "idle")
  /\ Reset(w)
  /\ UNCHANGED <<data, leased, raised>>

\* Backend.dispose() waits for the operation and gives the lease back.
Dispose(w) ==
  /\ step[w] = "idle"
  /\ leased = w
  /\ leased' = Nobody
  /\ UNCHANGED <<data, dirty, step, local, raised>>

\* steal_lease(): with clear recovery authority only from an owner that is
\* not in the middle of an operation.
Steal(w) ==
  /\ step[w] = "idle"
  /\ leased \in Owners \ {w}
  /\ StealLive \/ step[leased] = "idle"
  /\ leased' = w
  /\ UNCHANGED <<data, dirty, step, local, raised>>

SaveStep(w) ==
  \/ \E o \in Objects : Begin(w, o)
  \/ Find(w) \/ Touch(w) \/ Sweep(w) \/ Unmark(w) \/ Mark(w)
  \/ Alloc(w) \/ InitCounter(w)
  \/ \E c \in ChildTables : NextChildTable(w, c)
  \/ \E r \in todo[w] : InsertChildRow(w, r)
  \/ InsertParent(w)
  \/ \E t \in Tables : RemoveMarker(w, t)
  \/ End(w) \/ Raise(w)

Next == \E w \in Owners : SaveStep(w) \/ Crash(w) \/ Dispose(w) \/ Steal(w)

Spec == Init /\ [][Next]_vars

-----------------------------------------------------------------------------
(* Properties *)

\* docs/details/db.md: "a visible parent means its subtree is complete".
ParentComplete ==
  \A d \in DOMAIN parents :
    {r \in rows : r[2] = d} = UNION {RowsOf(parents[d], c, d) : c \in ChildTables}

\* Child rows of a dead writer are announced by a marker on their table, so
\* that the next writer of that table sweeps them.  (The rows of a save that
\* raised wait for fsck: its markers are gone.)
ResidueMarked ==
  \A r \in Ownerless :
    \/ dirty[r[1]] # Clean
    \/ r[2] \in raised

=============================================================================
