----------------------------- MODULE BulkIngest -----------------------------
(***************************************************************************)
(* The serial bulk ingestion context on SQLite and DuckDB                  *)
(* (backend/sql/bulk.py, finalize="parity", workers=1): one transaction    *)
(* around everything, a marker that is committed before an empty store is  *)
(* touched, and DDL that need not roll back and is undone by hand.  What   *)
(* is written is BulkEncode.  Faults: an exception at any statement, a     *)
(* commit, clean-up or marker delete that fails, and a crash anywhere.     *)
(***************************************************************************)
EXTENDS BulkEncode

CONSTANTS
  EagerDdl,   \* DDL before the first DML of a transaction is durable at once (SQLite)
  Rebuild,    \* tables whose indexes an append drops (index_strategy)
  ChunkSize,
  MaxSaves,   \* bound: calls of save(), inside an ingest or not
  MaxIngests  \* bound: ingests

ASSUME BoundsAssumption ==
  /\ EagerDdl \in BOOLEAN /\ Rebuild \subseteq Types
  /\ ChunkSize \in Nat \ {0} /\ MaxSaves \in Nat /\ MaxIngests \in Nat

Catalog == [tables : SUBSET Types,  \* tables that exist
            stages : SUBSET Types,  \* bulkstage_ tables that exist
            bare : SUBSET Types]    \* tables without their separable indexes

VARIABLES
  store,   \* durable: db, and marker (the ingest_state row)
  cat,     \* catalogs, durable and as the open transaction sees it; began: DML was sent
  phase,   \* where the context is
  ing,     \* its memory
  entry,   \* _entry_catalog at __enter__, and physically_empty
  undo,    \* _created, _staging_tables, _dropped_indexes
  marking, \* _marker_active
  pending, \* the record being saved
  outcome, \* history: how the last ingest went
  serial,  \* history: the same calls as a loop of SqlStore.save, and the sids of both
  used     \* bound: calls so far

vars == <<store, cat, phase, ing, entry, undo, marking, pending, outcome, serial, used>>

NoIngest == Begun(EmptyDB, {})
Nothing == [created |-> <<>>, staging |-> {}, dropped |-> {}]

TypeOK ==
  /\ store \in [db : DB, marker : BOOLEAN]
  /\ cat \in [durable : Catalog, view : Catalog, began : BOOLEAN]
  /\ phase \in {"idle", "probed", "open", "committing", "committed", "cleaning",
                "cleaned", "down"}
  /\ ing \in Ingest
  /\ entry \in [cat : Catalog, empty : BOOLEAN]
  /\ undo \in [created : Seq(Types), staging : SUBSET Types, dropped : SUBSET Types]
  /\ marking \in BOOLEAN
  /\ pending \in Records \cup {NoRecord}
  /\ outcome \in {"none", "committed", "raised", "refused", "unclean", "crashed"}
  /\ serial \in [db : DB, ok : BOOLEAN, sids : SUBSET (Types \X Nat \X Nat)]
  /\ used \in [saves : 0..MaxSaves, ingests : 0..MaxIngests]
  /\ \A t \in Types : \A d, e \in AllRows(ing)[t] : d.sid = e.sid => d = e

Init ==
  LET none == [tables |-> {}, stages |-> {}, bare |-> {}] IN
  /\ store = [db |-> EmptyDB, marker |-> FALSE]
  /\ cat = [durable |-> none, view |-> none, began |-> FALSE]
  /\ phase = "idle"
  /\ ing = NoIngest
  /\ entry = [cat |-> none, empty |-> TRUE]
  /\ undo = Nothing
  /\ marking = FALSE
  /\ pending = NoRecord
  /\ outcome = "none"
  /\ serial = [db |-> EmptyDB, ok |-> TRUE, sids |-> {}]
  /\ used = [saves |-> 0, ingests |-> 0]

----------------------------------------------------------------------------
\* Statements.

Ddl(c, view) == [c EXCEPT !.view = view,
                          !.durable = IF EagerDdl /\ ~c.began THEN view ELSE @]
Dml(c) == [c EXCEPT !.began = TRUE]
Committed(c) == [durable |-> c.view, view |-> c.view, began |-> FALSE]
RolledBack(c) == [durable |-> c.durable, view |-> c.durable, began |-> FALSE]

\* The tables of a record class and of all it refers to.
Closure(t) ==
  LET Step(T) == (T \cup {RefType[u] : u \in T} \cup {ElemType[u] : u \in T}) \ {NoType}
      Wave[n \in Nat] == IF n = 0 THEN {t} ELSE Step(Wave[n - 1])
  IN Wave[Cardinality(Types)]

StagedTables(s) == {t \in s.pre : Dedup[t] # "none" /\ s.rows[t] # {}}
InsertedTables(s, f) == {t \in Types : f.db.rows[t] # s.db.rows[t]}

\* The one of these tables that comes first in dependency order.
First(S) == {Order[i] : i \in {i \in DOMAIN Order : Order[i] \in S /\ \A j \in 1..(i - 1) : Order[j] \notin S}}

\* _resolve_and_insert's statements: f is the ingest s after the flush.  Each staged table
\* is a CREATE, an INSERT and a DROP, each table that gets rows an INSERT, behind the DROP
\* of its indexes.  So only the first DDL of all may come before any DML.
Flushed(c, s, f) ==
  LET staged == StagedTables(s)
      inserted == InsertedTables(s, f)
      bared == inserted \cap s.pre \cap Rebuild
      eager == IF staged # {} THEN [c.view EXCEPT !.stages = @ \cup First(staged)]
               ELSE [c.view EXCEPT !.bare = @ \cup (First(inserted) \cap bared)]
  IN [view |-> [c.view EXCEPT !.stages = @ \ staged, !.bare = @ \cup bared],
      durable |-> IF EagerDdl /\ ~c.began THEN eager ELSE c.durable,
      began |-> c.began \/ staged \cup inserted # {}]

\* Faulty variant: a stage that was dropped again is forgotten.
NotedIndexes(u, s, f) ==
  [u EXCEPT !.dropped = @ \cup (InsertedTables(s, f) \cap s.pre \cap Rebuild)]

Noted(u, s, f) == [u EXCEPT !.staging = @ \cup StagedTables(s),
                            !.dropped = @ \cup (InsertedTables(s, f) \cap s.pre \cap Rebuild)]

\* The transaction is rolled back and the ingest's memory is gone.
Rollback(why) ==
  /\ phase' = "cleaning"
  /\ outcome' = why
  /\ cat' = RolledBack(cat)
  /\ ing' = NoIngest
  /\ pending' = NoRecord

----------------------------------------------------------------------------
\* Outside an ingest.

\* SqlStore.save: the owner of a bulk context excludes it (_claim_bulk_context).
Save(r) ==
  LET t == Obj[r].type
      tables == cat.view.tables \cup Closure(t)
  IN /\ phase = "idle" /\ used.saves < MaxSaves
     /\ used' = [used EXCEPT !.saves = @ + 1]
     /\ store' = [store EXCEPT !.db = SerialSave(@, r)]
     /\ cat' = Committed([cat EXCEPT !.view.tables = tables])
     /\ outcome' = "none"
     /\ UNCHANGED <<phase, ing, entry, undo, marking, pending, serial>>

\* A store with a marker is not opened again.
Reopen ==
  /\ phase = "down" /\ ~store.marker
  /\ phase' = "idle"
  /\ UNCHANGED <<store, cat, ing, entry, undo, marking, pending, outcome, serial, used>>

Crash ==
  /\ phase # "down"
  /\ phase' = "down"
  /\ outcome' = IF phase = "idle" THEN outcome ELSE "crashed"
  /\ cat' = RolledBack(cat)
  /\ ing' = NoIngest /\ pending' = NoRecord
  /\ undo' = Nothing /\ marking' = FALSE
  /\ UNCHANGED <<store, entry, serial, used>>

----------------------------------------------------------------------------
\* __enter__

Enter ==
  /\ phase = "idle" /\ used.ingests < MaxIngests
  /\ used' = [used EXCEPT !.ingests = @ + 1]
  /\ phase' = "probed"
  /\ entry' = [cat |-> cat.durable, empty |-> \A t \in Types : store.db.rows[t] = {}]
  /\ undo' = Nothing
  /\ outcome' = "none"
  /\ serial' = [db |-> store.db, ok |-> TRUE, sids |-> {}]
  /\ UNCHANGED <<store, cat, ing, marking, pending>>

WriteMarker ==
  /\ phase = "probed" /\ entry.empty /\ ~marking
  /\ ~store.marker
  /\ store' = [store EXCEPT !.marker = TRUE]
  /\ marking' = TRUE
  /\ UNCHANGED <<cat, phase, ing, entry, undo, pending, outcome, serial, used>>

Begin ==
  /\ phase = "probed" /\ (entry.empty => marking)
  /\ phase' = "open"
  /\ ing' = Begun(store.db, entry.cat.tables)
  /\ UNCHANGED <<store, cat, entry, undo, marking, pending, outcome, serial, used>>

----------------------------------------------------------------------------
\* save(), one table at a time and then the rows.

CallSave(r) ==
  /\ phase = "open" /\ pending = NoRecord /\ used.saves < MaxSaves
  /\ used' = [used EXCEPT !.saves = @ + 1]
  /\ pending' = r
  /\ UNCHANGED <<store, cat, phase, ing, entry, undo, marking, outcome, serial>>

Missing == Closure(Obj[pending].type) \ (entry.cat.tables \cup Range(undo.created))

\* A created table has no separable indexes yet.
CreateTable ==
  /\ phase = "open" /\ pending # NoRecord
  /\ \E t \in First(Missing) :
       /\ cat' = Ddl(cat, [cat.view EXCEPT !.tables = @ \cup {t}, !.bare = @ \cup {t}])
       /\ undo' = [undo EXCEPT !.created = Append(@, t)]
  /\ UNCHANGED <<store, phase, ing, entry, marking, pending, outcome, serial, used>>

\* What the same call of SqlStore.save does.
SaveSerially(r, sid) ==
  serial' = [db |-> SerialSave(serial.db, r),
             ok |-> serial.ok /\ ~SerialFails(serial.db, r),
             sids |-> serial.sids \cup {<<Obj[r].type, sid, Saved[<<r, serial.db>>][2]>>}]

\* s is the ingest with the record, f what a full chunk leaves of it.
Buffered(s, f, sid) ==
  LET full == s.since >= ChunkSize
      buffered == sid \in Sids(s.rows[Obj[pending].type])
      c == IF buffered THEN cat ELSE Dml(cat)
  IN /\ undo' = IF s.ok /\ full THEN Noted(undo, s, f) ELSE undo
     /\ IF s.ok /\ f.ok
        THEN /\ cat' = IF full THEN Flushed(c, s, f) ELSE c
             /\ ing' = f
             /\ pending' = NoRecord
             /\ UNCHANGED <<phase, outcome>>
        ELSE /\ phase' = "cleaning" /\ outcome' = "refused"
             /\ cat' = RolledBack(IF s.ok THEN Flushed(c, s, f) ELSE c)
             /\ ing' = NoIngest /\ pending' = NoRecord

FlushFull(s) == IF s.since >= ChunkSize THEN Flush(s) ELSE s

Encode ==
  /\ phase = "open" /\ pending # NoRecord /\ Missing = {}
  /\ SaveSerially(pending, BulkSid(ing, pending))
  /\ \E s \in {BulkSave(ing, pending)} : Buffered(s, FlushFull(s), BulkSid(ing, pending))
  /\ UNCHANGED <<store, entry, marking, used>>

----------------------------------------------------------------------------
\* __exit__

\* _finalize after the last flush: the dispatch rows, and every index.
Finalized(c, f, u) ==
  /\ undo' = u
  /\ IF f.ok
     THEN /\ phase' = "committing"
          /\ cat' = [c EXCEPT !.view.bare = @ \ (u.dropped \cup Range(u.created))]
          /\ ing' = f
          /\ UNCHANGED <<pending, outcome>>
     ELSE /\ phase' = "cleaning" /\ outcome' = "refused"
          /\ cat' = RolledBack(c)
          /\ ing' = NoIngest /\ pending' = NoRecord

Exit ==
  /\ phase = "open" /\ pending = NoRecord
  /\ \E f \in {Flush(ing)} : Finalized(Flushed(cat, ing, f), Finalize(f), Noted(undo, ing, f))
  /\ UNCHANGED <<store, entry, marking, serial, used>>

Commit ==
  /\ phase = "committing"
  /\ phase' = "committed"
  /\ store' = [store EXCEPT !.db = ing.db]
  /\ cat' = Committed(cat)
  /\ UNCHANGED <<ing, entry, undo, marking, pending, outcome, serial, used>>

\* The delete of the marker may fail although everything is committed.
ClearMarker ==
  /\ phase = "committed"
  /\ phase' = "idle" /\ outcome' = "committed"
  /\ \E cleared \in BOOLEAN :
       store' = [store EXCEPT !.marker = @ /\ ~(marking /\ cleared)]
  /\ marking' = FALSE /\ ing' = NoIngest /\ undo' = Nothing
  /\ UNCHANGED <<cat, entry, pending, serial, used>>

\* Connecting, a statement, the body of the block or the commit raises.
Raise ==
  /\ phase \in {"probed", "open", "committing"}
  /\ Rollback("raised")
  /\ UNCHANGED <<store, entry, undo, marking, serial, used>>

----------------------------------------------------------------------------
\* _clean_up_after_failure, one object after another, in a transaction.

DropStage ==
  /\ phase = "cleaning"
  /\ \E t \in undo.staging :
       /\ cat' = Ddl(cat, [cat.view EXCEPT !.stages = @ \ {t}])
       /\ undo' = [undo EXCEPT !.staging = @ \ {t}]
  /\ UNCHANGED <<store, phase, ing, entry, marking, pending, outcome, serial, used>>

DropCreated ==
  /\ phase = "cleaning" /\ undo.staging = {} /\ undo.created # <<>>
  /\ LET t == Last(undo.created) IN
       cat' = Ddl(cat, [cat.view EXCEPT !.tables = @ \ {t}, !.bare = @ \ {t}])
  /\ undo' = [undo EXCEPT !.created = Front(@)]
  /\ UNCHANGED <<store, phase, ing, entry, marking, pending, outcome, serial, used>>

RestoreIndexes ==
  /\ phase = "cleaning" /\ undo.staging = {} /\ undo.created = <<>>
  /\ \E t \in undo.dropped :
       /\ cat' = Ddl(cat, [cat.view EXCEPT !.bare = @ \ {t}])
       /\ undo' = [undo EXCEPT !.dropped = @ \ {t}]
  /\ UNCHANGED <<store, phase, ing, entry, marking, pending, outcome, serial, used>>

CleanedUp ==
  /\ phase = "cleaning" /\ undo = Nothing
  /\ phase' = "cleaned"
  /\ cat' = Committed(cat)
  /\ UNCHANGED <<store, ing, entry, undo, marking, pending, outcome, serial, used>>

\* An error is swallowed; an index may be dropped and not created again.
CleanUpFails ==
  /\ phase = "cleaning" /\ undo # Nothing
  /\ phase' = "cleaned" /\ outcome' = "unclean"
  /\ \E lost \in SUBSET undo.dropped :
       /\ Cardinality(lost) <= IF undo.staging = {} /\ undo.created = <<>> THEN 1 ELSE 0
       /\ cat' = RolledBack(Ddl(cat, [cat.view EXCEPT !.bare = @ \cup lost]))
  /\ UNCHANGED <<store, ing, entry, undo, marking, pending, serial, used>>

\* _clear_marker_after_failure: only if the objects are those of the entry.
Restored == [cat.durable EXCEPT !.bare = {}] = [entry.cat EXCEPT !.bare = {}]
\* Faulty variant: the marker is removed whatever the clean-up has achieved.
ClearMarkerBlindly ==
  /\ phase = "cleaned"
  /\ phase' = "idle"
  /\ store' = [store EXCEPT !.marker = @ /\ ~marking]
  /\ marking' = FALSE /\ undo' = Nothing
  /\ UNCHANGED <<cat, ing, entry, pending, outcome, serial, used>>


ClearMarkerAfterFailure ==
  /\ phase = "cleaned"
  /\ phase' = "idle"
  /\ \E cleared \in BOOLEAN :
       store' = [store EXCEPT !.marker = @ /\ ~(marking /\ Restored /\ cleared)]
  /\ marking' = FALSE /\ undo' = Nothing
  /\ UNCHANGED <<cat, ing, entry, pending, outcome, serial, used>>

----------------------------------------------------------------------------
Next ==
  \/ \E r \in Records : Save(r) \/ CallSave(r)
  \/ Reopen \/ Crash
  \/ Enter \/ WriteMarker \/ Begin
  \/ CreateTable \/ Encode \/ Exit \/ Commit \/ ClearMarker \/ Raise
  \/ DropStage \/ DropCreated \/ RestoreIndexes \/ CleanedUp \/ CleanUpFails
  \/ ClearMarkerAfterFailure

Spec == Init /\ [][Next]_vars

----------------------------------------------------------------------------
\* What is committed is what a loop of SqlStore.save over the same objects, from
\* the same store, would have left; and an ingest is refused only for what that
\* loop refuses.
SameAsSerial ==
  /\ phase = "committed" => serial.ok /\ Equivalent(store.db, serial.db)
  /\ phase = "cleaning" /\ outcome = "refused" => ~serial.ok

\* resolved_sid maps what save() returned to a row that holds what the row of
\* the same call of SqlStore.save holds.
ResolvedSids ==
  phase = "committed" =>
    \A x \in serial.sids :
      LET t == x[1]
          sid == ResolvedSid(ing, t, x[2])
      IN /\ sid \in Sids(store.db.rows[t])
         /\ TreeAt[<<t, sid, store.db.rows>>] = TreeAt[<<t, x[3], serial.db.rows>>]

\* An ingest of an empty store that failed or died, at any point, has left the
\* tables as they were or a marker that keeps the store from being opened.
FencedResidue ==
  phase \in {"idle", "down"} /\ outcome \in {"raised", "refused", "unclean", "crashed"}
    /\ entry.empty /\ ~store.marker => Restored

\* A failed ingest whose clean-up ran to its end has left the tables that were
\* there, no new stage and every index, also where DDL does not roll back.
RestoredOnFailure ==
  phase \in {"cleaned", "idle"} /\ outcome \in {"raised", "refused"} =>
    /\ cat.durable.tables = entry.cat.tables
    /\ cat.durable.stages \subseteq entry.cat.stages
    /\ cat.durable.bare \subseteq entry.cat.bare
=============================================================================
