-------------------------- MODULE BulkIngestProofs --------------------------
(***************************************************************************)
(* What a failed ingest leaves, for every graph of records, chunk size,    *)
(* choice of indexes and behaviour of DDL: of an empty store the old       *)
(* tables or the marker; and of any store, when the clean-up ran to its    *)
(* end, the old catalog.  The second needs that what memory says is to be  *)
(* undone covers every difference, durable or not, after each statement.   *)
(***************************************************************************)
EXTENDS BulkIngest, TLAPS

\* The store keeps its two parts, and the context is somewhere.
StoreShape ==
  /\ store = [db |-> store.db, marker |-> store.marker]
  /\ phase \in {"idle", "probed", "open", "committing", "committed", "cleaning",
                "cleaned", "down"}

\* An ingest that believes it wrote the marker did.
Marked == marking => store.marker

\* Between transactions the durable catalog is what there is to see.
Quiet ==
  phase \in {"idle", "down", "probed", "committed", "cleaned"} => cat.view = cat.durable

\* An empty store is not worked on without the marker.
Opened == phase \in {"open", "committing", "committed"} /\ entry.empty => marking

\* Without the marker an ingest of an empty store has done nothing.
Untouched ==
  phase \in {"probed", "cleaning", "cleaned"} /\ entry.empty /\ ~marking =>
    /\ cat.durable = entry.cat /\ cat.view = entry.cat
    /\ undo = Nothing

IInv == StoreShape /\ Marked /\ Quiet /\ Opened /\ Untouched /\ FencedResidue

\* An empty store without ingests is not in doubt.
LEMMA InitHolds == Init => IInv
BY DEF Init, IInv, StoreShape, Marked, Quiet, Opened, Untouched, FencedResidue

\* The fence holds across every step.
LEMMA StepHolds == IInv /\ [Next]_vars => IInv'
<1> SUFFICES ASSUME IInv, [Next]_vars PROVE IInv'
  OBVIOUS
<1> USE DEF IInv, StoreShape, Marked, Quiet, Opened, Untouched, FencedResidue, Restored
<1>1. ASSUME NEW r \in Records, Save(r) PROVE IInv'
  BY <1>1 DEF Save, Committed
<1>2. ASSUME NEW r \in Records, CallSave(r) PROVE IInv'
  BY <1>2 DEF CallSave
<1>3. CASE Reopen
  BY <1>3 DEF Reopen
<1>4. CASE Crash
  BY <1>4 DEF Crash, RolledBack
<1>5. CASE Enter
  BY <1>5 DEF Enter
<1>6. CASE WriteMarker
  BY <1>6 DEF WriteMarker
<1>7. CASE Begin
  BY <1>7 DEF Begin
<1>8. CASE CreateTable
  BY <1>8 DEF CreateTable
<1>9. CASE Encode
  BY <1>9 DEF Encode, Buffered
<1>10. CASE Exit
  BY <1>10 DEF Exit, Finalized
<1>11. CASE Commit
  BY <1>11 DEF Commit, Committed
<1>12. CASE ClearMarker
  BY <1>12 DEF ClearMarker
<1>13. CASE Raise
  BY <1>13 DEF Raise, Rollback, RolledBack
<1>14. CASE DropStage
  BY <1>14 DEF DropStage, Nothing
<1>15. CASE DropCreated
  BY <1>15 DEF DropCreated, Nothing
<1>16. CASE RestoreIndexes
  BY <1>16 DEF RestoreIndexes, Nothing
<1>17. CASE CleanedUp
  BY <1>17 DEF CleanedUp, Committed
<1>18. CASE CleanUpFails
  BY <1>18 DEF CleanUpFails, RolledBack
<1>19. CASE ClearMarkerAfterFailure
  BY <1>19 DEF ClearMarkerAfterFailure, Nothing
<1>20. CASE UNCHANGED vars
  BY <1>20 DEF vars
<1> QED
  BY <1>1, <1>2, <1>3, <1>4, <1>5, <1>6, <1>7, <1>8, <1>9, <1>10, <1>11, <1>12, <1>13,
     <1>14, <1>15, <1>16, <1>17, <1>18, <1>19, <1>20 DEF Next

\* A failed or interrupted ingest of an empty store leaves the tables it found or
\* the marker that keeps the store closed.
THEOREM FencedResidueHolds == Spec => []FencedResidue
<1>1. Init => IInv
  BY InitHolds
<1>2. IInv /\ [Next]_vars => IInv'
  BY StepHolds
<1>3. IInv => FencedResidue
  BY DEF IInv
<1> QED
  BY <1>1, <1>2, <1>3, PTL DEF Spec
----------------------------------------------------------------------------
(* Restoration                                                             *)

LEMMA RangeOfAppend ==
  ASSUME NEW s \in Seq(Types), NEW t \in Types
  PROVE  Append(s, t) \in Seq(Types) /\ Range(Append(s, t)) = Range(s) \cup {t}
<1>1. Range(Append(s, t)) \subseteq Range(s) \cup {t}
  BY DEF Range
<1>2. t \in Range(Append(s, t))
  <2>1. Len(s) + 1 \in DOMAIN Append(s, t) /\ Append(s, t)[Len(s) + 1] = t
    OBVIOUS
  <2> QED
    BY <2>1 DEF Range
<1>3. Range(s) \subseteq Range(Append(s, t))
  <2>1. \A i \in DOMAIN s : i \in DOMAIN Append(s, t) /\ Append(s, t)[i] = s[i]
    OBVIOUS
  <2> QED
    BY <2>1 DEF Range
<1> QED
  BY <1>1, <1>2, <1>3

LEMMA RangeOfFront ==
  ASSUME NEW s \in Seq(Types), s # <<>>
  PROVE  Front(s) \in Seq(Types) /\ Range(s) = Range(Front(s)) \cup {Last(s)}
<1>1. /\ Front(s) \in Seq(Types) /\ Len(Front(s)) = Len(s) - 1 /\ Len(s) \in Nat \ {0}
      /\ \A i \in 1..(Len(s) - 1) : Front(s)[i] = s[i]
  <2>1. s \in Seq(Types) /\ Len(s) \in Nat \ {0} /\ s = [i \in 1..Len(s) |-> s[i]]
    OBVIOUS
  <2> QED
    BY <2>1 DEF Front
<1>2. ASSUME NEW x \in Range(s) PROVE x \in Range(Front(s)) \cup {Last(s)}
  <2>1. PICK i \in 1..Len(s) : x = s[i]
    BY DEF Range
  <2> QED
    BY <1>1, <2>1 DEF Range, Last
<1>3. Range(Front(s)) \subseteq Range(s) /\ Last(s) \in Range(s)
  BY <1>1 DEF Range, Last
<1> QED
  BY <1>1, <1>2, <1>3

LEMMA FirstIsIn == \A S : First(S) \subseteq S /\ First(S) \subseteq Types
  BY OrderAssumption DEF First, Range

\* The catalogs have their parts, and so has what is to be undone.
IsCatalog(c) == c = [tables |-> c.tables, stages |-> c.stages, bare |-> c.bare]
CatalogShape ==
  /\ cat = [durable |-> cat.durable, view |-> cat.view, began |-> cat.began]
  /\ IsCatalog(cat.durable) /\ IsCatalog(cat.view) /\ IsCatalog(entry.cat)
  /\ undo = [created |-> undo.created, staging |-> undo.staging, dropped |-> undo.dropped]
  /\ undo.created \in Seq(Types)

\* Catalog c differs from that of the entry only in what u says is to be undone.
Undoes(u, e, c) ==
  /\ e.tables \subseteq c.tables /\ c.tables \subseteq e.tables \cup Range(u.created)
  /\ c.stages \subseteq e.stages \cup u.staging
  /\ c.bare \subseteq e.bare \cup u.dropped \cup Range(u.created)
  /\ e.tables \cap Range(u.created) = {}

Undoable ==
  /\ phase \in {"probed", "open", "committing"} =>
       Undoes(undo, entry.cat, cat.durable) /\ Undoes(undo, entry.cat, cat.view)
  /\ phase = "cleaning" => Undoes(undo, entry.cat, cat.view)

\* A failed ingest has been undone, also when the process has died since.
UndoneOnFailure ==
  phase \in {"cleaned", "idle", "down"} /\ outcome \in {"raised", "refused"} =>
    /\ cat.durable.tables = entry.cat.tables
    /\ cat.durable.stages \subseteq entry.cat.stages
    /\ cat.durable.bare \subseteq entry.cat.bare

UInv == Quiet /\ CatalogShape /\ Undoable /\ UndoneOnFailure

LEMMA InitUndone == Init => UInv
  BY DEF Init, UInv, Quiet, CatalogShape, IsCatalog, Undoable, UndoneOnFailure, Nothing

\* A flush, and what is noted of it.
LEMMA FlushUndone ==
  ASSUME CatalogShape, NEW c, NEW s, NEW f,
         c = [durable |-> cat.durable, view |-> cat.view, began |-> c.began],
         Undoes(undo, entry.cat, cat.durable), Undoes(undo, entry.cat, cat.view),
         NEW n, n = Noted(undo, s, f)
  PROVE  LET g == Flushed(c, s, f)
         IN /\ Undoes(n, entry.cat, g.durable) /\ Undoes(n, entry.cat, g.view)
            /\ g = [durable |-> g.durable, view |-> g.view, began |-> g.began]
            /\ IsCatalog(g.durable) /\ IsCatalog(g.view)
            /\ n = [created |-> n.created, staging |-> n.staging, dropped |-> n.dropped]
            /\ n.created \in Seq(Types)
<1> DEFINE T == StagedTables(s)
           I == InsertedTables(s, f)
           B == I \cap s.pre \cap Rebuild
<1>1. /\ n.created = undo.created /\ n.staging = undo.staging \cup T /\ n.dropped = undo.dropped \cup B
      /\ n = [created |-> n.created, staging |-> n.staging, dropped |-> n.dropped]
  BY DEF Noted, CatalogShape
<1>2. First(T) \subseteq T /\ First(I) \subseteq I
  BY FirstIsIn
<1> HIDE DEF T, I, B
<1> DEFINE eager == IF T # {} THEN [c.view EXCEPT !.stages = @ \cup First(T)]
                    ELSE [c.view EXCEPT !.bare = @ \cup (First(I) \cap B)]
           g == [view |-> [c.view EXCEPT !.stages = @ \ T, !.bare = @ \cup B],
                 durable |-> IF EagerDdl /\ ~c.began THEN eager ELSE c.durable,
                 began |-> c.began \/ T \cup I # {}]
<1>3. Flushed(c, s, f) = g
  BY DEF Flushed, T, I, B
<1> DEFINE v == c.view
<1>0. IsCatalog(v) /\ Undoes(undo, entry.cat, v)
  BY DEF CatalogShape
<1> HIDE DEF v
<1>4. IsCatalog(g.view) /\ Undoes(n, entry.cat, g.view)
  <2>1. g.view = [tables |-> v.tables, stages |-> v.stages \ T, bare |-> v.bare \cup B]
    BY <1>0 DEF IsCatalog, v
  <2> HIDE DEF g
  <2> QED
    BY <1>0, <1>1, <2>1 DEF IsCatalog, Undoes
<1>5. IsCatalog(eager) /\ Undoes(n, entry.cat, eager)
  <2>1. \/ eager = [tables |-> v.tables, stages |-> v.stages \cup First(T), bare |-> v.bare]
        \/ eager = [tables |-> v.tables, stages |-> v.stages, bare |-> v.bare \cup (First(I) \cap B)]
    BY <1>0 DEF IsCatalog, v
  <2> HIDE DEF eager
  <2> QED
    BY <1>0, <1>1, <1>2, <2>1 DEF IsCatalog, Undoes
<1>6. IsCatalog(c.durable) /\ Undoes(n, entry.cat, c.durable)
  BY <1>1 DEF CatalogShape, IsCatalog, Undoes
<1> HIDE DEF eager
<1>7. IsCatalog(g.durable) /\ Undoes(n, entry.cat, g.durable)
  BY <1>5, <1>6
<1> QED
  BY <1>1, <1>3, <1>4, <1>7 DEF CatalogShape

LEMMA CatalogWith ==
  ASSUME NEW v, IsCatalog(v), NEW S
  PROVE  /\ [v EXCEPT !.stages = S] = [tables |-> v.tables, stages |-> S, bare |-> v.bare]
         /\ [v EXCEPT !.bare = S] = [tables |-> v.tables, stages |-> v.stages, bare |-> S]
  BY DEF IsCatalog

\* Statement by statement.
LEMMA StepUndone == UInv /\ [Next]_vars => UInv'
<1> SUFFICES ASSUME UInv, [Next]_vars PROVE UInv'
  OBVIOUS
<1> USE DEF UInv, Quiet, CatalogShape, Undoable, UndoneOnFailure
<1>1. ASSUME NEW r \in Records, Save(r) PROVE UInv'
  BY <1>1 DEF Save, Committed, IsCatalog
<1>2. ASSUME NEW r \in Records, CallSave(r) PROVE UInv'
  BY <1>2 DEF CallSave
<1>3. CASE Reopen
  BY <1>3 DEF Reopen
<1>4. CASE Crash
  BY <1>4 DEF Crash, RolledBack, Nothing
<1>5. CASE Enter
  BY <1>5 DEF Enter, Nothing, Undoes, Range
<1>6. CASE WriteMarker
  BY <1>6 DEF WriteMarker
<1>7. CASE Begin
  BY <1>7 DEF Begin
<1>8. CASE CreateTable
  <2>1. PICK t \in First(Missing) :
          /\ cat' = Ddl(cat, [cat.view EXCEPT !.tables = @ \cup {t}, !.bare = @ \cup {t}])
          /\ undo' = [undo EXCEPT !.created = Append(@, t)]
    BY <1>8 DEF CreateTable
  <2>2. t \in Types /\ t \notin entry.cat.tables
    BY FirstIsIn DEF Missing
  <2>3. /\ undo'.created \in Seq(Types) /\ Range(undo'.created) = Range(undo.created) \cup {t}
        /\ undo'.staging = undo.staging /\ undo'.dropped = undo.dropped
        /\ undo' = [created |-> undo'.created, staging |-> undo'.staging, dropped |-> undo'.dropped]
    BY <2>1, <2>2, RangeOfAppend
  <2>4. UNCHANGED <<phase, entry, outcome>> /\ phase = "open"
    BY <1>8 DEF CreateTable
  <2> QED
    BY <2>1, <2>2, <2>3, <2>4, ZenonT(60) DEF Ddl, IsCatalog, Undoes
<1>9. CASE Encode
  <2>0. PICK s \in {BulkSave(ing, pending)} : Buffered(s, FlushFull(s), BulkSid(ing, pending))
    BY <1>9 DEF Encode
  <2> DEFINE f == FlushFull(s)
             c == IF BulkSid(ing, pending) \in Sids(s.rows[Obj[pending].type]) THEN cat ELSE Dml(cat)
             full == s.since >= ChunkSize
  <2>1. phase = "open" /\ UNCHANGED entry
    BY <1>9 DEF Encode
  <2>2. c = [durable |-> cat.durable, view |-> cat.view, began |-> c.began]
    BY DEF Dml
  <2>3. /\ undo' = IF s.ok /\ full THEN Noted(undo, s, f) ELSE undo
        /\ IF s.ok /\ f.ok
           THEN phase' = "open" /\ cat' = IF full THEN Flushed(c, s, f) ELSE c
           ELSE /\ phase' = "cleaning" /\ outcome' = "refused"
                /\ cat' = RolledBack(IF s.ok THEN Flushed(c, s, f) ELSE c)
        /\ ~full => f = s
    BY <2>0, <2>1 DEF Buffered, FlushFull
  <2> HIDE DEF f, c, full
  <2>4. CASE s.ok /\ full
    <3>1. undo' = Noted(undo, s, f)
      BY <2>3, <2>4
    <3> DEFINE g == Flushed(c, s, f)
    <3>2. /\ Undoes(undo', entry.cat, g.durable) /\ Undoes(undo', entry.cat, g.view)
          /\ g = [durable |-> g.durable, view |-> g.view, began |-> g.began]
          /\ IsCatalog(g.durable) /\ IsCatalog(g.view)
          /\ undo' = [created |-> undo'.created, staging |-> undo'.staging, dropped |-> undo'.dropped]
          /\ undo'.created \in Seq(Types)
      BY <2>1, <2>2, <3>1, FlushUndone
    <3> HIDE DEF g
    <3>3. \/ phase' = "open" /\ cat' = g
          \/ phase' = "cleaning" /\ cat' = RolledBack(g)
      BY <2>3, <2>4 DEF g
    <3> QED
      BY <2>1, <3>2, <3>3 DEF RolledBack
  <2>5. CASE ~(s.ok /\ full)
    <3>1. undo' = undo
      BY <2>3, <2>5
    <3>2. \/ phase' = "open" /\ cat' = c
          \/ phase' = "cleaning" /\ cat' = RolledBack(c)
      BY <2>3, <2>5
    <3> QED
      BY <2>1, <2>2, <3>1, <3>2 DEF RolledBack
  <2> QED
    BY <2>4, <2>5
<1>10. CASE Exit
  <2>1. PICK f : Finalized(Flushed(cat, ing, f), Finalize(f), Noted(undo, ing, f))
    BY <1>10 DEF Exit
  <2> DEFINE g == Flushed(cat, ing, f)
             n == Noted(undo, ing, f)
  <2>2. phase = "open" /\ UNCHANGED entry
    BY <1>10 DEF Exit
  <2>3. /\ Undoes(n, entry.cat, g.durable) /\ Undoes(n, entry.cat, g.view)
        /\ g = [durable |-> g.durable, view |-> g.view, began |-> g.began]
        /\ IsCatalog(g.durable) /\ IsCatalog(g.view)
        /\ n = [created |-> n.created, staging |-> n.staging, dropped |-> n.dropped]
        /\ n.created \in Seq(Types)
    BY <2>2, FlushUndone
  <2>4. /\ undo' = n
        /\ \/ /\ phase' = "committing"
              /\ cat' = [g EXCEPT !.view.bare = @ \ (n.dropped \cup Range(n.created))]
           \/ phase' = "cleaning" /\ cat' = RolledBack(g)
    BY <2>1 DEF Finalized
  <2> HIDE DEF g, n
  <2> QED
    BY <2>2, <2>3, <2>4 DEF RolledBack, IsCatalog, Undoes
<1>11. CASE Commit
  BY <1>11 DEF Commit, Committed
<1>12. CASE ClearMarker
  BY <1>12 DEF ClearMarker, Nothing
<1>13. CASE Raise
  BY <1>13 DEF Raise, Rollback, RolledBack
<1>14. CASE DropStage
  <2>1. PICK t \in undo.staging : /\ cat' = Ddl(cat, [cat.view EXCEPT !.stages = @ \ {t}])
                                  /\ undo' = [undo EXCEPT !.staging = @ \ {t}]
    BY <1>14 DEF DropStage
  <2>2. /\ undo'.created = undo.created /\ undo'.dropped = undo.dropped
        /\ undo'.staging = undo.staging \ {t}
        /\ undo' = [created |-> undo'.created, staging |-> undo'.staging, dropped |-> undo'.dropped]
    BY <2>1
  <2>3. phase = "cleaning" /\ UNCHANGED <<phase, entry, outcome>>
    BY <1>14 DEF DropStage
  <2> QED
    BY <2>1, <2>2, <2>3 DEF Ddl, IsCatalog, Undoes
<1>15. CASE DropCreated
  <2> DEFINE t == Last(undo.created)
  <2>1. /\ phase = "cleaning" /\ UNCHANGED <<phase, entry, outcome>>
        /\ cat' = Ddl(cat, [cat.view EXCEPT !.tables = @ \ {t}, !.bare = @ \ {t}])
        /\ undo' = [undo EXCEPT !.created = Front(@)]
    BY <1>15 DEF DropCreated
  <2>2. undo'.created \in Seq(Types) /\ Range(undo.created) = Range(undo'.created) \cup {t}
    BY <1>15, <2>1, RangeOfFront DEF DropCreated
  <2>3. /\ undo'.staging = undo.staging /\ undo'.dropped = undo.dropped
        /\ undo' = [created |-> undo'.created, staging |-> undo'.staging, dropped |-> undo'.dropped]
    BY <2>1
  <2> HIDE DEF t
  <2> QED
    BY <2>1, <2>2, <2>3 DEF Ddl, IsCatalog, Undoes
<1>16. CASE RestoreIndexes
  <2>1. PICK t \in undo.dropped : /\ cat' = Ddl(cat, [cat.view EXCEPT !.bare = @ \ {t}])
                                 /\ undo' = [undo EXCEPT !.dropped = @ \ {t}]
    BY <1>16 DEF RestoreIndexes
  <2>2. /\ undo'.created = undo.created /\ undo'.staging = undo.staging
        /\ undo'.dropped = undo.dropped \ {t}
        /\ undo' = [created |-> undo'.created, staging |-> undo'.staging, dropped |-> undo'.dropped]
    BY <2>1
  <2>3. phase = "cleaning" /\ UNCHANGED <<phase, entry, outcome>>
    BY <1>16 DEF RestoreIndexes
  <2> QED
    BY <2>1, <2>2, <2>3 DEF Ddl, IsCatalog, Undoes
<1>17. CASE CleanedUp
  <2>1. Range(undo.created) = {} /\ undo.staging = {} /\ undo.dropped = {}
    BY <1>17 DEF CleanedUp, Nothing, Range
  <2> QED
    BY <1>17, <2>1 DEF CleanedUp, Committed, Undoes
<1>18. CASE CleanUpFails
  <2>1. PICK lost : cat' = RolledBack(Ddl(cat, [cat.view EXCEPT !.bare = @ \cup lost]))
    BY <1>18 DEF CleanUpFails
  <2>2. IsCatalog([cat.view EXCEPT !.bare = @ \cup lost])
    BY CatalogWith DEF IsCatalog
  <2>3. CatalogShape'
    BY <1>18, <2>1, <2>2 DEF CleanUpFails, RolledBack, Ddl
  <2>4. cat'.view = cat'.durable
    BY <2>1 DEF RolledBack
  <2> QED
    BY <1>18, <2>3, <2>4 DEF CleanUpFails
<1>19. CASE ClearMarkerAfterFailure
  BY <1>19 DEF ClearMarkerAfterFailure, Nothing
<1>20. CASE UNCHANGED vars
  BY <1>20 DEF vars
<1> QED
  BY <1>1, <1>2, <1>3, <1>4, <1>5, <1>6, <1>7, <1>8, <1>9, <1>10, <1>11, <1>12, <1>13,
     <1>14, <1>15, <1>16, <1>17, <1>18, <1>19, <1>20 DEF Next

\* An ingest that failed and whose clean-up ran to its end has left the tables it found,
\* no stage of its own and no table without an index that it had, wherever it failed and
\* whichever of its DDL the database had made durable.
THEOREM RestoredOnFailureHolds == Spec => []RestoredOnFailure
<1>1. UInv => RestoredOnFailure
  BY DEF UInv, UndoneOnFailure, RestoredOnFailure
<1> QED
  BY <1>1, InitUndone, StepUndone, PTL DEF Spec
============================================================================
