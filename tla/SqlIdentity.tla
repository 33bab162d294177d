---------------------------- MODULE SqlIdentity ----------------------------
(***************************************************************************)
(* SqlStore in the transactional profile: explicit transactions, the       *)
(* identity caches, lazy rows and their expiry, replace() and its          *)
(* lineages, and the guarded store timestamps (backend/sql/store.py,       *)
(* backend/sql/rows.py, store_common.py, store_timestamp.py).  A process   *)
(* has one store and one thread; the processes share an SQLite database,   *)
(* in which a rolled-back sid is given out again.  There is one table, of  *)
(* content-addressed records that may refer to one another.                *)
(***************************************************************************)
EXTENDS Integers, FiniteSets, FiniteSetsExt, Functions

CONSTANTS
  Stores,    \* one per process
  Records,   \* the Python objects that are saved
  Key,       \* content id of a record
  Ref,       \* record it refers to, or NoRecord
  NoRecord,
  None,
  MaxUnits,  \* bound: transactions of all stores together
  MaxSid,    \* bound: rows
  MaxClock   \* bound: of the clock, in units of store_timestamp_resolution

ASSUME IdentityAssumption ==
  /\ Key \in [Records -> STRING] /\ Ref \in [Records -> Records \cup {NoRecord}]
  /\ NoRecord \notin Records /\ {MaxUnits, MaxSid, MaxClock} \subseteq Nat

VARIABLES
  rows,    \* the committed table
  writer,  \* the store whose connection holds SQLite's write lock, or None
  work,    \* what that connection sees
  mode,    \* per store: "idle" or "transaction"
  unit,    \* per store: transactions so far
  pinned,  \* per store: timestamp captured for the running transaction, or Never
  mark,    \* per store: _store_timestamp_mark, or Never
  sids,    \* per store: IdentityCaches._sids, <<record, sid>>
  inst,    \* per store: IdentityCaches._instances, <<sid, object>>
  hand     \* per store: an object the program holds

Never == 0

vars == <<rows, writer, work, mode, unit, pinned, mark, sids, inst, hand>>

\* A lazy row: its sid, its parent row and its child rows once they are read, each
\* with the fate of the transaction it was read in, which the rows share by its token.
LazyRow(sid, rec, fate) ==
  [lazy |-> TRUE, sid |-> sid, rec |-> rec, fate |-> fate, kids |-> None, kidsFate |-> "none"]
Record(r) == [lazy |-> FALSE, sid |-> 0, rec |-> r, fate |-> "none", kids |-> None, kidsFate |-> "none"]

Fates == {"none", "running", "rolled back"}
Objects == [lazy : BOOLEAN, sid : 0..MaxSid, rec : Records, fate : Fates,
            kids : Records \cup {None}, kidsFate : Fates]

ASSUME NoneAssumption == None \notin Stores \cup Nat \cup Objects

Row(sid, r, role, lid, ts, u, pred) ==
  [sid |-> sid, rec |-> r, role |-> role, lid |-> lid, ts |-> ts, unit |-> u, pred |-> pred]

Rows == [sid : 1..MaxSid, rec : Records, role : {0, 1}, lid : 1..MaxSid, ts : 1..MaxClock,
         unit : Stores \X Nat, pred : (Records \X BOOLEAN) \cup {None}]

Init ==
  /\ rows = {} /\ writer = None /\ work = {}
  /\ mode = [s \in Stores |-> "idle"] /\ unit = [s \in Stores |-> 0]
  /\ pinned = [s \in Stores |-> Never] /\ mark = [s \in Stores |-> Never]
  /\ sids = [s \in Stores |-> {}] /\ inst = [s \in Stores |-> {}]
  /\ hand = [s \in Stores |-> None]

Started == MapThenSumSet(LAMBDA s : unit[s], Stores)
View(s) == IF writer = s THEN work ELSE rows
Held(s) == IF writer = s THEN None ELSE writer
At(sid, v) == {d \in v : d.sid = sid}
Of(r, v) == {d \in v : Key[d.rec] = Key[r]}
Pick(set) == CHOOSE x \in set : TRUE

\* The token of the running transaction: only an explicit one has any.
Token(s) == IF mode[s] = "transaction" THEN "running" ELSE "none"
Settled(x, fate) ==
  IF x = None THEN x
  ELSE LET To(old) == IF old = "running" THEN fate ELSE old
       IN [x EXCEPT !.fate = To(@), !.kidsFate = To(@)]

----------------------------------------------------------------------------
\* Timestamps.

\* capture_store_timestamp: refused behind the mark.  The clock may be set back
\* or stand still between two captures, so each reads any time.
MayCapture(s, clock) == clock >= mark[s]

\* advance_store_timestamp_mark, or Never
Advanced(s, captured) == IF captured > mark[s] THEN captured ELSE mark[s]

\* Faulty variant: a store that opens starts without a mark.
NoMark == Never

\* _initialize_store_timestamp_mark, of the rows that are there when the store opens.
InitialMark == IF rows = {} THEN Never ELSE Max({d.ts : d \in rows})

----------------------------------------------------------------------------
\* save()

NextSid(v) == IF v = {} THEN 1 ELSE Max({d.sid : d \in v}) + 1

\* What a record refers to, directly or through others.
Below == [r \in Records |->
  {x \in Records :
     /\ Ref[r] \in Records
     /\ \A set \in SUBSET Records :
          Ref[r] \in set /\ (\A y \in set : Ref[y] \in Records => Ref[y] \in set) => x \in set}]

\* The records a save comes to: what a stored record refers to is not looked at again.
Reached(r, v) ==
  {r} \cup {x \in Below[r] : \A y \in {r} \cup Below[r] : x \in Below[y] => Of(y, v) = {}}

\* _check_metadata, and for the record that is saved _apply_replacement_collision
Refused(reached, r, v, lid) ==
  \E x \in reached : \E d \in Of(x, v) : d.rec # x \/ (x = r /\ lid # None /\ d.lid # lid)

\* The sids that are given out, to a record after what it refers to; none if the
\* references of the records form a cycle.
Numberings(set, first) ==
  {f \in Injection(set, first..(first + Cardinality(set) - 1)) :
     \A x \in set : Ref[x] \in set => f[Ref[x]] < f[x]}

\* The parent row: a lineage of its own unless it replaces another one.
Insert(x, sid, r, a) ==
  IF x = r THEN Row(sid, x, 1, IF a.lid = None THEN sid ELSE a.lid, a.ts, a.unit, a.pred)
  ELSE Row(sid, x, 0, sid, a.ts, a.unit, None)

\* First stored wins: only the role of a stored row changes.
Promoted(r, v) == {IF Key[d.rec] = Key[r] THEN [d EXCEPT !.role = 1] ELSE d : d \in v}

\* _save_active: the table it leaves.
Stored(fresh, r, v, a) ==
  {Promoted(r, v) \cup {Insert(x, f[x], r, a) : x \in fresh} : f \in Numberings(fresh, NextSid(v))}

\* What is _remember()ed of a save: the record, and what it inserted on the way.
Touched(r, old, new) == {<<d.rec, d.sid>> : d \in Of(r, new) \cup (new \ old)}

\* Faulty variant: a transaction that rolls back leaves what it cached.
CachesKept(s) == UNCHANGED <<sids, inst>>

ClearIdentityCaches(s) == sids' = [sids EXCEPT ![s] = {}] /\ inst' = [inst EXCEPT ![s] = {}]

Remember(s, pairs) ==
  /\ sids' = [sids EXCEPT ![s] = {p \in @ : \A q \in pairs : q[1] # p[1]} \cup pairs]
  /\ inst' = [inst EXCEPT ![s] =
       {p \in @ : \A q \in pairs : q[2] # p[1]} \cup {<<q[2], Record(q[1])>> : q \in pairs}]

Ended(s) ==
  /\ mode' = [mode EXCEPT ![s] = "idle"]
  /\ pinned' = [pinned EXCEPT ![s] = Never]
  /\ writer' = Held(s)
  /\ work' = IF writer = s THEN {} ELSE work

\* The program may keep the record, or what it held before.
Saved(s, r, table, ts) ==
  /\ Remember(s, Touched(r, View(s), table))
  /\ \E x \in {Record(r), hand[s]} : hand' = [hand EXCEPT ![s] = x]
  /\ IF mode[s] = "transaction"
     THEN /\ pinned' = [pinned EXCEPT ![s] = ts]
          /\ writer' = IF table # View(s) THEN s ELSE writer
          /\ work' = IF table # View(s) THEN table ELSE work
          /\ UNCHANGED <<rows, mode, unit, mark>>
     ELSE /\ rows' = table /\ mark' = [mark EXCEPT ![s] = Advanced(s, ts)]
          /\ unit' = [unit EXCEPT ![s] = @ + 1] /\ Ended(s)

\* A save on its own that fails clears the caches; inside a transaction the program
\* may go on, with the timestamp that was captured.
SaveFails(s, ts) ==
  /\ IF mode[s] = "transaction" THEN pinned' = [pinned EXCEPT ![s] = ts] /\ UNCHANGED <<sids, inst>>
     ELSE ClearIdentityCaches(s) /\ UNCHANGED pinned
  /\ UNCHANGED <<rows, writer, work, mode, unit, mark, hand>>

\* What the transaction's first save captures is the timestamp of all of it.
Captured(s) ==
  IF pinned[s] # Never THEN {pinned[s]} ELSE {clock \in 1..MaxClock : MayCapture(s, clock)}

\* _save_top.  A statement that writes needs the write lock, and keeps it until the end
\* of its transaction.  The steps of a save commute with those of the other processes,
\* which only add rows, and so does the read of the predecessor: one step does.
SaveTop(s, r, lid, pred) ==
  /\ mode[s] = "idle" => Started < MaxUnits
  /\ LET u == IF mode[s] = "idle" THEN unit[s] + 1 ELSE unit[s]
         old == View(s)
         reached == Reached(r, old)
         fresh == {x \in reached : Of(x, old) = {}}
     IN \E ts \in Captured(s) :
          LET a == [lid |-> lid, ts |-> ts, unit |-> <<s, u>>, pred |-> pred]
              tables == IF Refused(reached, r, old, lid) THEN {} ELSE Stored(fresh, r, old, a)
          IN IF tables = {} THEN SaveFails(s, ts)
             ELSE \E table \in tables :
                    /\ \A d \in table : d.sid <= MaxSid
                    /\ IF table # old => Held(s) = None
                       THEN Saved(s, r, table, ts) ELSE SaveFails(s, ts)

Save(s, r) == SaveTop(s, r, None, None)

----------------------------------------------------------------------------
\* transaction()

Begin(s) ==
  /\ mode[s] = "idle" /\ Started < MaxUnits
  /\ mode' = [mode EXCEPT ![s] = "transaction"]
  /\ unit' = [unit EXCEPT ![s] = @ + 1]
  /\ UNCHANGED <<rows, writer, work, pinned, mark, sids, inst, hand>>

Commit(s) ==
  /\ mode[s] = "transaction"
  /\ rows' = View(s)
  /\ mark' = [mark EXCEPT ![s] = Advanced(s, pinned[s])]
  /\ hand' = [hand EXCEPT ![s] = Settled(@, "none")]
  /\ inst' = [inst EXCEPT ![s] = {<<p[1], Settled(p[2], "none")>> : p \in @}]
  /\ Ended(s)
  /\ UNCHANGED <<unit, sids>>

Rollback(s) ==
  /\ mode[s] = "transaction"
  /\ hand' = [hand EXCEPT ![s] = Settled(@, "rolled back")]
  /\ ClearIdentityCaches(s)
  /\ Ended(s)
  /\ UNCHANGED <<rows, unit, mark>>

\* The process ends, perhaps in a transaction, and the store is opened again.
Reopen(s) ==
  /\ unit[s] > 0 /\ Started < MaxUnits
  /\ ClearIdentityCaches(s)
  /\ mark' = [mark EXCEPT ![s] = InitialMark]
  /\ hand' = [hand EXCEPT ![s] = None]
  /\ Ended(s)
  /\ UNCHANGED <<rows, unit>>

----------------------------------------------------------------------------
\* Reading.

\* fetch(): what is cached, or a new lazy row.
Fetch(s, sid) ==
  /\ \E d \in At(sid, View(s)) \cup {None} :
       LET cached == {p[2] : p \in {p \in inst[s] : p[1] = sid}}
           got == IF cached # {} THEN Pick(cached) ELSE LazyRow(sid, d.rec, Token(s))
       IN /\ IF d = None THEN cached # {} /\ At(sid, View(s)) = {} ELSE TRUE
          /\ hand' = [hand EXCEPT ![s] = got]
          /\ inst' = [inst EXCEPT ![s] = @ \cup {<<sid, got>>}]
  /\ UNCHANGED <<rows, writer, work, mode, unit, pinned, mark, sids>>

\* fetch(eager=True): a lazy row in the cache is no hit, and is replaced.
FetchEager(s, sid) ==
  /\ \E d \in At(sid, View(s)) :
       /\ \A p \in inst[s] : p[1] = sid => p[2].lazy
       /\ Remember(s, {<<d.rec, sid>>})
       /\ hand' = [hand EXCEPT ![s] = Record(d.rec)]
  /\ UNCHANGED <<rows, writer, work, mode, unit, pinned, mark>>

\* Faulty variant: the rows of a transaction that rolled back do not expire.
NeverExpires(fate) == TRUE

\* _Chunk._check_live, before every access.
LiveToken(fate) == fate # "rolled back"
Live(x) == LiveToken(x.fate)

\* The first access to a field that is kept in child rows.
ReadChildren(s) ==
  /\ hand[s] # None /\ hand[s].lazy /\ Live(hand[s]) /\ hand[s].kids = None
  /\ \E d \in At(hand[s].sid, View(s)) :
       LET x == [hand[s] EXCEPT !.kids = d.rec, !.kidsFate = Token(s)]
       IN /\ hand' = [hand EXCEPT ![s] = x]
          /\ inst' = [inst EXCEPT ![s] = {<<p[1], IF p[2] = hand[s] THEN x ELSE p[2]>> : p \in @}]
  /\ UNCHANGED <<rows, writer, work, mode, unit, pinned, mark, sids>>

\* The program drops every other object, and they go out of the weak caches.
Collect(s) ==
  /\ inst' = [inst EXCEPT ![s] = {p \in @ : p[2] = hand[s]}]
  /\ sids' = [sids EXCEPT ![s] = {q \in @ : Record(q[1]) = hand[s]}]
  /\ UNCHANGED <<rows, writer, work, mode, unit, pinned, mark, hand>>

----------------------------------------------------------------------------
\* replace()

\* sid_of: a lazy row knows its sid; a record is looked up in the caches, then by content.
SidOf(s, x) ==
  IF x.lazy THEN {x.sid}
  ELSE LET known == {p[2] : p \in {p \in sids[s] : p[1] = x.rec}}
       IN IF known # {} THEN known ELSE {d.sid : d \in Of(x.rec, View(s))}

Replace(s, r) ==
  /\ hand[s] # None
  /\ \E sid \in SidOf(s, hand[s]) : \E d \in At(sid, View(s)) :
       SaveTop(s, r, d.lid, <<hand[s].rec, Live(hand[s])>>)

Next ==
  \E s \in Stores :
       \/ Begin(s) \/ Commit(s) \/ Rollback(s) \/ Reopen(s)
       \/ ReadChildren(s) \/ Collect(s)
       \/ \E r \in Records : Save(s, r) \/ Replace(s, r)
       \/ \E sid \in 1..MaxSid : Fetch(s, sid) \/ FetchEager(s, sid)

Spec == Init /\ [][Next]_vars

----------------------------------------------------------------------------
TypeOK ==
  /\ rows \in SUBSET Rows /\ work \in SUBSET Rows
  /\ writer \in Stores \cup {None}
  /\ mode \in [Stores -> {"idle", "transaction"}] /\ unit \in [Stores -> Nat]
  /\ pinned \in [Stores -> 0..MaxClock] /\ mark \in [Stores -> 0..MaxClock]
  /\ sids \in [Stores -> SUBSET (Records \X (1..MaxSid))]
  /\ inst \in [Stores -> SUBSET ((1..MaxSid) \X Objects)]
  /\ hand \in [Stores -> Objects \cup {None}]

Faithful(s, sid, x) ==
  Live(x) => \E d \in At(sid, View(s)) :
    d.rec = x.rec /\ (x.kids # None /\ LiveToken(x.kidsFate) => x.kids = d.rec)

\* What fetch() would give from the cache, and the fields of the lazy row the program
\* holds, are what its connection sees under that sid: nothing of a transaction that
\* was rolled back, though its sid may be another record's by now.
ReadsFaithful ==
  \A s \in Stores :
    /\ \A p \in inst[s] : Faithful(s, p[1], p[2])
    /\ hand[s] # None /\ hand[s].lazy => Faithful(s, hand[s].sid, hand[s])

Follows(d, pred) == \E e \in rows : e.sid < d.sid /\ e.lid = d.lid /\ Key[e.rec] = Key[pred]

\* A row that was stored as the replacement of an object is in the lineage of that
\* object's row, also after rollbacks and reuse of sids, as long as the object lives.
LineageKept == \A d \in rows : d.pred # None /\ d.pred[2] => Follows(d, d.pred[1])

\* All rows of a transaction share a timestamp, and one process never stores a row
\* before an earlier one of its own, whatever the clock does and however often it
\* is opened again.
PinnedTimestamps ==
  \A d, e \in rows : d.unit[1] = e.unit[1] =>
    /\ d.unit = e.unit => d.ts = e.ts
    /\ d.sid < e.sid => d.ts <= e.ts
=============================================================================
