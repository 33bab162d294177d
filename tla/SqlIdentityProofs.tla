------------------------- MODULE SqlIdentityProofs -------------------------
(***************************************************************************)
(* Proofs about SqlIdentity, for any processes, records and bounds.        *)
(*                                                                         *)
(* The argument: one connection writes at a time, and what it sees is the  *)
(* committed table with more rows at its end, so a sid that a process has  *)
(* read keeps its row until that process rolls back, which empties its     *)
(* caches and expires the rows it read.  What it read outside of a         *)
(* transaction, or before the commit of one, is in the committed table.    *)
(* So the row a replacement copies its lineage from is the object's own.   *)
(* The timestamp of the running transaction is that of all its rows and    *)
(* not behind the mark, which is not behind any committed row of the       *)
(* process.                                                                *)
(***************************************************************************)
EXTENDS SqlIdentity, WellFoundedInduction, TLAPS

\* Promotion changes nothing but the role of a row.
Same(d, e) ==
  d.sid = e.sid /\ d.rec = e.rec /\ d.lid = e.lid /\ d.ts = e.ts /\ d.unit = e.unit /\ d.pred = e.pred
Keeps(old, new) == \A d \in old : \E e \in new : Same(d, e)

\* Only an explicit transaction keeps the write lock or a timestamp.
Locked ==
  /\ writer # None => mode[writer] = "transaction"
  /\ \A s \in Stores : mode[s] = "idle" => pinned[s] = Never

\* What holds of the committed table and of the one its writer sees.
Unique(v) == \A d, e \in v : d.sid = e.sid => d = e
Lineage(v) ==
  \A d \in v : d.pred # None /\ d.pred[2] =>
    \E e \in v : e.sid < d.sid /\ e.lid = d.lid /\ Key[e.rec] = Key[d.pred[1]]
Ordered(v) ==
  \A d, e \in v : d.unit[1] = e.unit[1] =>
    /\ d.unit = e.unit => d.ts = e.ts
    /\ d.sid < e.sid => d.ts <= e.ts
Table(v) == Unique(v) /\ Lineage(v) /\ Ordered(v)

\* What the writer sees is the committed table, and the rows of its transaction.
Uncommitted(s, d) == d.unit = <<s, unit[s]>> /\ d.ts = pinned[s]
Pending ==
  writer # None =>
    /\ Keeps(rows, work)
    /\ \A d \in work : Uncommitted(writer, d) \/ \E e \in rows : Same(e, d)

\* No committed row is of a running transaction, or after the mark of its process.
Before(d) ==
  LET s == d.unit[1]
  IN /\ d.ts <= mark[s] /\ d.unit[2] <= unit[s]
     /\ mode[s] = "transaction" => d.unit[2] < unit[s]
Marked ==
  /\ \A d \in rows : Before(d)
  /\ \A s \in Stores : pinned[s] # Never => pinned[s] >= mark[s]

Tables == Locked /\ Table(rows) /\ (writer # None => Table(work)) /\ Pending /\ Marked

\* What a lazy row, the caches of a store, and the object a program holds give is there.
Shows(v, sid, rec) == \E d \in v : d.sid = sid /\ d.rec = rec
LazySound(s, x) ==
  /\ x.fate = "none" => Shows(rows, x.sid, x.rec)
  /\ x.fate = "running" => mode[s] = "transaction" /\ Shows(View(s), x.sid, x.rec)
  /\ x.kids # None => x.kids = x.rec
CachedSound(s, p) ==
  /\ Shows(View(s), p[1], p[2].rec)
  /\ p[2].kids # None => p[2].kids = p[2].rec
  /\ p[2].lazy => p[2].sid = p[1] /\ LazySound(s, p[2])
HeldSound(s, x) == x # None /\ x.lazy => LazySound(s, x)
StoreSound(s) ==
  /\ \A p \in inst[s] : CachedSound(s, p)
  /\ \A q \in sids[s] : Shows(View(s), q[2], q[1])
  /\ HeldSound(s, hand[s])
Caches == \A s \in Stores : StoreSound(s)

Inv == TypeOK /\ Tables /\ Caches

----------------------------------------------------------------------------
\* A set of numbers that has a bound has a greatest one.
LEMMA Greatest ==
  ASSUME NEW n \in Nat, NEW S \in SUBSET (0..n), S # {}
  PROVE  Max(S) \in S /\ \A y \in S : y <= Max(S)
<1> DEFINE T == {n - x : x \in S}
<1>1. \A x \in S : x \in Nat /\ x <= n
  OBVIOUS
<1>2. T \subseteq Nat /\ T # {}
  <2>1. PICK x \in S : TRUE
    OBVIOUS
  <2>2. n - x \in T
    OBVIOUS
  <2> QED BY <1>1, <2>2
<1>3. PICK m \in T : \A y \in T : ~(<<y, m>> \in OpToRel(<, Nat))
  <2> HIDE DEF T
  <2> QED BY <1>2, NatLessThanWellFounded, WFMin
<1>4. OpToRel(<, Nat) = {p \in Nat \X Nat : p[1] < p[2]}
  BY Zenon DEF OpToRel
<1>5. \A y \in T : m <= y
  <2> HIDE DEF T
  <2> SUFFICES ASSUME NEW y \in T, ~(m <= y) PROVE FALSE
    OBVIOUS
  <2>1. m \in Nat /\ y \in Nat /\ y < m
    <3>1. m \in T
      BY <1>3, Zenon
    <3> QED BY <1>2, <3>1
  <2>2. <<y, m>> \in {p \in Nat \X Nat : p[1] < p[2]}
    BY <2>1
  <2>3. <<y, m>> \in OpToRel(<, Nat)
    BY <1>4, <2>2, Zenon
  <2> QED BY <1>3, <2>3, Zenon
<1>6. PICK x \in S : m = n - x
  BY <1>3
<1>7. \A y \in S : x >= y
  <2> TAKE y \in S
  <2>1. n - y \in T
    OBVIOUS
  <2>2. m <= n - y
    BY <1>5, <2>1
  <2> QED BY <1>6, <2>2
<1> QED BY <1>7 DEF Max

LEMMA SameIsReflexive == \A v : Keeps(v, v)
BY DEF Keeps, Same

\* A new row comes after all the others, and carries what the save gives it.
Added(d, v, a) ==
  /\ \A e \in v : e.sid < d.sid
  /\ d.ts = a.ts /\ d.unit = a.unit
  /\ d.pred # None => d.pred = a.pred /\ (a.lid # None => d.lid = a.lid)

Arguments == [lid : (1..MaxSid) \cup {None}, ts : 1..MaxClock, unit : Stores \X Nat,
              pred : (Records \X BOOLEAN) \cup {None}]

LEMMA NextSidIsNew ==
  ASSUME NEW v \in SUBSET Rows
  PROVE  NextSid(v) \in Nat \ {0} /\ \A e \in v : e.sid < NextSid(v)
<1> DEFINE S == {d.sid : d \in v}
<1>1. S \in SUBSET (0..MaxSid)
  BY IdentityAssumption DEF Rows
<1>2. MaxSid \in Nat /\ \A y \in S : y \in Nat
  BY IdentityAssumption DEF Rows
<1>3. v # {} => S # {}
  OBVIOUS
<1>4. v # {} => Max(S) \in S /\ \A y \in S : y <= Max(S)
  <2> HIDE DEF S
  <2> QED BY <1>1, <1>2, <1>3, Greatest
<1>5. \A e \in v : e.sid \in S
  OBVIOUS
<1>6. NextSid(v) = IF v = {} THEN 1 ELSE Max(S) + 1
  BY DEF NextSid
<1> HIDE DEF S
<1>7. CASE v = {}
  BY <1>6, <1>7
<1>8. CASE v # {}
  <2>1. Max(S) \in Nat
    BY <1>2, <1>4, <1>8
  <2>2. \A e \in v : e.sid \in Nat /\ e.sid <= Max(S)
    BY <1>2, <1>4, <1>5, <1>8
  <2> QED BY <1>6, <1>8, <2>1, <2>2
<1> QED BY <1>7, <1>8

\* What a save leaves: the rows that were there, and new ones.
LEMMA StoredRows ==
  ASSUME NEW v \in SUBSET Rows, NEW r \in Records, NEW fresh \in SUBSET Records,
         NEW a \in Arguments, NEW table \in Stored(fresh, r, v, a),
         \A d \in table : d.sid <= MaxSid
  PROVE  /\ table \in SUBSET Rows
         /\ Keeps(v, table)
         /\ Unique(v) => Unique(table)
         /\ \A d \in table : Added(d, v, a) \/ \E e \in v : Same(e, d)
<1>1. PICK f \in Numberings(fresh, NextSid(v)) :
        table = Promoted(r, v) \cup {Insert(x, f[x], r, a) : x \in fresh}
  BY DEF Stored
<1>2. /\ f \in [fresh -> NextSid(v)..(NextSid(v) + Cardinality(fresh) - 1)]
      /\ \A x, y \in fresh : f[x] = f[y] => x = y
  BY DEF Numberings, Injection, IsInjective
<1>3. \A x \in fresh : f[x] >= NextSid(v) /\ f[x] \in Int
  BY <1>2, NextSidIsNew
<1>4. \A d \in Promoted(r, v) : d \in Rows /\ \E e \in v : Same(e, d)
  BY DEF Promoted, Rows, Same
<1>5. \A e \in v : \E d \in Promoted(r, v) : Same(e, d)
  <2> TAKE e \in v
  <2> DEFINE d == IF Key[e.rec] = Key[r] THEN [e EXCEPT !.role = 1] ELSE e
  <2>1. d \in Promoted(r, v)
    BY DEF Promoted
  <2>2. Same(e, d)
    BY DEF Same, Rows
  <2> QED BY <2>1, <2>2
<1>6. ASSUME NEW x \in fresh
      PROVE  /\ Insert(x, f[x], r, a).sid = f[x]
             /\ f[x] \in 1..MaxSid => Insert(x, f[x], r, a) \in Rows
             /\ Added(Insert(x, f[x], r, a), v, a)
  <2>1. f[x] \in Int /\ \A e \in v : e.sid < f[x]
    BY <1>3, NextSidIsNew DEF Rows
  <2>2. Insert(x, f[x], r, a).sid = f[x]
    BY DEF Insert, Row
  <2>3. f[x] \in 1..MaxSid => Insert(x, f[x], r, a) \in Rows
    BY DEF Insert, Row, Rows, Arguments
  <2>4. Added(Insert(x, f[x], r, a), v, a)
    BY <2>1, <2>2 DEF Added, Insert, Row
  <2> QED BY <2>2, <2>3, <2>4
<1>7. \A x \in fresh : f[x] \in 1..MaxSid
  <2> TAKE x \in fresh
  <2>1. Insert(x, f[x], r, a) \in table
    BY <1>1
  <2>2. f[x] <= MaxSid
    BY <1>6, <2>1
  <2>3. f[x] >= 1
    BY <1>3, NextSidIsNew
  <2> QED BY <1>3, <2>2, <2>3, IdentityAssumption
<1>8. table \in SUBSET Rows /\ Keeps(v, table)
  BY <1>1, <1>4, <1>5, <1>6, <1>7 DEF Keeps
<1>9. ASSUME Unique(v)
      PROVE  Unique(table)
  <2> SUFFICES ASSUME NEW d \in table, NEW e \in table, d.sid = e.sid
               PROVE  d = e
    BY DEF Unique
  <2>1. CASE d \in Promoted(r, v) /\ e \in Promoted(r, v)
    BY <1>9, <2>1 DEF Promoted, Unique, Rows
  <2>2. ASSUME NEW x \in Promoted(r, v), NEW y \in fresh
        PROVE  x.sid < Insert(y, f[y], r, a).sid
    BY <1>4, <1>6 DEF Added, Same
  <2>3. CASE \E x, y \in fresh : d = Insert(x, f[x], r, a) /\ e = Insert(y, f[y], r, a)
    BY <1>2, <1>6, <2>3
  <2>4. \A x \in table : x.sid \in Int
    BY <1>8 DEF Rows
  <2> QED BY <1>1, <2>1, <2>2, <2>3, <2>4
<1> QED BY <1>1, <1>4, <1>6, <1>8, <1>9

Origin(v, table, a) == \A d \in table : Added(d, v, a) \/ \E e \in v : Same(e, d)

LEMMA TableKept ==
  ASSUME NEW v \in SUBSET Rows, NEW table \in SUBSET Rows, NEW a \in Arguments,
         Table(v), Keeps(v, table), Unique(table), Origin(v, table, a),
         a.pred # None /\ a.pred[2] =>
           a.lid # None /\ \E e \in v : e.lid = a.lid /\ Key[e.rec] = Key[a.pred[1]],
         \A e \in v : e.unit[1] = a.unit[1] => e.ts <= a.ts /\ (e.unit = a.unit => e.ts = a.ts)
  PROVE  Table(table)
<1>1. Lineage(table)
  <2> SUFFICES ASSUME NEW d \in table, d.pred # None /\ d.pred[2]
               PROVE  \E e \in table : e.sid < d.sid /\ e.lid = d.lid /\ Key[e.rec] = Key[d.pred[1]]
    BY DEF Lineage
  <2>1. PICK e \in v : e.sid < d.sid /\ e.lid = d.lid /\ Key[e.rec] = Key[d.pred[1]]
    <3>1. CASE Added(d, v, a)
      <4>1. d.pred = a.pred /\ (a.lid # None => d.lid = a.lid)
        BY <3>1 DEF Added
      <4>2. PICK e \in v : e.lid = a.lid /\ Key[e.rec] = Key[a.pred[1]]
        BY <4>1
      <4>3. e.sid < d.sid
        BY <3>1 DEF Added
      <4> QED BY <4>1, <4>2, <4>3
    <3>2. CASE \E c \in v : Same(c, d)
      BY <3>2 DEF Table, Lineage, Same
    <3> QED BY <3>1, <3>2 DEF Origin
  <2>2. PICK c \in table : Same(e, c)
    BY DEF Keeps
  <2> QED BY <2>1, <2>2 DEF Same
<1>2. Ordered(table)
  <2> SUFFICES ASSUME NEW d \in table, NEW e \in table, d.unit[1] = e.unit[1]
               PROVE  /\ d.unit = e.unit => d.ts = e.ts
                      /\ d.sid < e.sid => d.ts <= e.ts
    BY DEF Ordered
  <2>1. d.sid \in Int /\ e.sid \in Int /\ d.ts \in Int /\ e.ts \in Int /\ a.ts \in Int
    BY DEF Rows, Arguments
  <2>2. CASE Added(d, v, a) /\ Added(e, v, a)
    BY <2>1, <2>2 DEF Added
  <2>3. CASE (\E c \in v : Same(c, d)) /\ Added(e, v, a)
    BY <2>1, <2>3 DEF Added, Same
  <2>4. CASE Added(d, v, a) /\ \E c \in v : Same(c, e)
    <3>1. PICK c \in v : Same(c, e)
      BY <2>4
    <3>2. c.sid < d.sid /\ c.sid = e.sid
      BY <2>4, <3>1 DEF Added, Same
    <3>3. d.unit = e.unit => d.ts = e.ts
      BY <2>4, <3>1 DEF Added, Same
    <3> QED BY <2>1, <3>2, <3>3
  <2>5. CASE (\E c \in v : Same(c, d)) /\ \E c \in v : Same(c, e)
    <3>1. PICK b \in v : Same(b, d)
      BY <2>5
    <3>2. PICK c \in v : Same(c, e)
      BY <2>5
    <3> QED BY <3>1, <3>2 DEF Table, Ordered, Same
  <2> QED BY <2>2, <2>3, <2>4, <2>5 DEF Origin
<1> QED BY <1>1, <1>2 DEF Table

LEMMA KeepsTransitive ==
  ASSUME NEW u, NEW v, NEW w, Keeps(u, v), Keeps(v, w)
  PROVE  Keeps(u, w)
BY DEF Keeps, Same

LEMMA ViewIsTable ==
  ASSUME TypeOK, Tables, NEW s \in Stores
  PROVE  View(s) \in SUBSET Rows /\ Table(View(s)) /\ Keeps(rows, View(s))
BY SameIsReflexive, NoneAssumption DEF View, TypeOK, Tables, Pending

----------------------------------------------------------------------------
(* SaveTop *)

Given(s, lid, pred, ts) ==
  [lid |-> lid, ts |-> ts,
   unit |-> <<s, IF mode[s] = "idle" THEN unit[s] + 1 ELSE unit[s]>>, pred |-> pred]

\* What a save that succeeds leaves.
Result(s, r, lid, pred, ts, table) ==
  /\ Saved(s, r, table, ts)
  /\ table # View(s) => Held(s) = None
  /\ Keeps(View(s), table) /\ Unique(table)
  /\ Origin(View(s), table, Given(s, lid, pred, ts))

\* A captured timestamp is not behind the mark, and is the pinned one.
LEMMA CapturedTime ==
  ASSUME TypeOK, Tables, NEW s \in Stores, NEW ts \in Captured(s)
  PROVE  ts \in 1..MaxClock /\ ts >= mark[s] /\ (pinned[s] # Never => ts = pinned[s])
BY IdentityAssumption DEF Captured, MayCapture, TypeOK, Tables, Marked, Never

LEMMA SaveTopResult ==
  ASSUME TypeOK, Tables, NEW s \in Stores, NEW r \in Records,
         NEW lid \in (1..MaxSid) \cup {None}, NEW pred \in (Records \X BOOLEAN) \cup {None},
         SaveTop(s, r, lid, pred)
  PROVE  \E ts \in Captured(s) :
           \/ SaveFails(s, ts)
           \/ \E table \in SUBSET Rows : Result(s, r, lid, pred, ts, table)
<1> DEFINE reached == Reached(r, View(s))
           fresh == {x \in reached : Of(x, View(s)) = {}}
           Tabs(ts) == IF Refused(reached, r, View(s), lid) THEN {}
                       ELSE Stored(fresh, r, View(s), Given(s, lid, pred, ts))
<1>1. PICK ts \in Captured(s) :
        IF Tabs(ts) = {} THEN SaveFails(s, ts)
        ELSE \E table \in Tabs(ts) :
               /\ \A d \in table : d.sid <= MaxSid
               /\ IF table # View(s) => Held(s) = None
                  THEN Saved(s, r, table, ts) ELSE SaveFails(s, ts)
  BY Zenon DEF SaveTop, Given
<1>2. CASE SaveFails(s, ts)
  BY <1>2
<1>3. CASE ~SaveFails(s, ts)
  <2>1. PICK table \in Stored(fresh, r, View(s), Given(s, lid, pred, ts)) :
          /\ \A d \in table : d.sid <= MaxSid
          /\ table # View(s) => Held(s) = None
          /\ Saved(s, r, table, ts)
    <3> HIDE DEF fresh, reached
    <3> QED BY <1>1, <1>3
  <2>2. fresh \in SUBSET Records
    <3>1. reached \in SUBSET Records
      BY DEF Reached, Below
    <3> HIDE DEF reached
    <3> QED BY <3>1
  <2>3. Given(s, lid, pred, ts) \in Arguments
    BY CapturedTime DEF Given, Arguments, TypeOK
  <2> HIDE DEF fresh, reached
  <2>4. View(s) \in SUBSET Rows /\ Table(View(s))
    BY ViewIsTable
  <2>5. /\ table \in SUBSET Rows
        /\ Keeps(View(s), table)
        /\ Unique(View(s)) => Unique(table)
        /\ Origin(View(s), table, Given(s, lid, pred, ts))
    <3>1. \A d \in table : d.sid <= MaxSid
      BY <2>1
    <3> DEFINE a == Given(s, lid, pred, ts)
               v == View(s)
    <3>2. a \in Arguments /\ v \in SUBSET Rows /\ table \in Stored(fresh, r, v, a)
      BY <2>1, <2>3, <2>4
    <3> HIDE DEF a, v
    <3>3. /\ table \in SUBSET Rows
          /\ Keeps(v, table)
          /\ Unique(v) => Unique(table)
          /\ \A d \in table : Added(d, v, a) \/ \E e \in v : Same(e, d)
      BY <2>2, <3>1, <3>2, StoredRows
    <3> QED BY <3>3 DEF Origin, a, v
  <2> QED BY <2>1, <2>4, <2>5 DEF Result, Table
<1> QED BY <1>2, <1>3

\* A row that replaces an object goes into the lineage of that object's row.
Inherits(s, lid, pred) ==
  pred # None /\ pred[2] =>
    lid # None /\ \E e \in View(s) : e.lid = lid /\ Key[e.rec] = Key[pred[1]]

LEMMA HeldIsShown ==
  ASSUME Inv, NEW s \in Stores, hand[s] # None, Live(hand[s]),
         NEW sid \in SidOf(s, hand[s]), NEW d \in At(sid, View(s))
  PROVE  Key[d.rec] = Key[hand[s].rec]
<1>1. hand[s] \in Objects /\ Keeps(rows, View(s)) /\ Unique(View(s))
  BY ViewIsTable DEF Inv, TypeOK, Table
<1>2. d \in View(s) /\ d.sid = sid
  BY DEF At
<1>3. \A rec : Shows(View(s), sid, rec) => d.rec = rec
  BY <1>1, <1>2 DEF Shows, Unique
<1>4. CASE hand[s].lazy
  <2>1. sid = hand[s].sid
    BY <1>4 DEF SidOf
  <2>2. LazySound(s, hand[s]) /\ hand[s].fate \in {"none", "running"}
    BY <1>1, <1>4 DEF Inv, Caches, StoreSound, HeldSound, Live, LiveToken, Objects, Fates
  <2>3. Shows(rows, sid, hand[s].rec) => Shows(View(s), sid, hand[s].rec)
    BY <1>1 DEF Shows, Keeps, Same
  <2> QED BY <1>3, <2>1, <2>2, <2>3 DEF LazySound
<1>5. CASE ~hand[s].lazy
  <2>1. CASE \E p \in sids[s] : p[1] = hand[s].rec /\ p[2] = sid
    BY <1>3, <2>1 DEF Inv, Caches, StoreSound
  <2>2. CASE \E e \in Of(hand[s].rec, View(s)) : e.sid = sid
    BY <1>1, <1>2, <2>2 DEF Of, Unique
  <2> QED BY <1>5, <2>1, <2>2 DEF SidOf
<1> QED BY <1>4, <1>5

LEMMA SaveRequest ==
  ASSUME Inv, NEW s \in Stores, NEW r \in Records, Save(s, r) \/ Replace(s, r)
  PROVE  \E lid \in (1..MaxSid) \cup {None}, pred \in (Records \X BOOLEAN) \cup {None} :
           SaveTop(s, r, lid, pred) /\ Inherits(s, lid, pred)
<1>1. CASE Save(s, r)
  BY <1>1 DEF Save, Inherits
<1>2. CASE Replace(s, r)
  <2>1. PICK sid \in SidOf(s, hand[s]) : \E d \in At(sid, View(s)) :
          SaveTop(s, r, d.lid, <<hand[s].rec, Live(hand[s])>>)
    BY <1>2 DEF Replace
  <2>2. PICK d \in At(sid, View(s)) : SaveTop(s, r, d.lid, <<hand[s].rec, Live(hand[s])>>)
    BY <2>1
  <2>3. hand[s] # None /\ hand[s] \in Objects
    BY <1>2 DEF Replace, Inv, TypeOK
  <2>4. d \in View(s) /\ d.lid \in 1..MaxSid
    BY ViewIsTable DEF At, Inv, Rows
  <2>5. d.lid # None
    BY <2>4, NoneAssumption
  <2>6. <<hand[s].rec, Live(hand[s])>> \in Records \X BOOLEAN
    BY <2>3 DEF Objects, Live, LiveToken
  <2>7. Live(hand[s]) => Key[d.rec] = Key[hand[s].rec]
    BY <2>3, HeldIsShown
  <2>8. Inherits(s, d.lid, <<hand[s].rec, Live(hand[s])>>)
    BY <2>4, <2>5, <2>7 DEF Inherits
  <2> QED BY <2>2, <2>4, <2>6, <2>8
<1> QED BY <1>1, <1>2

LEMMA SavedTypes ==
  ASSUME TypeOK, Tables, NEW s \in Stores, NEW r \in Records, NEW ts \in 1..MaxClock,
         NEW table \in SUBSET Rows, Saved(s, r, table, ts)
  PROVE  TypeOK'
<1> DEFINE pairs == Touched(r, View(s), table)
<1>1. pairs \in SUBSET (Records \X (1..MaxSid))
  BY DEF Touched, Of, Rows
<1>2. Remember(s, pairs)
  BY DEF Saved
<1>3. \A x \in Records : Record(x) \in Objects
  BY IdentityAssumption DEF Record, Objects, Fates
<1> HIDE DEF pairs
<1>4. sids' \in [Stores -> SUBSET (Records \X (1..MaxSid))]
  BY <1>1, <1>2 DEF Remember, TypeOK
<1>5. inst' \in [Stores -> SUBSET ((1..MaxSid) \X Objects)]
  BY <1>1, <1>2, <1>3 DEF Remember, TypeOK
<1>6. hand' \in [Stores -> Objects \cup {None}]
  BY <1>3 DEF Saved, TypeOK
<1>7. rows' \in SUBSET Rows /\ work' \in SUBSET Rows /\ writer' \in Stores \cup {None}
  BY DEF Saved, Ended, Held, TypeOK
<1>8. /\ mode' \in [Stores -> {"idle", "transaction"}] /\ unit' \in [Stores -> Nat]
      /\ pinned' \in [Stores -> 0..MaxClock] /\ mark' \in [Stores -> 0..MaxClock]
  BY IdentityAssumption DEF Saved, Ended, Advanced, Never, TypeOK
<1> QED BY <1>4, <1>5, <1>6, <1>7, <1>8 DEF TypeOK

\* The table a save leaves is a sound one.
LEMMA SavedTable ==
  ASSUME TypeOK, Tables, NEW s \in Stores, NEW r \in Records, NEW ts \in Captured(s),
         NEW lid \in (1..MaxSid) \cup {None}, NEW pred \in (Records \X BOOLEAN) \cup {None},
         Inherits(s, lid, pred),
         NEW table \in SUBSET Rows, Result(s, r, lid, pred, ts, table)
  PROVE  Table(table)
<1> DEFINE a == Given(s, lid, pred, ts)
           v == View(s)
<1>1. ts \in 1..MaxClock /\ ts >= mark[s] /\ (pinned[s] # Never => ts = pinned[s])
  BY CapturedTime
<1>2. /\ a \in Arguments /\ a.lid = lid /\ a.pred = pred /\ a.ts = ts
      /\ a.unit = <<s, IF mode[s] = "idle" THEN unit[s] + 1 ELSE unit[s]>>
  BY <1>1 DEF Given, Arguments, TypeOK
<1>3. v \in SUBSET Rows /\ Table(v)
  BY ViewIsTable
<1>4. ASSUME NEW e \in v, e.unit[1] = a.unit[1]
      PROVE  e.ts <= a.ts /\ (e.unit = a.unit => e.ts = a.ts)
  <2>1. e.unit[1] = s /\ e.ts \in 1..MaxClock /\ mark[s] \in 0..MaxClock
    BY <1>2, <1>3, <1>4 DEF Rows, TypeOK
  <2>2. ASSUME NEW d \in rows, Same(d, e)
        PROVE  e.ts <= a.ts /\ e.unit # a.unit
    <3>1. Before(d) /\ d.unit[1] = s /\ d.ts = e.ts /\ d.unit = e.unit
      BY <2>1, <2>2 DEF Tables, Marked, Same
    <3>2. unit[s] \in Nat /\ d.unit[2] \in Nat
      BY DEF TypeOK, Rows
    <3>3. d.ts <= mark[s] /\ d.unit[2] <= unit[s] /\ (mode[s] = "transaction" => d.unit[2] < unit[s])
      BY <3>1 DEF Before
    <3>4. mode[s] \in {"idle", "transaction"} /\ mark[s] \in Int
      BY IdentityAssumption DEF TypeOK
    <3>5. e.ts <= a.ts
      BY <1>1, <1>2, <2>1, <3>1, <3>3, <3>4, IdentityAssumption
    <3>6. a.unit[2] # d.unit[2]
      BY <1>2, <3>2, <3>3, <3>4
    <3> QED BY <3>1, <3>5, <3>6
  <2>3. CASE e \in rows
    BY <2>2, <2>3 DEF Same
  <2>4. CASE writer = s /\ e \in work /\ Uncommitted(s, e)
    <3>1. e.ts = pinned[s] /\ e.ts # Never
      BY <2>1, <2>4, IdentityAssumption DEF Uncommitted, Never
    <3> QED BY <1>1, <1>2, <2>1, <3>1
  <2>5. writer = s /\ e \in work /\ ~Uncommitted(s, e) => \E d \in rows : Same(d, e)
    BY NoneAssumption DEF Tables, Pending
  <2> QED BY <2>2, <2>3, <2>4, <2>5 DEF View
<1>5. Keeps(v, table) /\ Unique(table) /\ Origin(v, table, a)
  BY DEF Result
<1>6. a.pred # None /\ a.pred[2] =>
        a.lid # None /\ \E e \in v : e.lid = a.lid /\ Key[e.rec] = Key[a.pred[1]]
  BY <1>2 DEF Inherits
<1> HIDE DEF a, v
<1> QED BY <1>2, <1>3, <1>4, <1>5, <1>6, TableKept

LEMMA SavedTables ==
  ASSUME TypeOK, Tables, NEW s \in Stores, NEW r \in Records, NEW ts \in Captured(s),
         NEW lid \in (1..MaxSid) \cup {None}, NEW pred \in (Records \X BOOLEAN) \cup {None},
         Inherits(s, lid, pred),
         NEW table \in SUBSET Rows, Result(s, r, lid, pred, ts, table)
  PROVE  Tables'
<1> DEFINE a == Given(s, lid, pred, ts)
           v == View(s)
<1>1. ts \in 1..MaxClock /\ ts >= mark[s] /\ (pinned[s] # Never => ts = pinned[s])
  BY CapturedTime
<1>2. a.ts = ts /\ a.unit = <<s, IF mode[s] = "idle" THEN unit[s] + 1 ELSE unit[s]>>
  BY DEF Given
<1>3. /\ Table(table)
      /\ Keeps(rows, v) /\ Keeps(v, table) /\ Keeps(rows, table)
      /\ Origin(v, table, a)
      /\ table # v => Held(s) = None
  BY SavedTable, ViewIsTable, KeepsTransitive DEF Result
<1>4. Saved(s, r, table, ts)
  BY DEF Result
<1>5. /\ mode \in [Stores -> {"idle", "transaction"}] /\ unit \in [Stores -> Nat]
      /\ pinned \in [Stores -> 0..MaxClock] /\ mark \in [Stores -> 0..MaxClock]
      /\ rows \in SUBSET Rows /\ work \in SUBSET Rows /\ MaxClock \in Nat /\ None \notin Stores
  BY IdentityAssumption, NoneAssumption DEF TypeOK
<1> HIDE DEF a
<1>6. CASE mode[s] = "transaction"
  <2>1. /\ pinned' = [pinned EXCEPT ![s] = ts]
        /\ writer' = IF table # v THEN s ELSE writer
        /\ work' = IF table # v THEN table ELSE work
        /\ rows' = rows /\ mode' = mode /\ unit' = unit /\ mark' = mark
    BY <1>4, <1>6 DEF Saved
  <2>2. Locked'
    BY <1>5, <1>6, <2>1 DEF Locked, Tables, Never
  <2>3. Marked'
    BY <1>1, <1>5, <2>1 DEF Marked, Tables, Before
  <2>4. Table(rows)' /\ (writer' # None => Table(work)')
    BY <1>3, <2>1 DEF Table, Unique, Lineage, Ordered, Tables
  <2>5. ASSUME NEW d \in work, writer = s
        PROVE  Uncommitted(s, d)' \/ \E e \in rows' : Same(e, d)
    <3>1. CASE Uncommitted(s, d)
      <4>1. d.ts # Never
        BY <1>5 DEF Rows, Never
      <4> QED BY <1>1, <1>5, <2>1, <3>1, <4>1 DEF Uncommitted
    <3>2. CASE ~Uncommitted(s, d)
      BY <1>5, <2>1, <2>5, <3>2 DEF Tables, Pending
    <3> QED BY <3>1, <3>2
  <2>6. Pending'
    <3>1. CASE table = v
      <4>1. writer' = writer /\ work' = work /\ rows' = rows
        BY <2>1, <3>1
      <4>2. writer # None => Keeps(rows, work)
        BY DEF Tables, Pending
      <4>3. ASSUME writer # None, writer # s, NEW d \in work
            PROVE  Uncommitted(writer, d)' \/ \E e \in rows' : Same(e, d)
        <5>1. Uncommitted(writer, d) => Uncommitted(writer, d)'
          BY <2>1, <4>1, <4>3, <1>5 DEF Uncommitted, TypeOK
        <5> QED BY <2>1, <4>3, <5>1 DEF Tables, Pending
      <4> QED BY <2>5, <4>1, <4>2, <4>3 DEF Pending, Keeps
    <3>2. CASE table # v
      <4>1. writer' = s /\ work' = table /\ rows' = rows
        BY <2>1, <3>2
      <4>2. writer = s \/ writer = None
        BY <1>3, <3>2 DEF Held
      <4>3. ASSUME NEW d \in table
            PROVE  Uncommitted(s, d)' \/ \E e \in rows' : Same(e, d)
        <5>1. CASE Added(d, v, a)
          <6>1. d.unit = <<s, unit[s]>> /\ d.ts = ts
            BY <1>2, <1>6, <5>1 DEF Added
          <6> QED BY <1>5, <2>1, <6>1 DEF Uncommitted
        <5>2. ASSUME NEW e \in v, Same(e, d)
              PROVE  Uncommitted(s, d)' \/ \E c \in rows' : Same(c, d)
          <6>1. CASE writer = s
            <7>1. e \in work
              BY <6>1 DEF View
            <7>2. CASE Uncommitted(s, e)'
              BY <5>2, <7>2 DEF Uncommitted, Same
            <7>3. CASE \E c \in rows' : Same(c, e)
              BY <5>2, <7>3 DEF Same
            <7> QED BY <2>5, <6>1, <7>1, <7>2, <7>3
          <6>2. CASE writer # s
            BY <4>1, <5>2, <6>2 DEF View
          <6> QED BY <6>1, <6>2
        <5> QED BY <1>3, <5>1, <5>2 DEF Origin
      <4> QED BY <1>3, <4>1, <4>3 DEF Pending, Keeps
    <3> QED BY <3>1, <3>2
  <2> QED BY <2>2, <2>3, <2>4, <2>6 DEF Tables
<1>7. CASE mode[s] # "transaction"
  <2>1. mode[s] = "idle" /\ writer # s
    BY <1>5, <1>7 DEF Tables, Locked
  <2>2. v = rows /\ Held(s) = writer
    BY <2>1 DEF View, Held
  <2>3. /\ rows' = table /\ writer' = writer /\ work' = work
        /\ mode' = [mode EXCEPT ![s] = "idle"] /\ unit' = [unit EXCEPT ![s] = @ + 1]
        /\ pinned' = [pinned EXCEPT ![s] = Never] /\ mark' = [mark EXCEPT ![s] = Advanced(s, ts)]
    BY <1>4, <1>7, <2>1, <2>2 DEF Saved, Ended
  <2>4. mark'[s] = ts /\ mode' = mode
    BY <1>1, <1>5, <2>1, <2>3 DEF Advanced
  <2>5. Locked'
    BY <1>5, <2>1, <2>3, <2>4 DEF Locked, Tables
  <2>6. Table(rows)' /\ (writer' # None => Table(work)')
    BY <1>3, <2>3 DEF Table, Unique, Lineage, Ordered, Tables
  <2>7. Pending'
    <3> SUFFICES ASSUME writer # None
                 PROVE  Pending'
      BY <2>3 DEF Pending
    <3>1. rows' = rows
      BY <1>3, <2>2, <2>3
    <3>2. \A d \in work : Uncommitted(writer, d) => Uncommitted(writer, d)'
      BY <1>5, <2>1, <2>3 DEF Uncommitted, TypeOK
    <3> QED BY <2>3, <3>1, <3>2 DEF Tables, Pending, Keeps
  <2>8. ASSUME NEW d \in table
        PROVE  Before(d)'
    <3>1. CASE Added(d, v, a)
      <4>1. d.unit = <<s, unit[s] + 1>> /\ d.ts = ts
        BY <1>2, <2>1, <3>1 DEF Added
      <4> QED BY <1>1, <1>5, <2>1, <2>3, <2>4, <4>1 DEF Before
    <3>2. ASSUME NEW e \in rows, Same(e, d)
          PROVE  Before(d)'
      <4>1. Before(e) /\ e.ts = d.ts /\ e.unit = d.unit
        BY <3>2 DEF Tables, Marked, Same
      <4>2. e.unit \in Stores \X Nat /\ e.ts \in Int
        BY <1>5 DEF Rows
      <4>3. CASE e.unit[1] = s
        BY <1>1, <1>5, <2>1, <2>3, <2>4, <4>1, <4>2, <4>3 DEF Before
      <4>4. CASE e.unit[1] # s
        BY <1>5, <2>3, <2>4, <4>1, <4>2, <4>4 DEF Before
      <4> QED BY <4>3, <4>4
    <3> QED BY <1>3, <2>2, <3>1, <3>2 DEF Origin
  <2>9. Marked'
    BY <1>5, <2>3, <2>8 DEF Marked, Tables
  <2> QED BY <2>5, <2>6, <2>7, <2>9 DEF Tables
<1> QED BY <1>6, <1>7

----------------------------------------------------------------------------
(* What a store has cached stays sound as long as its table keeps its rows. *)

LEMMA LazyKept ==
  ASSUME NEW s \in Stores, NEW x, LazySound(s, x),
         Keeps(rows, rows'), Keeps(View(s), View(s)'), mode[s] = "transaction" => mode'[s] = "transaction"
  PROVE  LazySound(s, x)'
BY DEF LazySound, Shows, Keeps, Same

LEMMA CachedKept ==
  ASSUME NEW s \in Stores, NEW p, CachedSound(s, p),
         Keeps(rows, rows'), Keeps(View(s), View(s)'), mode[s] = "transaction" => mode'[s] = "transaction"
  PROVE  CachedSound(s, p)'
<1>1. Shows(View(s), p[1], p[2].rec)' /\ (p[2].kids # None => p[2].kids = p[2].rec)
  BY DEF CachedSound, Shows, Keeps, Same
<1>2. p[2].lazy => p[2].sid = p[1] /\ LazySound(s, p[2])'
  BY LazyKept DEF CachedSound
<1> QED BY <1>1, <1>2 DEF CachedSound

\* What a step of one store means for the others.
Apart(s) ==
  \A t \in Stores \ {s} :
    /\ Keeps(View(t), View(t)')
    /\ mode[t] = "transaction" => mode'[t] = "transaction"
    /\ inst'[t] = inst[t] /\ sids'[t] = sids[t] /\ hand'[t] = hand[t]

LEMMA OthersKept ==
  ASSUME Caches, NEW s \in Stores, Apart(s), Keeps(rows, rows'), StoreSound(s)'
  PROVE  Caches'
<1> SUFFICES ASSUME NEW t \in Stores, t # s
             PROVE  StoreSound(t)'
  BY DEF Caches
<1>1. /\ Keeps(View(t), View(t)')
      /\ mode[t] = "transaction" => mode'[t] = "transaction"
    /\ inst'[t] = inst[t] /\ sids'[t] = sids[t] /\ hand'[t] = hand[t]
  BY DEF Apart
<1>2. StoreSound(t)
  BY DEF Caches
<1>3. \A p \in inst'[t] : CachedSound(t, p)'
  BY <1>1, <1>2, CachedKept DEF StoreSound
<1>4. \A q \in sids'[t] : Shows(View(t), q[2], q[1])'
  BY <1>1, <1>2 DEF StoreSound, Shows, Keeps, Same
<1>5. HeldSound(t, hand[t])'
  BY <1>1, <1>2, LazyKept DEF StoreSound, HeldSound
<1> QED BY <1>3, <1>4, <1>5 DEF StoreSound

LEMMA SavedCaches ==
  ASSUME Inv, NEW s \in Stores, NEW r \in Records, NEW ts \in Captured(s),
         NEW lid \in (1..MaxSid) \cup {None}, NEW pred \in (Records \X BOOLEAN) \cup {None},
         NEW table \in SUBSET Rows, Result(s, r, lid, pred, ts, table)
  PROVE  Caches'
<1> DEFINE pairs == Touched(r, View(s), table)
<1>1. /\ Saved(s, r, table, ts) /\ Remember(s, pairs)
      /\ Keeps(View(s), table) /\ Keeps(rows, View(s)) /\ Keeps(rows, table)
      /\ table # View(s) => Held(s) = None
  BY ViewIsTable, KeepsTransitive DEF Inv, Result, Saved
<1>2. /\ mode \in [Stores -> {"idle", "transaction"}] /\ None \notin Stores
      /\ inst \in [Stores -> SUBSET ((1..MaxSid) \X Objects)]
      /\ sids \in [Stores -> SUBSET (Records \X (1..MaxSid))]
      /\ hand \in [Stores -> Objects \cup {None}]
  BY NoneAssumption DEF Inv, TypeOK
<1>3. writer = s => mode[s] = "transaction"
  BY <1>2 DEF Inv, Tables, Locked
<1>4. mode' = mode
  BY <1>1, <1>2 DEF Saved, Ended
<1>5. View(s)' = table
  BY <1>1, <1>2, <1>3 DEF Saved, Ended, Held, View
<1>6. rows' = rows \/ rows' = table
  BY <1>1 DEF Saved
<1>7. Keeps(rows, rows')
  BY <1>1, <1>6, SameIsReflexive
<1>8. ASSUME NEW t \in Stores \ {s}
      PROVE  Keeps(View(t), View(t)')
  <2>1. CASE writer = t
    <3>1. table = View(s)
      BY <1>1, <1>2, <2>1 DEF Held
    <3>2. writer' = writer /\ work' = work
      BY <1>1, <2>1, <3>1 DEF Saved, Ended, Held
    <3> QED BY <2>1, <3>2, SameIsReflexive DEF View
  <2>2. CASE writer # t
    <3>1. writer' # t
      BY <1>1, <1>2, <2>2 DEF Saved, Ended, Held
    <3> QED BY <1>7, <2>2, <3>1 DEF View
  <2> QED BY <2>1, <2>2
<1>9. Apart(s)
  BY <1>1, <1>2, <1>4, <1>8 DEF Apart, Saved, Remember
<1>10. \A q \in pairs : Shows(table, q[2], q[1])
  BY DEF Touched, Of, Shows
<1>11. StoreSound(s)
  BY DEF Inv, Caches
<1> HIDE DEF pairs
<1>12. \A p \in inst'[s] : CachedSound(s, p)'
  <2> SUFFICES ASSUME NEW p \in inst'[s]
               PROVE  CachedSound(s, p)'
    OBVIOUS
  <2>1. inst'[s] = {x \in inst[s] : \A q \in pairs : q[2] # x[1]}
                     \cup {<<q[2], Record(q[1])>> : q \in pairs}
    BY <1>1, <1>2 DEF Remember
  <2>2. CASE p \in inst[s]
    BY <1>1, <1>4, <1>5, <1>7, <1>11, <2>2, CachedKept DEF StoreSound
  <2>3. CASE \E q \in pairs : p = <<q[2], Record(q[1])>>
    BY <1>5, <1>10, <2>3 DEF CachedSound, Record
  <2> QED BY <2>1, <2>2, <2>3
<1>13. \A q \in sids'[s] : Shows(View(s), q[2], q[1])'
  <2>1. sids'[s] \subseteq sids[s] \cup pairs
    BY <1>1, <1>2 DEF Remember
  <2>2. \A q \in sids[s] : Shows(table, q[2], q[1])
    BY <1>1, <1>11 DEF StoreSound, Shows, Keeps, Same
  <2> QED BY <1>5, <1>10, <2>1, <2>2
<1>14. HeldSound(s, hand[s])'
  <2>1. hand'[s] = Record(r) \/ hand'[s] = hand[s]
    BY <1>1, <1>2 DEF Saved
  <2>2. CASE hand'[s] = Record(r)
    BY <2>2 DEF HeldSound, Record
  <2>3. CASE hand'[s] = hand[s]
    BY <1>1, <1>4, <1>5, <1>7, <1>11, <2>3, LazyKept DEF StoreSound, HeldSound
  <2> QED BY <2>1, <2>2, <2>3
<1>15. StoreSound(s)'
  BY <1>12, <1>13, <1>14 DEF StoreSound
<1> QED BY <1>7, <1>9, <1>15, OthersKept DEF Inv

LEMMA SaveFailsKeeps ==
  ASSUME Inv, NEW s \in Stores, NEW ts \in Captured(s), SaveFails(s, ts)
  PROVE  Inv'
<1>1. ts \in 1..MaxClock /\ ts >= mark[s] /\ (pinned[s] # Never => ts = pinned[s])
  BY CapturedTime DEF Inv
<1>2. /\ mode \in [Stores -> {"idle", "transaction"}] /\ pinned \in [Stores -> 0..MaxClock]
      /\ rows \in SUBSET Rows /\ work \in SUBSET Rows /\ None \notin Stores /\ MaxClock \in Nat
      /\ inst \in [Stores -> SUBSET ((1..MaxSid) \X Objects)]
      /\ sids \in [Stores -> SUBSET (Records \X (1..MaxSid))]
  BY IdentityAssumption, NoneAssumption DEF Inv, TypeOK
<1>3. /\ rows' = rows /\ writer' = writer /\ work' = work /\ mode' = mode /\ unit' = unit
      /\ mark' = mark /\ hand' = hand
      /\ pinned' = IF mode[s] = "transaction" THEN [pinned EXCEPT ![s] = ts] ELSE pinned
      /\ sids' = sids \/ sids' = [sids EXCEPT ![s] = {}]
      /\ inst' = inst \/ inst' = [inst EXCEPT ![s] = {}]
  BY DEF SaveFails, ClearIdentityCaches
<1>4. TypeOK'
  BY <1>1, <1>2, <1>3 DEF TypeOK, Inv
<1>5. Locked' /\ Marked'
  BY <1>1, <1>2, <1>3 DEF Inv, Tables, Locked, Marked, Before, Never
<1>6. Table(rows)' /\ (writer' # None => Table(work)')
  BY <1>3 DEF Inv, Tables, Table, Unique, Lineage, Ordered
<1>7. \A d \in work : writer # None /\ Uncommitted(writer, d) => Uncommitted(writer, d)'
  <2> SUFFICES ASSUME NEW d \in work, writer # None, Uncommitted(writer, d)
               PROVE  Uncommitted(writer, d)'
    OBVIOUS
  <2>1. d.ts # Never
    BY <1>2 DEF Rows, Never
  <2> QED BY <1>1, <1>2, <1>3, <2>1 DEF Uncommitted, Inv, TypeOK
<1>8. Pending'
  BY <1>3, <1>7 DEF Inv, Tables, Pending, Keeps
<1>9. Keeps(rows, rows') /\ \A t \in Stores : Keeps(View(t), View(t)')
  BY <1>3, SameIsReflexive DEF View
<1>10. Apart(s)
  BY <1>2, <1>3, <1>9 DEF Apart
<1>11. StoreSound(s)'
  <2>1. StoreSound(s)
    BY DEF Inv, Caches
  <2>2. inst'[s] \subseteq inst[s] /\ sids'[s] \subseteq sids[s]
    BY <1>2, <1>3
  <2>3. \A p \in inst'[s] : CachedSound(s, p)'
    BY <1>3, <1>9, <2>1, <2>2, CachedKept DEF StoreSound
  <2>4. \A q \in sids'[s] : Shows(View(s), q[2], q[1])'
    BY <1>9, <2>1, <2>2 DEF StoreSound, Shows, Keeps, Same
  <2>5. HeldSound(s, hand[s])'
    BY <1>3, <1>9, <2>1, LazyKept DEF StoreSound, HeldSound
  <2> QED BY <2>3, <2>4, <2>5 DEF StoreSound
<1> QED BY <1>4, <1>5, <1>6, <1>8, <1>9, <1>10, <1>11, OthersKept DEF Inv, Tables

LEMMA SaveKeeps ==
  ASSUME Inv, NEW s \in Stores, NEW r \in Records, Save(s, r) \/ Replace(s, r)
  PROVE  Inv'
<1>1. PICK lid \in (1..MaxSid) \cup {None}, pred \in (Records \X BOOLEAN) \cup {None} :
        SaveTop(s, r, lid, pred) /\ Inherits(s, lid, pred)
  BY SaveRequest
<1>2. PICK ts \in Captured(s) :
        \/ SaveFails(s, ts)
        \/ \E table \in SUBSET Rows : Result(s, r, lid, pred, ts, table)
  BY <1>1, SaveTopResult DEF Inv
<1>3. CASE SaveFails(s, ts)
  BY <1>3, SaveFailsKeeps
<1>4. ASSUME NEW table \in SUBSET Rows, Result(s, r, lid, pred, ts, table)
      PROVE  Inv'
  <2>1. TypeOK'
    <3>1. Saved(s, r, table, ts)
      BY <1>4 DEF Result
    <3>2. ts \in 1..MaxClock
      BY CapturedTime DEF Inv
    <3> QED BY <3>1, <3>2, SavedTypes DEF Inv
  <2>2. Tables'
    BY <1>1, <1>4, SavedTables DEF Inv
  <2>3. Caches'
    BY <1>4, SavedCaches
  <2> QED BY <2>1, <2>2, <2>3 DEF Inv
<1> QED BY <1>2, <1>3, <1>4

----------------------------------------------------------------------------
(* Steps that leave the table and the transactions alone. *)

LEMMA Quiet ==
  ASSUME Inv, NEW s \in Stores,
         UNCHANGED <<rows, writer, work, mode, unit, pinned, mark>>, TypeOK',
         \A t \in Stores \ {s} :
           inst'[t] = inst[t] /\ sids'[t] = sids[t] /\ hand'[t] = hand[t],
         \A p \in inst'[s] : CachedSound(s, p),
         \A q \in sids'[s] : Shows(View(s), q[2], q[1]),
         HeldSound(s, hand'[s])
  PROVE  Inv'
<1>1. Keeps(rows, rows') /\ \A t \in Stores : Keeps(View(t), View(t)')
  BY SameIsReflexive DEF View
<1>2. Apart(s)
  BY <1>1 DEF Apart
<1>3. StoreSound(s)'
  <2>1. \A p \in inst'[s] : CachedSound(s, p)'
    BY <1>1, CachedKept
  <2>2. \A q \in sids'[s] : Shows(View(s), q[2], q[1])'
    BY <1>1 DEF Shows, Keeps, Same
  <2>3. HeldSound(s, hand[s])'
    BY <1>1, LazyKept DEF HeldSound
  <2> QED BY <2>1, <2>2, <2>3 DEF StoreSound
<1>4. Caches'
  BY <1>1, <1>2, <1>3, OthersKept DEF Inv
<1>5. Tables'
  BY DEF Inv, Tables, Locked, Table, Unique, Lineage, Ordered, Pending, Keeps, Uncommitted,
         Marked, Before
<1> QED BY <1>4, <1>5 DEF Inv

LEMMA StoreTypes ==
  ASSUME TypeOK, NEW s \in Stores
  PROVE  /\ inst \in [Stores -> SUBSET ((1..MaxSid) \X Objects)]
         /\ sids \in [Stores -> SUBSET (Records \X (1..MaxSid))]
         /\ hand \in [Stores -> Objects \cup {None}]
         /\ mode[s] \in {"idle", "transaction"}
BY DEF TypeOK

LEMMA FetchKeeps ==
  ASSUME Inv, NEW s \in Stores, NEW sid \in 1..MaxSid, Fetch(s, sid)
  PROVE  Inv'
<1> DEFINE cached == {p[2] : p \in {p \in inst[s] : p[1] = sid}}
<1>1. PICK d \in At(sid, View(s)) \cup {None} :
        LET got == IF cached # {} THEN Pick(cached) ELSE LazyRow(sid, d.rec, Token(s))
        IN /\ IF d = None THEN cached # {} /\ At(sid, View(s)) = {} ELSE TRUE
           /\ hand' = [hand EXCEPT ![s] = got]
           /\ inst' = [inst EXCEPT ![s] = @ \cup {<<sid, got>>}]
  BY DEF Fetch
<1> DEFINE got == IF cached # {} THEN Pick(cached) ELSE LazyRow(sid, d.rec, Token(s))
<1>2. StoreSound(s) /\ View(s) \in SUBSET Rows
  BY ViewIsTable DEF Inv, Caches
<1>3. got \in Objects /\ CachedSound(s, <<sid, got>>)
  <2>1. CASE cached # {}
    <3>1. PICK p \in inst[s] : p[1] = sid /\ p[2] = got
      BY <2>1 DEF Pick
    <3>2. p = <<sid, got>> /\ got \in Objects
      BY <3>1, StoreTypes DEF Inv
    <3> QED BY <1>2, <3>2 DEF StoreSound
  <2>2. CASE cached = {}
    <3>1. d # None /\ d \in View(s) /\ d.sid = sid /\ d.rec \in Records
      BY <1>1, <1>2, <2>2 DEF At, Rows
    <3>2. got = LazyRow(sid, d.rec, Token(s))
      BY <2>2
    <3> DEFINE row == LazyRow(sid, d.rec, Token(s))
    <3>3. row \in Objects
      <4>1. Token(s) \in Fates /\ sid \in 0..MaxSid
        BY IdentityAssumption DEF Token, Fates
      <4> QED BY <3>1, <4>1 DEF LazyRow, Objects, Fates
    <3>4. Shows(View(s), sid, d.rec)
      BY <3>1 DEF Shows
    <3>5. mode[s] # "transaction" => View(s) = rows
      BY NoneAssumption DEF View, Inv, Tables, Locked
    <3>6. row.sid = sid /\ row.rec = d.rec /\ row.fate = Token(s) /\ row.kids = None
      BY DEF LazyRow
    <3> HIDE DEF row
    <3>7. LazySound(s, row)
      BY <3>4, <3>5, <3>6 DEF LazySound, Token
    <3>8. CachedSound(s, <<sid, row>>)
      BY <3>4, <3>6, <3>7 DEF CachedSound
    <3> QED BY <3>2, <3>3, <3>8 DEF row
  <2> QED BY <2>1, <2>2
<1> HIDE DEF cached
<1>4. /\ hand' = [hand EXCEPT ![s] = got]
      /\ inst' = [inst EXCEPT ![s] = @ \cup {<<sid, got>>}]
  BY <1>1
<1> HIDE DEF got
<1>5. UNCHANGED <<rows, writer, work, mode, unit, pinned, mark, sids>>
  BY DEF Fetch
<1>6. TypeOK'
  BY <1>3, <1>4, <1>5 DEF Inv, TypeOK
<1>7. \A p \in inst'[s] : CachedSound(s, p)
  BY <1>2, <1>3, <1>4, StoreTypes DEF Inv, StoreSound
<1>8. HeldSound(s, hand'[s])
  BY <1>3, <1>4, StoreTypes DEF Inv, HeldSound, CachedSound
<1> QED BY <1>2, <1>4, <1>5, <1>6, <1>7, <1>8, StoreTypes, Quiet DEF Inv, StoreSound

LEMMA FetchEagerKeeps ==
  ASSUME Inv, NEW s \in Stores, NEW sid \in 1..MaxSid, FetchEager(s, sid)
  PROVE  Inv'
<1>1. PICK d \in At(sid, View(s)) :
        Remember(s, {<<d.rec, sid>>}) /\ hand' = [hand EXCEPT ![s] = Record(d.rec)]
  BY DEF FetchEager
<1> DEFINE pairs == {<<d.rec, sid>>}
<1>2. UNCHANGED <<rows, writer, work, mode, unit, pinned, mark>>
  BY DEF FetchEager
<1>3. StoreSound(s) /\ View(s) \in SUBSET Rows
  BY ViewIsTable DEF Inv, Caches
<1>4. d \in View(s) /\ d.sid = sid /\ d.rec \in Records
  BY <1>3 DEF At, Rows
<1>5. /\ pairs \in SUBSET (Records \X (1..MaxSid))
      /\ \A q \in pairs : Record(q[1]) \in Objects /\ Shows(View(s), q[2], q[1])
  <2>1. Record(d.rec) \in Objects
    BY <1>4, IdentityAssumption DEF Record, Objects, Fates
  <2>2. Shows(View(s), sid, d.rec)
    BY <1>4 DEF Shows
  <2> QED BY <1>4, <2>1, <2>2
<1>6. Remember(s, pairs) /\ hand' = [hand EXCEPT ![s] = Record(d.rec)] /\ Record(d.rec) \in Objects
  BY <1>1, <1>5
<1> HIDE DEF pairs
<1>7. TypeOK'
  <2>1. sids' \in [Stores -> SUBSET (Records \X (1..MaxSid))]
    BY <1>5, <1>6, StoreTypes DEF Remember, Inv
  <2>2. inst' \in [Stores -> SUBSET ((1..MaxSid) \X Objects)]
    BY <1>5, <1>6, StoreTypes DEF Remember, Inv
  <2>3. hand' \in [Stores -> Objects \cup {None}]
    BY <1>6, StoreTypes DEF Inv
  <2> QED BY <1>2, <2>1, <2>2, <2>3 DEF Inv, TypeOK
<1>8. \A p \in inst'[s] : CachedSound(s, p)
  <2>1. \A q \in pairs : CachedSound(s, <<q[2], Record(q[1])>>)
    BY <1>5 DEF CachedSound, Record
  <2>2. inst'[s] \subseteq inst[s] \cup {<<q[2], Record(q[1])>> : q \in pairs}
    BY <1>6, StoreTypes DEF Remember, Inv
  <2> QED BY <1>3, <2>1, <2>2 DEF StoreSound
<1>9. \A q \in sids'[s] : Shows(View(s), q[2], q[1])
  <2>1. sids'[s] \subseteq sids[s] \cup pairs
    BY <1>6, StoreTypes DEF Remember, Inv
  <2> QED BY <1>3, <1>5, <2>1 DEF StoreSound
<1>10. HeldSound(s, hand'[s])
  BY <1>6, StoreTypes DEF Inv, HeldSound, Record
<1>11. \A t \in Stores \ {s} : inst'[t] = inst[t] /\ sids'[t] = sids[t] /\ hand'[t] = hand[t]
  BY <1>6, StoreTypes DEF Remember, Inv
<1> QED BY <1>2, <1>7, <1>8, <1>9, <1>10, <1>11, Quiet

LEMMA ReadChildrenKeeps ==
  ASSUME Inv, NEW s \in Stores, ReadChildren(s)
  PROVE  Inv'
<1>1. PICK d \in At(hand[s].sid, View(s)) :
        LET x == [hand[s] EXCEPT !.kids = d.rec, !.kidsFate = Token(s)]
        IN /\ hand' = [hand EXCEPT ![s] = x]
           /\ inst' = [inst EXCEPT ![s] = {<<p[1], IF p[2] = hand[s] THEN x ELSE p[2]>> : p \in @}]
  BY DEF ReadChildren
<1> DEFINE x == [hand[s] EXCEPT !.kids = d.rec, !.kidsFate = Token(s)]
<1>2. /\ UNCHANGED <<rows, writer, work, mode, unit, pinned, mark, sids>>
      /\ hand[s] # None /\ hand[s].lazy /\ Live(hand[s])
  BY DEF ReadChildren
<1>3. /\ StoreSound(s) /\ View(s) \in SUBSET Rows /\ Unique(View(s)) /\ Keeps(rows, View(s))
      /\ hand[s] \in Objects
  BY <1>2, ViewIsTable, StoreTypes DEF Inv, Caches, Table
<1>4. d \in View(s) /\ d.sid = hand[s].sid /\ d.rec \in Records
  BY <1>3 DEF At, Rows
<1>5. LazySound(s, hand[s]) /\ hand[s].fate \in {"none", "running"}
  BY <1>2, <1>3 DEF StoreSound, HeldSound, Live, LiveToken, Objects, Fates
<1>6. d.rec = hand[s].rec
  <2>1. Shows(View(s), hand[s].sid, hand[s].rec)
    BY <1>3, <1>5 DEF LazySound, Shows, Keeps, Same
  <2> QED BY <1>3, <1>4, <2>1 DEF Shows, Unique
<1>7. /\ x \in Objects /\ x.lazy = hand[s].lazy /\ x.sid = hand[s].sid /\ x.rec = hand[s].rec
      /\ x.fate = hand[s].fate /\ x.kids = x.rec
  BY <1>3, <1>4, <1>6 DEF Objects, Token, Fates
<1>8. /\ hand' = [hand EXCEPT ![s] = x]
      /\ inst' = [inst EXCEPT ![s] = {<<p[1], IF p[2] = hand[s] THEN x ELSE p[2]>> : p \in @}]
  BY <1>1
<1> HIDE DEF x
<1>9. LazySound(s, x)
  BY <1>5, <1>7 DEF LazySound
<1>10. TypeOK'
  BY <1>2, <1>7, <1>8 DEF Inv, TypeOK
<1>11. \A p \in inst'[s] : CachedSound(s, p)
  <2> SUFFICES ASSUME NEW p \in inst[s]
               PROVE  CachedSound(s, <<p[1], IF p[2] = hand[s] THEN x ELSE p[2]>>)
    BY <1>8, StoreTypes DEF Inv
  <2>1. CachedSound(s, p)
    BY <1>3 DEF StoreSound
  <2> QED BY <1>7, <1>9, <2>1 DEF CachedSound
<1>12. HeldSound(s, hand'[s])
  BY <1>8, <1>9, StoreTypes DEF Inv, HeldSound
<1>13. \A q \in sids'[s] : Shows(View(s), q[2], q[1])
  BY <1>2, <1>3 DEF StoreSound
<1> QED BY <1>2, <1>8, <1>10, <1>11, <1>12, <1>13, StoreTypes, Quiet DEF Inv

LEMMA CollectKeeps ==
  ASSUME Inv, NEW s \in Stores, Collect(s)
  PROVE  Inv'
<1>1. UNCHANGED <<rows, writer, work, mode, unit, pinned, mark, hand>>
  BY DEF Collect
<1>2. /\ inst' = [inst EXCEPT ![s] = {p \in @ : p[2] = hand[s]}]
      /\ sids' = [sids EXCEPT ![s] = {q \in @ : Record(q[1]) = hand[s]}]
  BY DEF Collect
<1>3. StoreSound(s)
  BY DEF Inv, Caches
<1>4. TypeOK'
  BY <1>1, <1>2 DEF Inv, TypeOK
<1>5. inst'[s] \subseteq inst[s] /\ sids'[s] \subseteq sids[s]
  BY <1>2, StoreTypes DEF Inv
<1> QED BY <1>1, <1>2, <1>3, <1>4, <1>5, StoreTypes, Quiet DEF Inv, StoreSound

----------------------------------------------------------------------------
(* Transactions begin and end. *)

LEMMA BeginKeeps ==
  ASSUME Inv, NEW s \in Stores, Begin(s)
  PROVE  Inv'
<1>1. /\ mode[s] = "idle" /\ mode' = [mode EXCEPT ![s] = "transaction"]
      /\ unit' = [unit EXCEPT ![s] = @ + 1]
      /\ UNCHANGED <<rows, writer, work, pinned, mark, sids, inst, hand>>
  BY DEF Begin
<1>2. /\ mode \in [Stores -> {"idle", "transaction"}] /\ unit \in [Stores -> Nat]
      /\ rows \in SUBSET Rows /\ writer # s /\ None \notin Stores
  BY <1>1, NoneAssumption DEF Inv, TypeOK, Tables, Locked
<1>3. TypeOK'
  BY <1>1, <1>2 DEF Inv, TypeOK
<1>4. Locked'
  BY <1>1, <1>2 DEF Inv, Tables, Locked, TypeOK
<1>5. Table(rows)' /\ (writer' # None => Table(work)')
  BY <1>1 DEF Inv, Tables, Table, Unique, Lineage, Ordered
<1>6. Pending'
  <2>1. \A d \in work : writer # None /\ Uncommitted(writer, d) => Uncommitted(writer, d)'
    BY <1>1, <1>2 DEF Uncommitted, Inv, TypeOK
  <2> QED BY <1>1, <2>1 DEF Inv, Tables, Pending, Keeps
<1>7. Marked'
  <2>1. ASSUME NEW d \in rows
        PROVE  Before(d)'
    <3>1. Before(d) /\ d.unit \in Stores \X Nat
      BY <1>2 DEF Inv, Tables, Marked, Rows
    <3> QED BY <1>1, <1>2, <3>1 DEF Before
  <2> QED BY <1>1, <2>1 DEF Inv, Tables, Marked
<1>8. Keeps(rows, rows') /\ \A t \in Stores : Keeps(View(t), View(t)')
  BY <1>1, SameIsReflexive DEF View
<1>9. Apart(s)
  BY <1>1, <1>2, <1>8 DEF Apart
<1>10. StoreSound(s)'
  <2>1. StoreSound(s) /\ mode'[s] = "transaction"
    BY <1>1, <1>2 DEF Inv, Caches
  <2>2. \A p \in inst'[s] : CachedSound(s, p)'
    BY <1>1, <1>8, <2>1, CachedKept DEF StoreSound
  <2>3. \A q \in sids'[s] : Shows(View(s), q[2], q[1])'
    BY <1>1, <1>8, <2>1 DEF StoreSound, Shows, Keeps, Same
  <2>4. HeldSound(s, hand[s])'
    BY <1>1, <1>8, <2>1, LazyKept DEF StoreSound, HeldSound
  <2> QED BY <2>2, <2>3, <2>4 DEF StoreSound
<1> QED BY <1>3, <1>4, <1>5, <1>6, <1>7, <1>8, <1>9, <1>10, OthersKept DEF Inv, Tables

LEMMA SettledObject ==
  ASSUME NEW x \in Objects, NEW fate \in {"none", "rolled back"}
  PROVE  /\ Settled(x, fate) \in Objects
         /\ Settled(x, fate).lazy = x.lazy /\ Settled(x, fate).sid = x.sid
         /\ Settled(x, fate).rec = x.rec /\ Settled(x, fate).kids = x.kids
         /\ Settled(x, fate).fate = IF x.fate = "running" THEN fate ELSE x.fate
BY NoneAssumption DEF Settled, Objects, Fates

LEMMA CommitKeeps ==
  ASSUME Inv, NEW s \in Stores, Commit(s)
  PROVE  Inv'
<1>1. /\ mode[s] = "transaction"
      /\ rows' = View(s)
      /\ mark' = [mark EXCEPT ![s] = Advanced(s, pinned[s])]
      /\ hand' = [hand EXCEPT ![s] = Settled(@, "none")]
      /\ inst' = [inst EXCEPT ![s] = {<<p[1], Settled(p[2], "none")>> : p \in @}]
      /\ mode' = [mode EXCEPT ![s] = "idle"]
      /\ pinned' = [pinned EXCEPT ![s] = Never]
      /\ writer' = Held(s)
      /\ work' = IF writer = s THEN {} ELSE work
      /\ unit' = unit /\ sids' = sids
  BY DEF Commit, Ended
<1>2. /\ mode \in [Stores -> {"idle", "transaction"}] /\ unit \in [Stores -> Nat]
      /\ pinned \in [Stores -> 0..MaxClock] /\ mark \in [Stores -> 0..MaxClock]
      /\ rows \in SUBSET Rows /\ work \in SUBSET Rows /\ MaxClock \in Nat /\ None \notin Stores
      /\ inst \in [Stores -> SUBSET ((1..MaxSid) \X Objects)]
      /\ hand \in [Stores -> Objects \cup {None}]
  BY IdentityAssumption, NoneAssumption DEF Inv, TypeOK
<1>3. View(s) \in SUBSET Rows /\ Table(View(s)) /\ Keeps(rows, View(s))
  BY ViewIsTable DEF Inv
<1>4. TypeOK'
  <2>1. inst' \in [Stores -> SUBSET ((1..MaxSid) \X Objects)]
    <3>1. ASSUME NEW p \in inst[s]
          PROVE  <<p[1], Settled(p[2], "none")>> \in (1..MaxSid) \X Objects
      <4>1. p[1] \in 1..MaxSid /\ p[2] \in Objects
        BY <1>2
      <4> QED BY <4>1, SettledObject
    <3> QED BY <1>1, <1>2, <3>1
  <2>2. hand' \in [Stores -> Objects \cup {None}]
    BY <1>1, <1>2, SettledObject DEF Settled
  <2>3. rows' \in SUBSET Rows /\ work' \in SUBSET Rows /\ writer' \in Stores \cup {None}
    BY <1>1, <1>2, <1>3 DEF Held, Inv, TypeOK
  <2>4. mark' \in [Stores -> 0..MaxClock] /\ pinned' \in [Stores -> 0..MaxClock]
    BY <1>1, <1>2 DEF Advanced, Never
  <2>5. mode' \in [Stores -> {"idle", "transaction"}]
    BY <1>1, <1>2
  <2> QED BY <1>1, <2>1, <2>2, <2>3, <2>4, <2>5 DEF Inv, TypeOK
<1>5. Locked'
  BY <1>1, <1>2 DEF Held, Inv, Tables, Locked
<1>6. writer' # None => writer' = writer /\ writer # s /\ work' = work /\ rows' = rows
  BY <1>1, <1>2 DEF Held, View
<1>7. Table(rows)' /\ (writer' # None => Table(work)')
  BY <1>1, <1>3, <1>6 DEF Inv, Tables, Table, Unique, Lineage, Ordered
<1>8. Pending'
  <2>1. \A d \in work : writer # None /\ writer # s /\ Uncommitted(writer, d) => Uncommitted(writer, d)'
    BY <1>1, <1>2, <1>6 DEF Uncommitted, Held, Inv, TypeOK
  <2> QED BY <1>6, <2>1 DEF Inv, Tables, Pending, Keeps
<1>9. /\ mark[s] \in Nat /\ mark'[s] \in Nat /\ mark'[s] >= mark[s] /\ mark'[s] >= pinned[s]
      /\ mode'[s] = "idle"
  BY <1>1, <1>2 DEF Advanced
<1>10. ASSUME NEW d \in View(s)
       PROVE  Before(d)'
  <2>1. d.unit \in Stores \X Nat /\ d.ts \in 1..MaxClock
    BY <1>3 DEF Rows
  <2>2. ASSUME NEW e \in rows, Same(e, d)
        PROVE  Before(d)'
    <3>1. Before(e) /\ e.ts = d.ts /\ e.unit = d.unit
      BY <2>2 DEF Inv, Tables, Marked, Same
    <3>2. CASE d.unit[1] = s
      <4>1. d.ts <= mark[s] /\ d.unit[2] <= unit[s]
        BY <3>1, <3>2 DEF Before
      <4>2. d.ts <= mark'[s]
        BY <1>9, <2>1, <4>1
      <4> QED BY <1>1, <1>9, <3>2, <4>1, <4>2 DEF Before
    <3>3. CASE d.unit[1] # s
      BY <1>1, <1>2, <2>1, <3>1, <3>3 DEF Before
    <3> QED BY <3>2, <3>3
  <2>3. CASE d \in rows
    BY <2>2, <2>3 DEF Same
  <2>4. CASE writer = s /\ d \in work /\ Uncommitted(s, d)
    BY <1>1, <1>2, <1>9, <2>1, <2>4 DEF Uncommitted, Before
  <2>5. CASE writer = s /\ d \in work /\ ~Uncommitted(s, d)
    BY <1>2, <2>2, <2>5 DEF Inv, Tables, Pending
  <2> QED BY <2>3, <2>4, <2>5 DEF View
<1>11. Marked'
  BY <1>1, <1>2, <1>10 DEF Marked, Inv, Tables
<1>12. Keeps(rows, rows') /\ \A t \in Stores : Keeps(View(t), View(t)')
  <2>1. \A t \in Stores : Keeps(View(t), View(t)')
    <3> TAKE t \in Stores
    <3>1. CASE t = s
      <4>1. View(t)' = View(s)
        BY <1>1, <1>2, <3>1 DEF View, Held
      <4> QED BY <3>1, <4>1, SameIsReflexive
    <3>2. CASE t # s /\ writer = t
      <4>1. View(t)' = work
        BY <1>1, <1>2, <3>2 DEF View, Held
      <4> QED BY <3>2, <4>1, SameIsReflexive DEF View
    <3>3. CASE t # s /\ writer # t
      <4>1. View(t)' = View(s) /\ View(t) = rows
        BY <1>1, <1>2, <3>3 DEF View, Held
      <4> QED BY <1>3, <4>1
    <3> QED BY <3>1, <3>2, <3>3
  <2> QED BY <1>1, <1>3, <2>1
<1>13. Apart(s)
  BY <1>1, <1>2, <1>12 DEF Apart, Inv, TypeOK
<1>14. View(s)' = View(s)
  BY <1>1, <1>2 DEF View, Held
<1>15. ASSUME NEW x \in Objects, LazySound(s, x)
       PROVE  LazySound(s, Settled(x, "none"))'
  <2>1. x.fate = "none" \/ x.fate = "running" => Shows(View(s), x.sid, x.rec)
    BY <1>3, <1>15 DEF LazySound, Shows, Keeps, Same
  <2> DEFINE y == Settled(x, "none")
  <2>2. /\ y.sid = x.sid /\ y.rec = x.rec /\ y.kids = x.kids
        /\ y.fate = IF x.fate = "running" THEN "none" ELSE x.fate
    BY SettledObject
  <2> HIDE DEF y
  <2>3. y.fate = "none" => Shows(View(s), y.sid, y.rec)
    BY <2>1, <2>2
  <2>4. Shows(rows, y.sid, y.rec)' <=> Shows(View(s), y.sid, y.rec)
    BY <1>1 DEF Shows
  <2>5. y.kids # None => y.kids = y.rec
    BY <1>15, <2>2 DEF LazySound
  <2>6. LazySound(s, y)'
    BY <2>2, <2>3, <2>4, <2>5 DEF LazySound
  <2> QED BY <2>6 DEF y
<1>16. StoreSound(s)
  BY DEF Inv, Caches
<1>17. StoreSound(s)'
  <2>1. ASSUME NEW p \in inst[s]
        PROVE  CachedSound(s, <<p[1], Settled(p[2], "none")>>)'
    <3>1. p[2] \in Objects /\ CachedSound(s, p)
      BY <1>2, <1>16 DEF StoreSound
    <3> QED BY <1>14, <1>15, <3>1, SettledObject DEF CachedSound, Shows
  <2>2. \A p \in inst'[s] : CachedSound(s, p)'
    BY <1>1, <1>2, <2>1
  <2>3. \A q \in sids'[s] : Shows(View(s), q[2], q[1])'
    BY <1>1, <1>14, <1>16 DEF StoreSound, Shows
  <2>4. HeldSound(s, hand[s])'
    <3>1. hand'[s] = Settled(hand[s], "none")
      BY <1>1, <1>2
    <3>2. CASE hand[s] = None
      BY <3>1, <3>2 DEF Settled, HeldSound
    <3>3. CASE hand[s] # None
      <4>1. hand[s] \in Objects
        BY <1>2, <3>3
      <4> QED BY <1>15, <1>16, <3>1, <3>3, <4>1, SettledObject DEF StoreSound, HeldSound
    <3> QED BY <3>2, <3>3
  <2> QED BY <2>2, <2>3, <2>4 DEF StoreSound
<1>18. Caches'
  BY <1>12, <1>13, <1>17, OthersKept DEF Inv
<1> QED BY <1>4, <1>5, <1>7, <1>8, <1>11, <1>18 DEF Inv, Tables

\* A transaction that is undone, and a process that ends.
LEMMA UndoneKeeps ==
  ASSUME Inv, NEW s \in Stores, ClearIdentityCaches(s), Ended(s), UNCHANGED <<rows, unit>>,
         NEW x \in Objects \cup {None}, hand' = [hand EXCEPT ![s] = x],
         HeldSound(s, x)', TypeOK',
         NEW m \in 0..MaxClock, mark' = [mark EXCEPT ![s] = m],
         \A d \in rows : d.unit[1] = s => d.ts <= m
  PROVE  Inv'
<1>1. /\ mode' = [mode EXCEPT ![s] = "idle"]
      /\ pinned' = [pinned EXCEPT ![s] = Never]
      /\ writer' = Held(s)
      /\ work' = IF writer = s THEN {} ELSE work
      /\ sids' = [sids EXCEPT ![s] = {}] /\ inst' = [inst EXCEPT ![s] = {}]
      /\ rows' = rows /\ unit' = unit
  BY DEF Ended, ClearIdentityCaches
<1>2. /\ mode \in [Stores -> {"idle", "transaction"}] /\ unit \in [Stores -> Nat]
      /\ pinned \in [Stores -> 0..MaxClock] /\ mark \in [Stores -> 0..MaxClock]
      /\ rows \in SUBSET Rows /\ None \notin Stores
      /\ inst \in [Stores -> SUBSET ((1..MaxSid) \X Objects)]
      /\ sids \in [Stores -> SUBSET (Records \X (1..MaxSid))]
      /\ hand \in [Stores -> Objects \cup {None}]
  BY NoneAssumption DEF Inv, TypeOK
<1>3. writer' # None => writer' = writer /\ writer # s /\ work' = work
  BY <1>1, <1>2 DEF Held
<1>4. Locked'
  BY <1>1, <1>2 DEF Held, Inv, Tables, Locked
<1>5. Table(rows)' /\ (writer' # None => Table(work)')
  BY <1>1, <1>3 DEF Inv, Tables, Table, Unique, Lineage, Ordered
<1>6. Pending'
  <2>1. \A d \in work : writer # None /\ writer # s /\ Uncommitted(writer, d) => Uncommitted(writer, d)'
    BY <1>1, <1>2 DEF Uncommitted, Held, Inv, TypeOK
  <2> QED BY <1>1, <1>3, <2>1 DEF Inv, Tables, Pending, Keeps
<1>7. Marked'
  <2>1. ASSUME NEW d \in rows
        PROVE  Before(d)'
    <3>1. Before(d) /\ d.unit \in Stores \X Nat
      BY <1>2 DEF Inv, Tables, Marked, Rows
    <3>2. CASE d.unit[1] = s
      BY <1>1, <1>2, <3>1, <3>2 DEF Before
    <3>3. CASE d.unit[1] # s
      BY <1>1, <1>2, <3>1, <3>3 DEF Before
    <3> QED BY <3>2, <3>3
  <2> QED BY <1>1, <1>2, <2>1 DEF Inv, Tables, Marked
<1>8. Keeps(rows, rows') /\ \A t \in Stores \ {s} : View(t)' = View(t)
  BY <1>1, <1>2, SameIsReflexive DEF View, Held
<1>9. Apart(s)
  <2>1. \A t \in Stores \ {s} : Keeps(View(t), View(t)')
    BY <1>8, SameIsReflexive
  <2> QED BY <1>1, <1>2, <2>1 DEF Apart
<1>10. StoreSound(s)'
  BY <1>1, <1>2 DEF StoreSound
<1> QED BY <1>4, <1>5, <1>6, <1>7, <1>8, <1>9, <1>10, OthersKept DEF Inv, Tables

LEMMA EndedTypes ==
  ASSUME TypeOK, NEW s \in Stores, ClearIdentityCaches(s), Ended(s), UNCHANGED <<rows, unit>>,
         NEW x \in Objects \cup {None}, hand' = [hand EXCEPT ![s] = x],
         NEW m \in 0..MaxClock, mark' = [mark EXCEPT ![s] = m]
  PROVE  TypeOK'
BY IdentityAssumption DEF TypeOK, ClearIdentityCaches, Ended, Held, Never

LEMMA RollbackKeeps ==
  ASSUME Inv, NEW s \in Stores, Rollback(s)
  PROVE  Inv'
<1>1. PICK x : x = Settled(hand[s], "rolled back")
  OBVIOUS
<1>2. PICK m : m = mark[s]
  OBVIOUS
<1>3. /\ hand' = [hand EXCEPT ![s] = x] /\ ClearIdentityCaches(s) /\ Ended(s)
      /\ UNCHANGED <<rows, unit, mark>>
  BY <1>1 DEF Rollback
<1>4. hand[s] \in Objects \cup {None} /\ StoreSound(s)
  BY StoreTypes DEF Inv, Caches
<1>5. x \in Objects \cup {None} /\ HeldSound(s, x)'
  <2>1. CASE hand[s] = None
    BY <1>1, <2>1 DEF Settled, HeldSound
  <2>2. CASE hand[s] # None
    <3>1. hand[s] \in Objects /\ HeldSound(s, hand[s])
      BY <1>4, <2>2 DEF StoreSound
    <3>2. /\ x \in Objects
          /\ x.lazy = hand[s].lazy /\ x.sid = hand[s].sid /\ x.rec = hand[s].rec
          /\ x.kids = hand[s].kids
          /\ x.fate = IF hand[s].fate = "running" THEN "rolled back" ELSE hand[s].fate
      BY <1>1, <3>1, SettledObject
    <3>3. x.lazy => LazySound(s, x)'
      BY <1>3, <2>2, <3>1, <3>2 DEF HeldSound, LazySound, Shows
    <3> QED BY <3>2, <3>3 DEF HeldSound
  <2> QED BY <1>4, <2>1, <2>2
<1>6. m \in 0..MaxClock /\ mark' = [mark EXCEPT ![s] = m]
  BY <1>2, <1>3 DEF Inv, TypeOK
<1>7. \A d \in rows : d.unit[1] = s => d.ts <= m
  BY <1>2 DEF Inv, Tables, Marked, Before
<1>8. TypeOK'
  BY <1>3, <1>5, <1>6, EndedTypes DEF Inv
<1> QED BY <1>3, <1>5, <1>6, <1>7, <1>8, UndoneKeeps

LEMMA InitialMarkIsLast ==
  ASSUME TypeOK
  PROVE  InitialMark \in 0..MaxClock /\ \A d \in rows : d.ts <= InitialMark
<1> DEFINE S == {d.ts : d \in rows}
<1>1. rows \in SUBSET Rows /\ MaxClock \in Nat
  BY IdentityAssumption DEF TypeOK
<1>2. S \in SUBSET (0..MaxClock) /\ \A d \in rows : d.ts \in S
  BY <1>1 DEF Rows
<1>3. rows # {} => S # {}
  BY <1>2
<1>4. InitialMark = IF rows = {} THEN Never ELSE Max(S)
  BY DEF InitialMark
<1> HIDE DEF S
<1>5. CASE rows # {}
  <2>1. Max(S) \in S /\ \A y \in S : y <= Max(S)
    BY <1>1, <1>2, <1>3, <1>5, Greatest
  <2> QED BY <1>2, <1>4, <1>5, <2>1
<1> QED BY <1>1, <1>4, <1>5 DEF Never

LEMMA ReopenKeeps ==
  ASSUME Inv, NEW s \in Stores, Reopen(s)
  PROVE  Inv'
<1>1. PICK m : m = InitialMark
  OBVIOUS
<1>2. /\ ClearIdentityCaches(s) /\ Ended(s) /\ UNCHANGED <<rows, unit>>
      /\ mark' = [mark EXCEPT ![s] = m] /\ hand' = [hand EXCEPT ![s] = None]
  BY <1>1 DEF Reopen
<1>3. m \in 0..MaxClock /\ \A d \in rows : d.ts <= m
  BY <1>1, InitialMarkIsLast DEF Inv
<1>4. HeldSound(s, None)'
  BY DEF HeldSound
<1>5. TypeOK'
  BY <1>2, <1>3, EndedTypes DEF Inv
<1> QED BY <1>2, <1>3, <1>4, <1>5, UndoneKeeps

----------------------------------------------------------------------------
LEMMA InitInv == Init => Inv
<1> SUFFICES ASSUME Init
             PROVE  Inv
  OBVIOUS
<1>1. TypeOK
  BY IdentityAssumption DEF Init, TypeOK, Never
<1>2. Tables
  BY DEF Init, Tables, Locked, Table, Unique, Lineage, Ordered, Pending, Marked, Never
<1>3. Caches
  BY DEF Init, Caches, StoreSound, HeldSound
<1> QED BY <1>1, <1>2, <1>3 DEF Inv

LEMMA StutterInv ==
  ASSUME Inv, UNCHANGED vars
  PROVE  Inv'
<1> USE DEF vars
<1>1. TypeOK'
  BY DEF Inv, TypeOK
<1>2. Tables'
  BY DEF Inv, Tables, Locked, Table, Unique, Lineage, Ordered, Pending, Keeps, Uncommitted,
         Marked, Before
<1>3. Caches'
  BY DEF Inv, Caches, StoreSound, CachedSound, HeldSound, LazySound, Shows, View
<1> QED BY <1>1, <1>2, <1>3 DEF Inv

LEMMA Inductive == Spec => []Inv
<1>1. Inv /\ [Next]_vars => Inv'
  <2> SUFFICES ASSUME Inv, [Next]_vars
               PROVE  Inv'
    OBVIOUS
  <2>1. ASSUME NEW s \in Stores, Begin(s)
        PROVE  Inv'
    BY <2>1, BeginKeeps
  <2>2. ASSUME NEW s \in Stores, Commit(s)
        PROVE  Inv'
    BY <2>2, CommitKeeps
  <2>3. ASSUME NEW s \in Stores, Rollback(s)
        PROVE  Inv'
    BY <2>3, RollbackKeeps
  <2>4. ASSUME NEW s \in Stores, Reopen(s)
        PROVE  Inv'
    BY <2>4, ReopenKeeps
  <2>5. ASSUME NEW s \in Stores, ReadChildren(s)
        PROVE  Inv'
    BY <2>5, ReadChildrenKeeps
  <2>6. ASSUME NEW s \in Stores, Collect(s)
        PROVE  Inv'
    BY <2>6, CollectKeeps
  <2>7. ASSUME NEW s \in Stores, NEW r \in Records, Save(s, r) \/ Replace(s, r)
        PROVE  Inv'
    BY <2>7, SaveKeeps
  <2>8. ASSUME NEW s \in Stores, NEW sid \in 1..MaxSid, Fetch(s, sid)
        PROVE  Inv'
    BY <2>8, FetchKeeps
  <2>9. ASSUME NEW s \in Stores, NEW sid \in 1..MaxSid, FetchEager(s, sid)
        PROVE  Inv'
    BY <2>9, FetchEagerKeeps
  <2>10. CASE UNCHANGED vars
    BY <2>10, StutterInv
  <2> QED BY <2>1, <2>2, <2>3, <2>4, <2>5, <2>6, <2>7, <2>8, <2>9, <2>10 DEF Next
<1> QED BY InitInv, <1>1, PTL DEF Spec

\* Every row, cached object and lock stays in its domain, and sids in their bound.
THEOREM TypeCorrect == Spec => []TypeOK
<1>1. Inv => TypeOK
  BY DEF Inv
<1> QED BY Inductive, <1>1, PTL

\* Reads never give what is not under that sid in the database they are made in.
THEOREM ReadsFaithfulHolds == Spec => []ReadsFaithful
<1>1. ASSUME NEW s \in Stores, NEW sid, NEW x,
             Live(x) => Shows(View(s), sid, x.rec), x.kids # None => x.kids = x.rec
      PROVE  Faithful(s, sid, x)
  BY <1>1 DEF Shows, Faithful, At
<1>2. Inv => ReadsFaithful
  <2> SUFFICES ASSUME Inv, NEW s \in Stores
               PROVE  /\ \A p \in inst[s] : Faithful(s, p[1], p[2])
                      /\ hand[s] # None /\ hand[s].lazy => Faithful(s, hand[s].sid, hand[s])
    BY DEF ReadsFaithful
  <2>1. StoreSound(s) /\ Keeps(rows, View(s))
    BY ViewIsTable DEF Inv, Caches
  <2>2. \A p \in inst[s] : Faithful(s, p[1], p[2])
    BY <1>1, <2>1 DEF StoreSound, CachedSound
  <2>3. ASSUME hand[s] # None, hand[s].lazy
        PROVE  Faithful(s, hand[s].sid, hand[s])
    <3>1. LazySound(s, hand[s]) /\ hand[s] \in Objects
      BY <2>1, <2>3, StoreTypes DEF StoreSound, HeldSound, Inv
    <3>2. Live(hand[s]) => Shows(View(s), hand[s].sid, hand[s].rec)
      <4>1. Live(hand[s]) => hand[s].fate \in {"none", "running"}
        BY <3>1 DEF Live, LiveToken, Objects, Fates
      <4>2. \A sid, rec : Shows(rows, sid, rec) => Shows(View(s), sid, rec)
        BY <2>1 DEF Shows, Keeps, Same
      <4> QED BY <3>1, <4>1, <4>2 DEF LazySound
    <3>3. hand[s].kids # None => hand[s].kids = hand[s].rec
      BY <3>1 DEF LazySound
    <3> QED BY <1>1, <3>2, <3>3
  <2> QED BY <2>2, <2>3
<1> QED BY Inductive, <1>2, PTL

\* A replacement is in the lineage of the row it replaced.
THEOREM LineageKeptHolds == Spec => []LineageKept
<1>1. Inv => LineageKept
  BY DEF Inv, Tables, Table, Lineage, LineageKept, Follows
<1> QED BY Inductive, <1>1, PTL

\* The timestamps of a process do not decrease, and its transactions have one each.
THEOREM PinnedTimestampsHolds == Spec => []PinnedTimestamps
<1>1. Inv => PinnedTimestamps
  BY DEF Inv, Tables, Table, Ordered, PinnedTimestamps
<1> QED BY Inductive, <1>1, PTL
=============================================================================
