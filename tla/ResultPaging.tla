---------------------------- MODULE ResultPaging ----------------------------
(***************************************************************************)
(* Continuation pages of a result set (SqlResultSet.page and               *)
(* MongoResultSet.page) over a store that other callers write to.  A page  *)
(* is a seek: the token names the order values and the sid of a row of the *)
(* page before, and the next query asks for the size + 1 matches strictly  *)
(* after it, or strictly before it in the reverse order.  The SQL page is  *)
(* one statement.  The MongoDB page is as many aggregations as its client  *)
(* verifier makes necessary, and the store may change between them.        *)
(***************************************************************************)
EXTENDS Integers, SequencesExt, Ordering

CONSTANTS
  Contents,  \* the records that may be saved: tuples of order values
  Rejected,  \* the contents the client verifier of a MongoDB plan rejects
  Missing,      \* the order value that is not there
  Plans,     \* plans: [store, order], order a sequence of [desc, nulls]
  Size,      \* the page size
  MaxSid     \* bound: sids ever allocated

ASSUME PagingAssumption ==
  /\ \A p \in Plans : /\ p.order \in Seq([desc : BOOLEAN, nulls : {"first", "last"}])
                      /\ \A keys \in Contents : \A i \in DOMAIN p.order :
                           keys[i] \in Int \cup {Missing}
  /\ Missing \notin Int /\ Size \in Nat \ {0} /\ MaxSid \in Nat

None == [none |-> TRUE]

VARIABLES
  rows,   \* the stored matches, a set of [sid, keys]
  top,    \* the greatest sid ever allocated
  plan,   \* the frozen plan that is paged
  page,   \* the last page: its rows and its tokens
  scan,   \* a page in the making, or None
  walk,   \* history: the way gone in one direction, or None
  trail   \* history: the pages up to this one, while the store is unchanged
pagingVars == <<rows, top, plan, page, scan, walk, trail>>

Verified(d) == plan.store = "sql" \/ d.keys \notin Rejected

-----------------------------------------------------------------------------
(* The order of a page.  The null rank is ascending in the public order    *)
(* whatever the direction of the values; going backward reverses all.      *)

NullRank(value, o) == IF (value = Missing) = (o.nulls = "first") THEN 0 ELSE 1

KeyBefore(o, a, b, backward) ==
  IF NullRank(a, o) # NullRank(b, o)
    THEN IF backward THEN NullRank(a, o) > NullRank(b, o) ELSE NullRank(a, o) < NullRank(b, o)
    ELSE Missing \notin {a, b} /\ (IF o.desc # backward THEN a > b ELSE a < b)

(* ORDER BY of the statement: keys in turn, then the sid.                  *)
SortsBefore(order, d, e, backward) ==
  \/ \E i \in DOMAIN order :
       /\ \A j \in 1..(i - 1) : d.keys[j] = e.keys[j]
       /\ KeyBefore(order[i], d.keys[i], e.keys[i], backward)
  \/ /\ \A j \in DOMAIN order : d.keys[j] = e.keys[j]
     /\ IF backward THEN d.sid > e.sid ELSE d.sid < e.sid

PageOrder(S, backward) == {p \in S \X S : SortsBefore(plan.order, p[1], p[2], backward)}

(* A seek that leaves the null ranks to the comparison of the database.    *)
PastKeyWithoutRank(o, value, anchor, before) ==
  /\ Missing \notin {value, anchor}
  /\ IF o.desc = before THEN value > anchor ELSE value < anchor

(* One choice of the WHERE: past the anchor in this key.                   *)
PastKey(o, value, anchor, before) ==
  \/ IF before THEN NullRank(value, o) < NullRank(anchor, o)
               ELSE NullRank(value, o) > NullRank(anchor, o)
  \/ /\ anchor # Missing
     /\ NullRank(value, o) = NullRank(anchor, o)
     /\ IF o.desc = before THEN value > anchor ELSE value < anchor

(* The WHERE: strictly after (before) the anchor, one choice per key and   *)
(* one for the sid, each behind the equality of the keys before it.        *)
SeekPredicate(d, cursor, before) ==
  \/ \E i \in DOMAIN plan.order :
       /\ \A j \in 1..(i - 1) : d.keys[j] = cursor.anchors[j]
       /\ PastKey(plan.order[i], d.keys[i], cursor.anchors[i], before)
  \/ /\ \A j \in DOMAIN plan.order : d.keys[j] = cursor.anchors[j]
     /\ IF before THEN d.sid < cursor.sid ELSE d.sid > cursor.sid

Backward(cursor) == cursor # None /\ cursor.direction = "backward"

(* The candidates: LIMIT size + 1 of the matches the cursor admits.  The   *)
(* client verifier keeps some of them.                                     *)
PageStatement(cursor) ==
  LET admitted == {d \in rows : cursor = None \/ SeekPredicate(d, cursor, Backward(cursor))}
  IN Limited(admitted, PageOrder(admitted, Backward(cursor)), Size + 1)

Documents(batch, backward) ==
  LET kept == {d \in batch : Verified(d)} IN OrderBy(kept, PageOrder(kept, backward))

-----------------------------------------------------------------------------
(* Tokens.  One that belongs to another plan is refused.                   *)

Token(d, direction) ==
  [direction |-> direction, anchors |-> d.keys, sid |-> d.sid, fingerprint |-> plan]

Decoded(cursor) == IF cursor = None THEN TRUE ELSE cursor.fingerprint = plan

(* Tokens of a page that goes backward from its last row.                  *)
PageTokensFromLast(visible, cursor, more) ==
  IF visible = <<>> THEN [next |-> None, previous |-> None]
  ELSE [next |-> IF Backward(cursor) \/ more THEN Token(Last(visible), "forward") ELSE None,
        previous |-> IF cursor # None /\ (~Backward(cursor) \/ more)
                       THEN Token(Last(visible), "backward") ELSE None]

PageTokens(visible, cursor, more) ==
  IF visible = <<>> THEN [next |-> None, previous |-> None]
  ELSE [next |-> IF Backward(cursor) \/ more THEN Token(Last(visible), "forward") ELSE None,
        previous |-> IF cursor # None /\ (~Backward(cursor) \/ more)
                       THEN Token(Head(visible), "backward") ELSE None]

ResultPage(fetched, cursor, more) ==
  LET visible == IF Backward(cursor) THEN Reverse(fetched) ELSE fetched
      tokens == PageTokens(visible, cursor, more)
  IN [rows |-> visible, next |-> tokens.next, previous |-> tokens.previous]

-----------------------------------------------------------------------------
(* page(): the token is decoded, and then a batch is fetched at a time.    *)

NoPage == [rows |-> <<>>, next |-> None, previous |-> None]

PagingInit ==
  /\ \E n \in 0..MaxSid : \E keys \in [1..n -> Contents] :
       rows = {[sid |-> i, keys |-> keys[i]] : i \in 1..n} /\ top = n
  /\ plan \in Plans /\ page = NoPage /\ scan = None /\ walk = None /\ trail = <<>>

(* History: a walk begins at a first page and where it turns round; what   *)
(* is ahead of it then it has to meet, unless it is deleted.               *)
WalkOn(cursor) ==
  LET direction == IF Backward(cursor) THEN "backward" ELSE "forward"
      ahead == {d \in rows : Verified(d) /\
                 (cursor = None \/ SeekPredicate(d, cursor, Backward(cursor)))}
  IN IF cursor # None /\ walk.direction = direction THEN walk
     ELSE [direction |-> direction, plan |-> plan, seen |-> <<>>, stable |-> ahead]

Call(cursor) ==
  /\ scan = None /\ Decoded(cursor)
  /\ scan' = [cursor |-> cursor, seek |-> cursor, verified |-> <<>>, dirty |-> FALSE]
  /\ walk' = WalkOn(cursor)
  /\ UNCHANGED <<rows, top, plan, page, trail>>

FirstPage == Call(None)
NextPage == page.next # None /\ Call(page.next)
PreviousPage == page.previous # None /\ Call(page.previous)

Trail(new, cursor) ==
  IF scan.dirty THEN <<>>
  ELSE IF cursor = None THEN <<new>>
  ELSE IF ~Backward(cursor) THEN Append(trail, new)
  ELSE IF Len(trail) > 1 THEN Front(trail) ELSE <<new>>

(* The page is full once there is a verified match more than it holds, and *)
(* the last one when a batch is short.                                     *)
Return ==
  /\ scan # None
  /\ \E batch \in {PageStatement(scan.seek)} :
     \E ok \in {scan.verified \o Documents(batch, Backward(scan.cursor))} :
       /\ Len(ok) > Size \/ Cardinality(batch) < Size + 1
       /\ \E fetched \in {FirstOf(ok, Size)} :
            /\ page' = ResultPage(fetched, scan.cursor, Len(ok) > Size)
            /\ walk' = [walk EXCEPT !.seen = @ \o fetched]
       /\ trail' = Trail(page'.rows, scan.cursor)
       /\ scan' = None
  /\ UNCHANGED <<rows, top, plan>>

(* Else the next batch is sought from the last candidate, verified or not. *)
NextBatch ==
  /\ scan # None
  /\ \E batch \in {PageStatement(scan.seek)} :
     \E ok \in {scan.verified \o Documents(batch, Backward(scan.cursor))} :
       /\ Len(ok) <= Size /\ Cardinality(batch) = Size + 1
       /\ \E last \in batch :
            /\ \A d \in batch \ {last} : SortsBefore(plan.order, d, last, Backward(scan.cursor))
            /\ scan' = [scan EXCEPT !.verified = ok, !.seek =
                          Token(last, IF Backward(scan.cursor) THEN "backward" ELSE "forward")]
  /\ UNCHANGED <<rows, top, plan, page, walk, trail>>

-----------------------------------------------------------------------------
(* The other callers, and the caller with a second result set.             *)

Save ==
  /\ top < MaxSid
  /\ \E keys \in Contents : rows' = rows \cup {[sid |-> top + 1, keys |-> keys]}
  /\ top' = top + 1
  /\ trail' = <<>>
  /\ scan' = IF scan = None THEN None ELSE [scan EXCEPT !.dirty = TRUE]
  /\ UNCHANGED <<plan, page, walk>>

Sweep ==
  /\ \E d \in rows :
       /\ rows' = rows \ {d}
       /\ walk' = IF walk = None THEN None ELSE [walk EXCEPT !.stable = @ \ {d}]
  /\ trail' = <<>>
  /\ scan' = IF scan = None THEN None ELSE [scan EXCEPT !.dirty = TRUE]
  /\ UNCHANGED <<top, plan, page>>

Replan ==
  /\ scan = None
  /\ plan' \in Plans \ {plan}
  /\ UNCHANGED <<rows, top, page, scan, walk, trail>>

PagingNext ==
  \/ FirstPage \/ NextPage \/ PreviousPage \/ Return \/ NextBatch
  \/ Save \/ Sweep \/ Replan

PagingSpec == PagingInit /\ [][PagingNext]_pagingVars

-----------------------------------------------------------------------------
(* A walk that reaches its end, in either direction, has met every row     *)
(* that was there all the time, none of them twice and in order, whatever  *)
(* was saved and deleted between the pages and between the batches of a    *)
(* page.                                                                   *)
WalkEnded ==
  /\ walk # None /\ scan = None
  /\ IF walk.direction = "forward" THEN page.next = None ELSE page.previous = None

WalkComplete ==
  /\ WalkEnded => walk.stable \subseteq ToSet(walk.seen)
  /\ walk # None => \A i, j \in DOMAIN walk.seen :
       i < j => SortsBefore(walk.plan.order, walk.seen[i], walk.seen[j], walk.direction = "backward")

(* On an unchanged store, following next and then previous recovers the    *)
(* page one came from (docs/details/db.md, Continuation pages).            *)
PreviousRecovers == scan = None /\ trail # <<>> => page.rows = Last(trail)
=============================================================================
