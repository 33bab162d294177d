-------------------------- MODULE StoredFederation --------------------------
(***************************************************************************)
(* StoredEntryFederation: entry families of several durable stores served  *)
(* as one list.  A query counts each backing stream, fetches each, merges, *)
(* and probes the ids of the page it would show for a second origin, every *)
(* step a statement of its own, while each store has a writer that stamps  *)
(* a row when its transaction opens and shows it when it commits.          *)
(***************************************************************************)
EXTENDS Integers, SequencesExt, Ordering

CONSTANTS
  Federations,  \* sequences of [prefix, backings, resolution], resolution 0: no timestamps
  Ids, Early,   \* content ids, and the ones that may be stored from the start
  SortValue,    \* the sorted property of a content: a natural, or Null
  Null,
  Queries,      \* [sort, offset, limit]: sort "none", "asc" or "desc", limit a natural or Null
  BatchSize,    \* of the audit
  MinClock, MaxClock,  \* bounds: nanoseconds; no call reads the time, so it passes between calls
  MaxWrites     \* bound: transactions; and one call per behaviour, for calls only read

ASSUME FederationAssumption ==
  /\ \A f \in Federations : f \in Seq([prefix : Nat, backings : Nat, resolution : Nat])
  /\ Ids \subseteq Nat \ {0} /\ Early \subseteq Ids
  /\ Null \notin Int /\ \A id \in Ids : SortValue[id] \in Int \cup {Null}
  /\ \A q \in Queries : /\ q.sort \in {"none", "asc", "desc"} /\ q.offset \in Nat
                         /\ q.limit \in Nat \cup {Null}
  /\ BatchSize \in Nat \ {0} /\ MinClock \in Nat

VARIABLES
  sources,  \* the federation
  stored,   \* the rows of each stream in native order: [id, at], at in store units
  open,     \* the open transaction of each source, or Null
  clock,
  cutoff,   \* a snapshot cutoff a caller has taken, or Null
  req,      \* the call in progress, or Idle
  result,   \* what the last call returned
  writes, snap, straddled  \* history: what the snapshot held, who was in flight
worldVars == <<sources, stored, open, clock, cutoff, writes, snap, straddled>>
federationVars == <<worldVars, req, result>>

Idle == [kind |-> "idle"]
NoResult == [kind |-> "none"]

(* Streams in source and backing order.                                    *)
Streams == FlattenSeq([s \in DOMAIN sources |->
             [b \in 1..sources[s].backings |-> [source |-> s, backing |-> b]]])
ResolutionOf(k) == sources[Streams[k].source].resolution
PrefixOf(k) == sources[Streams[k].source].prefix
PublicId(k, id) == <<PrefixOf(k), id>>
IdBefore(p, q) == p[1] < q[1] \/ (p[1] = q[1] /\ p[2] < q[2])

(* Streams that must be probed for a page: prefixes several sources share; *)
(* and for an audit: prefixes several streams share.                       *)
Sharing(k) == {j \in DOMAIN Streams : PrefixOf(j) = PrefixOf(k)}
CollidingTables(k) == {j \in Sharing(k) : Streams[j].backing = Streams[k].backing}
Colliding(k) ==
  IF \E j \in Sharing(k) : Streams[j].source # Streams[k].source THEN Sharing(k) ELSE {}
Audited == {k \in DOMAIN Streams : Sharing(k) # {k}}

-----------------------------------------------------------------------------
(* Time.                                                                   *)

Capable == {s \in DOMAIN sources : sources[s].resolution > 0}
CompletedBuckets(now) == {(now \div sources[s].resolution) * sources[s].resolution : s \in Capable}
(* The bucket of now itself, which is not complete yet.                    *)
CutoffWithinBucket(now) == IF Capable = {} THEN Null ELSE Min(CompletedBuckets(now))

SnapshotCutoff(now) == IF Capable = {} THEN Null ELSE Min(CompletedBuckets(now)) - 1

(* The positions of the rows a stream serves: all of them, where a source  *)
(* has no timestamps or no cutoff is asked for.                            *)
Served(k, as_of) ==
  {i \in DOMAIN stored[k] :
     as_of = Null \/ ResolutionOf(k) = 0 \/ stored[k][i].at <= as_of \div ResolutionOf(k)}

CandidateAt(k, i) == [stream |-> k, id |-> stored[k][i].id]
Held(k, as_of) == {CandidateAt(k, i) : i \in Served(k, as_of)}
Candidates(k, as_of) ==
  LET at == OrderBy(Served(k, as_of), Ascending(Served(k, as_of)))
  IN [n \in DOMAIN at |-> CandidateAt(k, at[n])]

-----------------------------------------------------------------------------
(* The order of a sorted query: null last in either direction, then the    *)
(* public id, the source and the backing.                                  *)

ValueBefore(desc, v, w) ==
  IF Null \in {v, w} THEN w = Null /\ v # Null ELSE IF desc THEN v > w ELSE v < w

SortKeyBefore(sort, c, d) ==
  LET v == SortValue[c.id]
      w == SortValue[d.id]
      p == PublicId(c.stream, c.id)
      q == PublicId(d.stream, d.id)
  IN \/ ValueBefore(sort = "desc", v, w)
     \/ v = w /\ IdBefore(p, q)
     \/ v = w /\ p = q /\ c.stream < d.stream

SortedAs(sort, S) == {p \in S \X S : SortKeyBefore(sort, p[1], p[2])}

-----------------------------------------------------------------------------
(* The writers.  A transaction captures its timestamp when it opens.       *)

FederationInit ==
  /\ sources \in Federations
  /\ stored \in [DOMAIN Streams -> {<<>>} \cup {<<[id |-> id, at |-> 0]>> : id \in Early}]
  /\ open = [s \in DOMAIN sources |-> Null] /\ clock = MinClock /\ cutoff = Null
  /\ req = Idle /\ result = NoResult /\ writes = 0 /\ snap = <<>> /\ straddled = FALSE

Tick ==
  /\ req = Idle /\ clock < MaxClock /\ clock' = clock + 1
  /\ UNCHANGED <<sources, stored, open, cutoff, req, result, writes, snap, straddled>>

Open(k, id) ==
  LET s == Streams[k].source
  IN /\ writes < MaxWrites /\ writes' = writes + 1
     /\ open[s] = Null
     /\ \A j \in DOMAIN Streams : Streams[j].source = s => id \notin {r.id : r \in ToSet(stored[j])}
     /\ open' = [open EXCEPT ![s] =
                   [stream |-> k, row |-> [id |-> id, at |-> IF ResolutionOf(k) = 0 THEN 0
                                                             ELSE clock \div ResolutionOf(k)]]]
     /\ UNCHANGED <<sources, stored, clock, cutoff, req, result, snap, straddled>>

Commit(s) ==
  /\ open[s] # Null
  /\ stored' = [stored EXCEPT ![open[s].stream] = Append(@, open[s].row)]
  /\ open' = [open EXCEPT ![s] = Null]
  /\ UNCHANGED <<sources, clock, cutoff, req, result, writes, snap, straddled>>

(* snapshot_cutoff_ns.  What is in flight then may still enter.            *)
TakeCutoff ==
  /\ cutoff = Null /\ Capable # {}
  /\ cutoff' = SnapshotCutoff(clock)
  /\ snap' = [k \in DOMAIN Streams |-> Candidates(k, SnapshotCutoff(clock))]
  /\ straddled' = (\E s \in Capable : open[s] # Null)
  /\ UNCHANGED <<sources, stored, open, clock, req, result, writes>>

-----------------------------------------------------------------------------
(* query(): count every stream, fetch candidates, probe the visible ones.  *)

Query(q, as_of) ==
  /\ req = Idle /\ result = NoResult
  /\ req' = [kind |-> "query", phase |-> "count", q |-> q, as_of |-> as_of, k |-> 1,
             counts |-> <<>>, total |-> 0, skipped |-> q.offset, out |-> <<>>, left |-> {},
             page |-> <<>>, more |-> FALSE, probed |-> 0, twice |-> {}]
  /\ UNCHANGED <<worldVars, result>>

CountStream ==
  /\ req.kind = "query" /\ req.phase = "count" /\ req.k <= Len(Streams)
  /\ \E count \in {Cardinality(Served(req.k, req.as_of))} :
       req' = [req EXCEPT !.counts = Append(@, count), !.total = @ + count, !.k = @ + 1]
  /\ UNCHANGED <<worldVars, result>>

AllCounted ==
  /\ req.kind = "query" /\ req.phase = "count" /\ req.k > Len(Streams)
  /\ req' = [req EXCEPT !.phase = "fetch", !.k = 1]
  /\ UNCHANGED <<worldVars, result>>

Sorted == req.q.sort # "none"
Wanted == IF req.q.limit = Null THEN Null ELSE req.q.limit + 1
Needed == req.q.offset + Wanted

(* Without the limit that the count sets.                                  *)
UnsortedRest ==
  LET all == Candidates(req.k, req.as_of)
      rest == SubSeq(all, req.skipped + 1, Len(all))
  IN IF req.skipped >= req.counts[req.k] THEN <<>>
     ELSE IF Wanted = Null THEN rest ELSE FirstOf(rest, Wanted - Len(req.out))

(* _unsorted_candidates, the body of the loop: the counts tell which       *)
(* streams lie before the offset.                                          *)
UnsortedPart ==
  LET count == req.counts[req.k]
      left == count - req.skipped
      take == IF Wanted = Null THEN left
              ELSE IF left < Wanted - Len(req.out) THEN left ELSE Wanted - Len(req.out)
      all == Candidates(req.k, req.as_of)
  IN IF req.skipped >= count THEN <<>> ELSE FirstOf(SubSeq(all, req.skipped + 1, Len(all)), take)

FetchUnsorted ==
  /\ req.kind = "query" /\ req.phase = "fetch" /\ ~Sorted /\ req.k <= Len(Streams)
  /\ req' = [req EXCEPT !.out = @ \o UnsortedPart, !.k = @ + 1,
                        !.skipped = IF @ >= req.counts[req.k] THEN @ - req.counts[req.k] ELSE 0]
  /\ UNCHANGED <<worldVars, result>>

(* _sorted_candidates: the database sorts a stream by the same key, and of *)
(* each stream at most offset + limit + 1 rows are fetched.                *)
SortedPart ==
  LET all == Held(req.k, req.as_of)
  IN IF Wanted = Null THEN all ELSE Limited(all, SortedAs(req.q.sort, all), Needed)

FetchSorted ==
  /\ req.kind = "query" /\ req.phase = "fetch" /\ Sorted /\ req.k <= Len(Streams)
  /\ req' = [req EXCEPT !.left = @ \cup SortedPart, !.k = @ + 1]
  /\ UNCHANGED <<worldVars, result>>

(* The heap holds the first row that is left of every stream; the least of *)
(* them, which is the least of all, is taken as long as rows are needed.   *)
Gathered == req.left = {} \/ (Wanted # Null /\ Len(req.out) >= Needed)

PopLeast ==
  /\ req.kind = "query" /\ req.phase = "fetch" /\ Sorted /\ req.k > Len(Streams) /\ ~Gathered
  /\ \E c \in req.left :
       /\ \A d \in req.left \ {c} : SortKeyBefore(req.q.sort, c, d)
       /\ req' = [req EXCEPT !.out = Append(@, c), !.left = @ \ {c}]
  /\ UNCHANGED <<worldVars, result>>

Merged == IF Sorted THEN SubSeq(req.out, req.q.offset + 1, Len(req.out)) ELSE req.out
Visible == IF req.q.limit = Null THEN Merged ELSE FirstOf(Merged, req.q.limit)

(* Other rows of a sharing stream with the public id of candidate c.       *)
Origins(c, as_of, among) ==
  {k \in among \ {c.stream} : \E i \in Served(k, as_of) : stored[k][i].id = c.id}

(* History: what the probes have to find.                                  *)
OtherSources(k) ==
  {j \in DOMAIN Streams : PrefixOf(j) = PrefixOf(k) /\ Streams[j].source # Streams[k].source}
ClaimedTwice(c, as_of) == Origins(c, as_of, OtherSources(c.stream)) # {}

CutPage ==
  /\ req.kind = "query" /\ req.phase = "fetch" /\ req.k > Len(Streams) /\ (Sorted => Gathered)
  /\ req' = [req EXCEPT !.phase = "probe", !.page = Visible, !.more = Len(Merged) > Len(Visible),
                        !.twice = {i \in DOMAIN Visible : ClaimedTwice(Visible[i], req.as_of)}]
  /\ UNCHANGED <<worldVars, result>>

(* A page raises at the first visible id another origin claims.            *)
Probe ==
  /\ req.kind = "query" /\ req.phase = "probe" /\ req.probed < Len(req.page)
  /\ \E c \in {req.page[req.probed + 1]} :
       IF Origins(c, req.as_of, Colliding(c.stream)) = {}
         THEN req' = [req EXCEPT !.probed = @ + 1] /\ result' = result
         ELSE req' = Idle /\ result' = [kind |-> "duplicate", ids |-> {c.id}]
  /\ UNCHANGED worldVars

Page ==
  /\ req.kind = "query" /\ req.phase = "probe" /\ req.probed = Len(req.page)
  /\ result' = [kind |-> "page", rows |-> req.page, q |-> req.q, as_of |-> req.as_of,
                total |-> req.total, counts |-> req.counts, more |-> req.more, twice |-> req.twice]
  /\ req' = Idle
  /\ UNCHANGED worldVars

-----------------------------------------------------------------------------
(* audit_duplicate_ids(): every stream in batches of ids after the last.   *)

Audit ==
  /\ req = Idle /\ result = NoResult
  /\ req' = [kind |-> "audit",
             buffer |-> [k \in Audited |-> {}], last |-> [k \in Audited |-> 0],
             done |-> [k \in Audited |-> FALSE],
             known |-> {c \in UNION {Held(k, Null) : k \in Audited} :
                          Origins(c, Null, Sharing(c.stream)) # {}}]
  /\ UNCHANGED <<worldVars, result>>

(* "id > last", sorted, a batch of them.                                   *)
Batch(k) ==
  LET pool == {id \in {c.id : c \in Held(k, Null)} : id > req.last[k]}
  IN Limited(pool, Ascending(pool), BatchSize)

AuditBatch ==
  /\ req.kind = "audit"
  /\ \E k \in Audited : \E batch \in {Batch(k)} :
       /\ req.buffer[k] = {} /\ ~req.done[k]
       /\ req' = [req EXCEPT !.buffer[k] = batch, !.done[k] = Cardinality(batch) < BatchSize,
                             !.last[k] = IF batch = {} THEN @ ELSE Max(batch)]
  /\ UNCHANGED <<worldVars, result>>

(* The heap holds the first id of every buffer.  Those that are equal to   *)
(* the least are a group, and more than one of them is a duplicate.        *)
Heads == {[stream |-> k, id |-> Min(req.buffer[k])] : k \in {j \in Audited : req.buffer[j] # {}}}
Group(c) == {d \in Heads : PublicId(d.stream, d.id) = PublicId(c.stream, c.id)}

AuditGroup ==
  /\ req.kind = "audit"
  /\ \A k \in Audited : req.buffer[k] # {} \/ req.done[k]
  /\ IF Heads = {} THEN req' = Idle /\ result' = [kind |-> "clean", known |-> req.known]
     ELSE \E c \in Heads :
       /\ \A d \in Heads : ~IdBefore(PublicId(d.stream, d.id), PublicId(c.stream, c.id))
       /\ c = CHOOSE d \in Group(c) : TRUE
       /\ IF Group(c) # {c}
            THEN req' = Idle /\ result' = [kind |-> "duplicate", ids |-> {c.id}]
            ELSE req' = [req EXCEPT !.buffer[c.stream] = @ \ {c.id}] /\ result' = result
  /\ UNCHANGED worldVars

(* fetch(): every stream with the prefix is probed.                        *)
Fetch(k, id) ==
  LET found == {j \in Sharing(k) : \E i \in Served(j, Null) : stored[j][i].id = id}
  IN /\ req = Idle /\ result = NoResult
     /\ result' = IF found = {} THEN NoResult
                  ELSE IF \E i, j \in found : i # j THEN [kind |-> "duplicate", ids |-> {id}]
                  ELSE [kind |-> "fetched", row |-> [stream |-> CHOOSE j \in found : TRUE, id |-> id]]
     /\ UNCHANGED <<worldVars, req>>

FederationNext ==
  \/ Tick \/ TakeCutoff \/ CountStream \/ AllCounted \/ FetchUnsorted \/ FetchSorted \/ PopLeast
  \/ CutPage \/ Probe \/ Page \/ Audit \/ AuditBatch \/ AuditGroup
  \/ \E k \in DOMAIN Streams, id \in Ids : Open(k, id) \/ Fetch(k, id)
  \/ \E s \in DOMAIN sources : Commit(s)
  \/ \E q \in Queries, as_of \in {Null, cutoff} : Query(q, as_of)

FederationSpec == FederationInit /\ [][FederationNext]_federationVars

-----------------------------------------------------------------------------
(* The list a page is cut from, and the cut.                               *)
Union(lists, sort) ==
  LET S == UNION {ToSet(lists[k]) : k \in DOMAIN lists}
  IN IF sort = "none" THEN FlattenSeq(lists) ELSE OrderBy(S, SortedAs(sort, S))

IsPageOf(page, list) ==
  LET rest == SubSeq(list, page.q.offset + 1, Len(list))
  IN /\ page.total = Len(list)
     /\ page.rows = IF page.q.limit = Null THEN rest ELSE FirstOf(rest, page.q.limit)
     /\ page.more = (page.q.limit # Null /\ Len(rest) > page.q.limit)

(* A page as of a cutoff is the page of the union as it was when the       *)
(* cutoff was taken, whatever is written and whenever the page is asked    *)
(* for, in stores of different timestamp resolutions -- unless a           *)
(* transaction was open at the cutoff.                                     *)
SnapshotPage ==
  result.kind = "page" /\ result.as_of # Null /\ ~straddled /\ Capable = DOMAIN sources
    => IsPageOf(result, Union(snap, result.q.sort))

(* An unsorted live page is the page of the union as it was counted: what  *)
(* is committed between the counts and the fetches does not shift it.      *)
CountedPage ==
  result.kind = "page" /\ result.as_of = Null /\ result.q.sort = "none"
    => IsPageOf(result, FlattenSeq([k \in DOMAIN Streams |->
                                     FirstOf(Candidates(k, Null), result.counts[k])]))

(* An id that two sources claimed when the page was put together is never  *)
(* shown; and an audit that comes out clean was of a federation in which   *)
(* no id was claimed twice when it began, by any two streams.              *)
NoHiddenDuplicate ==
  /\ result.kind = "page" => result.twice = {}
  /\ result.kind = "clean" => result.known = {}
=============================================================================
