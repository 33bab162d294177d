----------------------------- MODULE MCReading -----------------------------
(* The ways of reading many rows, each alone: the pages of a result set    *)
(* (at most four rows of two keys, with nulls on either side), a stored    *)
(* federation (two stores of different resolutions that share a prefix, or *)
(* one with and one without timestamps), and a federated store.            *)
EXTENDS ResultPaging, StoredFederation, FederatedUnion, TLC

VARIABLE mode  \* which of them
MCVars == <<mode, pagingVars, federationVars, unionVars>>

MCContents == {<<Missing, 1>>, <<1, Missing>>, <<1, 1>>, <<2, 1>>}
MCRejected == {<<1, 1>>}
Key(desc, nulls) == [desc |-> desc, nulls |-> nulls]
MCPlans ==
  {[store |-> "sql", order |-> <<Key(FALSE, "last"), Key(TRUE, "first")>>],
   [store |-> "mongo", order |-> <<Key(TRUE, "last"), Key(FALSE, "first")>>]}

Source(p, b, r) == [prefix |-> p, backings |-> b, resolution |-> r]
MCFederations == {<<Source(0, 2, 2), Source(0, 1, 3)>>, <<Source(0, 2, 2), Source(1, 1, 0)>>}
MCSortValue == <<1, Null, 1>>
Ask(sort, offset, limit) == [sort |-> sort, offset |-> offset, limit |-> limit]
MCQueries == {Ask("none", 1, Null), Ask("none", 1, 1), Ask("desc", 0, 1), Ask("desc", 1, Null),
              Ask("asc", 0, 0)}

(* What is not read in this behaviour.                                     *)
NoPaging ==
  /\ rows = {} /\ top = MaxSid /\ plan = <<>> /\ page = NoPage /\ scan = None /\ walk = None
  /\ trail = <<>>
NoFederation ==
  /\ sources = <<>> /\ stored = <<>> /\ open = <<>> /\ clock = MaxClock /\ cutoff = <<>>
  /\ req = Idle /\ result = NoResult /\ writes = MaxWrites /\ snap = <<>>
  /\ straddled = FALSE
NoUnion ==
  /\ size = <<>> /\ window = [offset |-> 0, limit |-> 0] /\ slices = <<>> /\ cache = NoCount
  /\ job = NoJob /\ answer = NoAnswer

MCInit ==
  \/ mode = "paging" /\ PagingInit /\ NoFederation /\ NoUnion
  \/ mode = "federation" /\ FederationInit /\ NoPaging /\ NoUnion
  \/ mode = "union" /\ UnionInit /\ NoPaging /\ NoFederation

OnlyPaging == mode = "paging" /\ UNCHANGED <<mode, federationVars, unionVars>>
OnlyFederation == mode = "federation" /\ UNCHANGED <<mode, pagingVars, unionVars>>
OnlyUnion == mode = "union" /\ UNCHANGED <<mode, pagingVars, federationVars>>

MCNext ==
  \/ OnlyPaging /\ FirstPage
  \/ OnlyPaging /\ NextPage
  \/ OnlyPaging /\ PreviousPage
  \/ OnlyPaging /\ Return
  \/ OnlyPaging /\ NextBatch
  \/ OnlyPaging /\ Save
  \/ OnlyPaging /\ Sweep
  \/ OnlyPaging /\ Replan
  \/ OnlyFederation /\ Tick
  \/ OnlyFederation /\ TakeCutoff
  \/ OnlyFederation /\ CountStream
  \/ OnlyFederation /\ AllCounted
  \/ OnlyFederation /\ FetchUnsorted
  \/ OnlyFederation /\ FetchSorted
  \/ OnlyFederation /\ PopLeast
  \/ OnlyFederation /\ CutPage
  \/ OnlyFederation /\ Probe
  \/ OnlyFederation /\ Page
  \/ OnlyFederation /\ Audit
  \/ OnlyFederation /\ AuditBatch
  \/ OnlyFederation /\ AuditGroup
  \/ OnlyFederation /\ (\E k \in DOMAIN Streams, id \in Ids : Open(k, id))
  \/ OnlyFederation /\ (\E k \in DOMAIN Streams, id \in Ids : Fetch(k, id))
  \/ OnlyFederation /\ (\E s \in DOMAIN sources : Commit(s))
  \/ OnlyFederation /\ (\E q \in Queries, as_of \in {Null, cutoff} : Query(q, as_of))
  \/ OnlyUnion /\ StartCount
  \/ OnlyUnion /\ CountSource
  \/ OnlyUnion /\ Counted
  \/ OnlyUnion /\ Length
  \/ OnlyUnion /\ ExecuteSource
  \/ OnlyUnion /\ Executed
  \/ OnlyUnion /\ SourceFails
  \/ OnlyUnion /\ (\E s \in DOMAIN size : Grow(s))
  \/ OnlyUnion /\ (\E start \in Bounds, stop \in Bounds \cup {Unbounded} : Slice(start, stop))
  \/ OnlyUnion /\ (\E maximum \in {Unbounded, 1, 2} : StartExecute(maximum))
MCSpec == MCInit /\ [][MCNext]_MCVars
=============================================================================
