----------------------------- MODULE BulkShards -----------------------------
(***************************************************************************)
(* Bulk ingestion into an empty store by several workers, or by one with   *)
(* finalize="deferred".  A worker encodes its share of the records into a  *)
(* shard of its own, under sids of its own block and with only the         *)
(* deduplication that is safe there; then the shards become the tables     *)
(* either by loading, collapsing and renumbering them ("parity",           *)
(* backend/sql/bulk_parallel.py) or by maps over them and one projection   *)
(* ("deferred", backend/sql/bulk_deferred.py).  The processes and queues   *)
(* are WorkerPool.  save(promote=...) and NaN metadata are left out.       *)
(***************************************************************************)
EXTENDS SqlSave

CONSTANTS
  NumWorkers,  \* workers, numbered from 0; token k is encoded by k % NumWorkers
  Block,       \* sids per worker and table (_SID_BLOCK)
  ChunkSizes,  \* saves between two flushes of a worker (chunk_size)
  Annotated,       \* classes with an identity-excluded field (note)
  NestedOnly,  \* by profile: classes that are not saved top-level
  Profiles,    \* the profiles that are run: of "parity", "deferred"
  MaxTasks     \* bound: calls of save()

ASSUME ShardsAssumption ==
  /\ NumWorkers \in Nat \ {0} /\ Block \in Nat \ {0} /\ ChunkSizes \subseteq Nat \ {0}
  /\ Annotated \subseteq Types /\ NestedOnly \in [Profiles -> SUBSET Types]
  /\ Profiles \subseteq {"parity", "deferred"} /\ MaxTasks \in Nat

Workers == 0..(NumWorkers - 1)
Place == Types \X Nat  \* a row: its table and its sid

VARIABLES
  profile,  \* finalize, track_sids and chunk_size
  shards,   \* what every worker has encoded
  tokens,   \* what a token stands for: <<token, row>> (token_sid of the manifests)
  stage,    \* where the ingest is
  main,     \* the database as the ingest's transaction sees it
  keep,     \* the row a row was collapsed into: _collapse, or the maps
  final,    \* the sid a surviving row is given: _compaction, or the finals
  looped    \* history: the same saves by SqlStore.save

shardVars == <<profile, shards, tokens, stage, main, keep, final, looped>>

Shard == [rows : Tables,                        \* written to the shard, or buffered
          buffered : SUBSET Place,              \* rows that are not written yet
          next : [Types -> Nat],                \* _next_sid
          index : SUBSET ((Types \X STRING \cup Types \X STRING \X STRING \X Nat) \X Nat),
          roots : SUBSET Place,                 \* rows saved top-level
          late : SUBSET Place,                  \* _late_role_roots
          dispatch : SUBSET (STRING \X Place),  \* a set: one row per top-level save
          since : Nat]                          \* _since_flush

ShardsInit ==
  /\ profile \in [finalize : Profiles, track : BOOLEAN, chunk : ChunkSizes]
  /\ shards = [w \in Workers |->
       [rows |-> [t \in Types |-> {}], buffered |-> {}, index |-> {}, roots |-> {},
        late |-> {}, dispatch |-> {}, since |-> 0,
        next |-> [t \in Types |-> (w + 1) * Block + 1]]]
  /\ tokens = <<>>
  /\ stage = "encode"
  /\ main = EmptyDB
  /\ keep = {} /\ final = {}
  /\ looped = [db |-> EmptyDB, ok |-> TRUE, sids |-> <<>>]

----------------------------------------------------------------------------
\* What a worker does with a record.

\* _metadata_has_plan: the class, or one it reaches, has identity-excluded fields.
Dependencies(T) == T \cup {RefType[u] : u \in T \ {NoType}} \cup {ElemType[u] : u \in T \ {NoType}}
Reachable(t) == FoldLeft(LAMBDA T, i : Dependencies(T), {t}, Order)
HasPlan(t) == Reachable(t) \cap Annotated # {}

\* What a worker may deduplicate: a conflict must reach the merge, once per occurrence.
IndexKeys(t, d) ==
  CASE ~profile.track -> {}
    [] Dedup[t] = "content_id" -> IF HasPlan(t) THEN {} ELSE {<<t, d.key>>}
    [] Dedup[t] = "by_value" -> {ValueKey(t, d)}
    [] OTHER -> {}

BufferedInShard(s, t, d) ==
  [s EXCEPT !.rows[t] = @ \cup {d}, !.next[t] = @ + 1, !.buffered = @ \cup {<<t, d.sid>>},
            !.index = @ \cup (IndexKeys(t, d) \X {d.sid})]

\* _WorkerEncoder._encode_active: <<shard, sid>>.  A content key is looked up before
\* the references are encoded, a value key after.
EncodedInShard[x \in Records \X Shard] ==
  LET r == x[1]
      s == x[2]
      o == Obj[r]
      t == o.type
      first == IF Dedup[t] = "content_id" THEN IndexKeys(t, NewRow(r, 0, 0)) ELSE {}
      dep == IF o.ref = NoRecord THEN <<s, 0>> ELSE EncodedInShard[<<o.ref, s>>]
      sid == dep[1].next[t]
      d == NewRow(r, sid, dep[2])
      known == {p \in dep[1].index : p[1] \in IndexKeys(t, d)}
      Elem(acc, e) == LET q == EncodedInShard[<<e, acc[1]>>] IN <<q[1], Append(acc[2], q[2])>>
      all == FoldLeft(Elem, <<BufferedInShard(dep[1], t, d), <<>>>>, o.elems)
  IN IF \E k \in first : Has(s.index, k)
     THEN <<s, At(s.index, CHOOSE k \in first : Has(s.index, k))>>
     ELSE IF known # {} THEN <<dep[1], (CHOOSE p \in known : TRUE)[2]>>
     ELSE <<[all[1] EXCEPT !.rows[t] = SetElems(@, sid, all[2])], sid>>

\* _promote_occurrence: the role reaches a row that is still buffered ...
Noticed(s, r, sid) ==
  LET t == Obj[r].type
      row == <<t, sid>>
  IN [s EXCEPT !.rows[t] = IF row \in s.buffered THEN SetRole(@, {sid}) ELSE @,
               !.roots = @ \cup {row},
               !.dispatch = IF t \in Entries THEN @ \cup {<<Obj[r].key, row>>} ELSE @]

\* ... and is noted for later where the row has been written.
PromotedInShard(s, r, sid) ==
  [Noticed(s, r, sid) EXCEPT !.late = @ \cup ({<<Obj[r].type, sid>>} \ s.buffered)]

\* The shard writers.
Written(s) == [s EXCEPT !.buffered = {}, !.since = 0]

FlushShard(s) == IF s.since + 1 >= profile.chunk THEN Written(s) ELSE [s EXCEPT !.since = @ + 1]

\* save(), and the worker that takes its task.  Workers share nothing, so when one
\* encodes relative to the others makes no difference.
SaveTask(r) ==
  LET k == Len(tokens)
      w == k % NumWorkers
  IN /\ stage = "encode" /\ k < MaxTasks /\ Obj[r].type \notin NestedOnly[profile.finalize]
     /\ \E q \in {EncodedInShard[<<r, shards[w]>>]} :
          /\ shards' = [shards EXCEPT ![w] = FlushShard(PromotedInShard(q[1], r, q[2]))]
          /\ tokens' = Append(tokens, <<Obj[r].type, q[2]>>)
     /\ looped' = [db |-> SerialSave(looped.db, r),
                   ok |-> looped.ok /\ ~SerialFails(looped.db, r),
                   sids |-> Append(looped.sids, Saved[<<r, looped.db>>][2])]
     /\ UNCHANGED <<profile, stage, main, keep, final>>

Loaded == [t \in Types |-> UNION {shards[w].rows[t] : w \in Workers}]
Roots == UNION {shards[w].roots : w \in Workers}
Dispatch == UNION {shards[w].dispatch : w \in Workers}
Look(map, row) == <<row[1], IF Has(map, row) THEN At(map, row) ELSE row[2]>>

----------------------------------------------------------------------------
\* The merge of finalize="parity": rows are m.rows, m.keep and m.ok.

\* _load_shards, inside the ingest's transaction.
LoadShards ==
  /\ stage = "encode" /\ profile.finalize = "parity"
  /\ stage' = "content"
  /\ main' = [main EXCEPT !.rows = Loaded]
  /\ UNCHANGED <<profile, shards, tokens, keep, final, looped>>

\* Rows <<identity, sid>> of a table are one when their identity is, and the least sid
\* is kept.
Losers(ids) ==
  {<<x[2], Min({y[2] : y \in {y \in ids : y[1] = x[1]}})>> : x \in ids} \ {<<x[2], x[2]>> : x \in ids}

ContentLosers(rows) == Losers({<<d.key, d.sid>> : d \in rows})
ValueLosers(t, rows) == Losers({<<ValueKey(t, d), d.sid>> : d \in rows})

Kept(losers, sid) == IF Has(losers, sid) THEN At(losers, sid) ELSE sid

\* _apply_collapse: the losers go, with their child rows, and leave their role ...
Dropped(m, t, losers) ==
  LET main1 == {At(losers, d.sid) : d \in {d \in m.rows[t] : d.role = 1 /\ Has(losers, d.sid)}}
  IN [m EXCEPT !.keep = {k \in @ : k[1][1] # t \/ ~Has(losers, k[1][2])}
                          \cup {<<<<t, p[1]>>, p[2]>> : p \in losers},
               !.rows[t] = SetRole({d \in @ : ~Has(losers, d.sid)}, main1)]

\* ... and what referred to one refers to the row that was kept.
Collapsed(m, t, losers) ==
  [Dropped(m, t, losers) EXCEPT
     !.rows = [u \in Types |->
        {[d EXCEPT !.ref = IF RefType[u] = t THEN Kept(losers, @) ELSE @,
                   !.elems = IF ElemType[u] = t THEN [i \in DOMAIN @ |-> Kept(losers, @[i])]
                             ELSE @] : d \in @[u]}]]

\* _verify_collision_metadata: one grouped scan of the excluded columns.
MetadataAgrees(t, rows) ==
  t \in Annotated => \A d, e \in rows : d.key = e.key => d.note = e.note

CollapseContentOf(m, t) ==
  IF Dedup[t] # "content_id" \/ ContentLosers(m.rows[t]) = {} THEN m
  ELSE Collapsed([m EXCEPT !.ok = @ /\ MetadataAgrees(t, m.rows[t])], t,
                 ContentLosers(m.rows[t]))

CollapseValueOf(m, t) ==
  IF Dedup[t] # "by_value" \/ ValueLosers(t, m.rows[t]) = {} THEN m
  ELSE Collapsed(m, t, ValueLosers(t, m.rows[t]))

\* _Merger.run's two loops, in dependency order.
CollapseContent ==
  /\ stage = "content"
  /\ \E m \in {FoldLeft(CollapseContentOf, [rows |-> main.rows, keep |-> {}, ok |-> TRUE], Order)} :
       /\ stage' = IF m.ok THEN "values" ELSE "refused"
       /\ main' = [main EXCEPT !.rows = m.rows]
       /\ keep' = m.keep
  /\ UNCHANGED <<profile, shards, tokens, final, looped>>

\* One pass; another one follows unless it changed nothing.
CollapseValues ==
  /\ stage = "values"
  /\ \E m \in {FoldLeft(CollapseValueOf, [rows |-> main.rows, keep |-> keep, ok |-> TRUE], Order)} :
       /\ stage' = IF m.rows = main.rows THEN "sweep" ELSE "values"
       /\ main' = [main EXCEPT !.rows = m.rows]
       /\ keep' = m.keep
  /\ UNCHANGED <<profile, shards, tokens, final, looped>>

\* _close_reachability: along references, and along the elements of child rows.
Below(rows, k) ==
  UNION {({<<RefType[k[1]], d.ref>>} \ {<<RefType[k[1]], 0>>})
           \cup {<<ElemType[k[1]], d.elems[i]>> : i \in DOMAIN d.elems}
           : d \in {d \in rows[k[1]] : d.sid = k[2]}}

Grown(rows, reach) == reach \cup UNION {Below(rows, k) : k \in reach}

Reach(rows, seeds) ==
  FoldLeft(LAMBDA reach, n : Grown(rows, reach), seeds, [n \in 1..Cardinality(Records) |-> n])

\* _survivor_seeds, or, where no sids are tracked, the rows with the role.
Seeds(rows) ==
  IF profile.track THEN {Look(keep, k) : k \in Roots}
  ELSE UNION {{<<t, d.sid>> : d \in {d \in rows[t] : d.role = 1}} : t \in Types}

\* _delete_unreached
Only(rows, reach) == [t \in Types |-> {d \in rows[t] : <<t, d.sid>> \in reach}]

\* _promote_late_roles and _sweep_orphans.
SweepOrphans ==
  /\ stage = "sweep"
  /\ stage' = "compact"
  /\ LET late == {Look(keep, k) : k \in UNION {shards[w].late : w \in Workers}}
         rows == [t \in Types |-> SetRole(main.rows[t], {k[2] : k \in {k \in late : k[1] = t}})]
     IN main' = [main EXCEPT !.rows = Only(rows, Reach(rows, Seeds(rows)))]
  /\ UNCHANGED <<profile, shards, tokens, keep, final, looped>>

\* The n-th row of a table gets the sid n.
Ranks(places) ==
  {<<k, Cardinality({j \in places : j[1] = k[1] /\ j[2] <= k[2]})>> : k \in places}

Renumbered(rows, map) ==
  [t \in Types |->
     {[d EXCEPT !.sid = Look(map, <<t, @>>)[2],
                !.ref = IF @ = 0 THEN 0 ELSE Look(map, <<RefType[t], @>>)[2],
                !.elems = [i \in DOMAIN @ |-> Look(map, <<ElemType[t], @[i]>>)[2]]]
        : d \in rows[t]}]

Compact ==
  /\ stage = "compact"
  /\ stage' = "dispatch"
  /\ final' = Ranks(UNION {{<<t, d.sid>> : d \in main.rows[t]} : t \in Types})
  /\ main' = [main EXCEPT !.rows = Renumbered(@, final')]
  /\ UNCHANGED <<profile, shards, tokens, keep, looped>>

----------------------------------------------------------------------------
\* The projection of finalize="deferred"; main stays empty until the end.

\* _make_maps: content ids by the least sid, everything else by itself.
ContentMap ==
  UNION {{<<<<t, d.sid>>, IF Dedup[t] = "content_id"
                          THEN Min(Sids({e \in Loaded[t] : e.key = d.key})) ELSE d.sid>>
            : d \in Loaded[t]} : t \in Types}

MakeMaps ==
  /\ stage = "encode" /\ profile.finalize = "deferred"
  /\ stage' = "fixpoint"
  /\ keep' = ContentMap
  /\ UNCHANGED <<profile, shards, tokens, main, final, looped>>

\* _normalized_columns: all columns but sid, store_timestamp and logical_id, with the
\* references taken through the maps.
Normalized(t, d, map) == <<ValueKey(t, [d EXCEPT !.ref = Look(map, <<RefType[t], @>>)[2]]), d.role>>

\* The maps after one table's candidate has replaced its map.
Candidate(map, t) ==
  IF Dedup[t] # "by_value" THEN map
  ELSE {p \in map : p[1][1] # t}
         \cup {<<<<t, d.sid>>, Min({e.sid : e \in {e \in Loaded[t] :
                                      Normalized(t, e, map) = Normalized(t, d, map)}})>>
                 : d \in Loaded[t]}

\* _collapse_by_value_to_fixpoint, a pass a step.
CollapseMaps ==
  /\ stage = "fixpoint"
  /\ \E map \in {FoldLeft(Candidate, keep, Order)} :
       /\ keep' = map
       /\ stage' = IF map = keep THEN "verify" ELSE "fixpoint"
  /\ UNCHANGED <<profile, shards, tokens, main, final, looped>>

\* _verify_metadata
VerifyMetadata ==
  /\ stage = "verify"
  /\ stage' = IF \A t \in Types : Dedup[t] = "content_id" => MetadataAgrees(t, Loaded[t])
              THEN "survivors" ELSE "refused"
  /\ UNCHANGED <<profile, shards, tokens, main, keep, final, looped>>

\* A row stands for all that were mapped to it; its references do for theirs.
Canonical ==
  [t \in Types |->
     {[d EXCEPT !.ref = IF @ = 0 THEN 0 ELSE Look(keep, <<RefType[t], @>>)[2],
                !.elems = [i \in DOMAIN @ |-> Look(keep, <<ElemType[t], @[i]>>)[2]]]
        : d \in {d \in Loaded[t] : At(keep, <<t, d.sid>>) = d.sid}}]

\* _make_survivors: the occurrences of roots, or the staged rows with the role.
RootOccurrences ==
  IF profile.track THEN Roots
  ELSE UNION {{<<t, d.sid>> : d \in {d \in Loaded[t] : d.role = 1}} : t \in Types}

\* _make_survivors and _make_final_sids
MakeSurvivors ==
  /\ stage = "survivors"
  /\ stage' = "project"
  /\ \E rows \in {Canonical} :
       final' = Ranks(Reach(rows, {Look(keep, k) : k \in RootOccurrences}))
  /\ UNCHANGED <<profile, shards, tokens, main, keep, looped>>

\* _load_real_tables: each surviving row once, its role that of any occurrence.
ProjectTables ==
  /\ stage = "project"
  /\ stage' = "dispatch"
  /\ \E roots \in {{Look(keep, k) : k \in RootOccurrences}}, all \in {Canonical} :
       \E rows \in {[t \in Types |->
                    {[d EXCEPT !.role = IF <<t, d.sid>> \in roots THEN 1 ELSE 0]
                       : d \in {d \in all[t] : Has(final, <<t, d.sid>>)}}]} :
         main' = [main EXCEPT !.rows = Renumbered(rows, final)]
  /\ UNCHANGED <<profile, shards, tokens, keep, final, looped>>

----------------------------------------------------------------------------
\* The end of both.

\* Faulty variant: the row's own number, though another row stands for it.
OwnRow(row) == Look(final, row)

FinalRow(row) == Look(final, Look(keep, row))

\* _rebuild_untracked_dispatch reads the rows with the role again.
DispatchRows ==
  IF profile.track THEN {<<p[1], FinalRow(p[2])>> : p \in Dispatch}
  ELSE UNION {{<<d.key, <<t, d.sid>>>> : d \in {d \in main.rows[t] : d.role = 1}} : t \in Entries}

PutDispatch ==
  /\ stage = "dispatch"
  /\ \E rows \in {DispatchRows} :
       IF \E p \in rows : Conflicting(rows, p)
       THEN stage' = "refused" /\ UNCHANGED main
       ELSE stage' = "done" /\ main' = [main EXCEPT !.dispatch = rows]
  /\ UNCHANGED <<profile, shards, tokens, keep, final, looped>>

MergeDispatch == profile.finalize = "parity" /\ PutDispatch

RebuildDispatch == profile.finalize = "deferred" /\ PutDispatch

ShardsNext ==
  \/ \E r \in Records : SaveTask(r)
  \/ LoadShards \/ CollapseContent \/ CollapseValues \/ SweepOrphans \/ Compact
  \/ MakeMaps \/ CollapseMaps \/ VerifyMetadata \/ MakeSurvivors \/ ProjectTables
  \/ MergeDispatch \/ RebuildDispatch

ShardsSpec == ShardsInit /\ [][ShardsNext]_shardVars

----------------------------------------------------------------------------
\* Whatever the worker a record went to, the tables are those a loop of
\* SqlStore.save over the records would have left, and the ingest is refused
\* exactly when that loop refuses a record.
ShardsAsSerial ==
  /\ stage = "done" => looped.ok /\ Equivalent(main, looped.db)
  /\ stage = "refused" => ~looped.ok

\* resolved_sid: the sid a token ends at is that of a row holding the record.
TokensResolved ==
  stage = "done" /\ profile.track =>
    \A k \in DOMAIN tokens :
      LET row == FinalRow(tokens[k])
      IN /\ row[2] \in Sids(main.rows[row[1]])
         /\ TreeAt[<<row[1], row[2], main.rows>>]
              = TreeAt[<<row[1], looped.sids[k], looped.db.rows>>]

=============================================================================
