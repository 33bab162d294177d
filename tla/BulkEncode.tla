----------------------------- MODULE BulkEncode -----------------------------
(***************************************************************************)
(* What serial bulk ingestion computes (backend/sql/bulk.py, parity path): *)
(* rows are encoded and deduplicated in memory under sids of its own, and  *)
(* each chunk is resolved against the rows that were there before.  An     *)
(* ingest's memory, and the database as its transaction sees it, is one    *)
(* record.  save(promote=...) is left out.                                 *)
(***************************************************************************)
EXTENDS SqlSave

Ingest == [rows : Tables,                               \* _rows: this chunk
           db : DB,                                     \* the open transaction's view
           pre : SUBSET Types,                          \* _preexisting
           next : [Types -> Nat],                       \* _next_sid
           content : SUBSET ((Types \X STRING) \X Nat),            \* _content_index
           value : SUBSET ((Types \X STRING \X STRING \X Nat) \X Nat),  \* _value_index
           meta : SUBSET (STRING \X Records),           \* _meta_values, _meta_sources
           dispatch : SUBSET (STRING \X (Types \X Nat)),\* _dispatch_rows
           roots : SUBSET (Types \X Nat),               \* _chunk_roots
           since : Nat,                                 \* _since_flush
           resolved : SUBSET ((Types \X Nat) \X Nat),   \* _resolved_map
           ok : BOOLEAN]                                \* nothing was raised

Put(map, k, v) == {p \in map : p[1] # k} \cup {<<k, v>>}
Drop(map, ks) == {p \in map : p[1] \notin ks}


Begun(db, pre) ==
  [rows |-> [t \in Types |-> {}], db |-> db, pre |-> pre,
   next |-> [t \in Types |-> NextSid(db.rows[t])], content |-> {}, value |-> {},
   meta |-> {}, dispatch |-> {}, roots |-> {}, since |-> 0, resolved |-> {}, ok |-> TRUE]

\* Rows already flushed and rows still buffered.
AllRows(s) == [t \in Types |-> s.db.rows[t] \cup s.rows[t]]

----------------------------------------------------------------------------
\* Encoding: _encode_active, _promote_occurrence.

\* A hit in the chunk is compared with the first occurrence, a later one with the row.
CheckHit(s, r, sid) ==
  LET agrees == IF Has(s.meta, Obj[r].key) THEN Tree[At(s.meta, Obj[r].key)] = Tree[r]
                ELSE TreeAt[<<Obj[r].type, sid, AllRows(s)>>] = Tree[r]
  IN [s EXCEPT !.ok = @ /\ agrees]

Buffer(s, r, sid, ref) ==
  LET t == Obj[r].type
      d == NewRow(r, sid, ref)
      t1 == [s EXCEPT !.rows[t] = @ \cup {d}, !.next[t] = @ + 1]
  IN CASE Dedup[t] = "content_id" ->
            [t1 EXCEPT !.content = Put(@, <<t, d.key>>, sid), !.meta = Put(@, d.key, r)]
       [] Dedup[t] = "by_value" -> [t1 EXCEPT !.value = Put(@, ValueKey(t, d), sid)]
       [] OTHER -> t1

Encoded[x \in Records \X Ingest] ==
  LET r == x[1]
      s == x[2]
      o == Obj[r]
      t == o.type
      dep == IF o.ref = NoRecord THEN <<s, 0>> ELSE Encoded[<<o.ref, s>>]
      key == ValueKey(t, NewRow(r, 0, dep[2]))
      sid == dep[1].next[t]
      Elem(acc, e) == LET q == Encoded[<<e, acc[1]>>] IN <<q[1], Append(acc[2], q[2])>>
      all == FoldLeft(Elem, <<Buffer(dep[1], r, sid, dep[2]), <<>>>>, o.elems)
  IN CASE Dedup[t] = "content_id" /\ Has(s.content, <<t, o.key>>) ->
            LET known == At(s.content, <<t, o.key>>) IN <<CheckHit(s, r, known), known>>
       [] Dedup[t] = "by_value" /\ Has(dep[1].value, key) ->
            <<dep[1], At(dep[1].value, key)>>
       [] OTHER -> <<[all[1] EXCEPT !.rows[t] = SetElems(@, sid, all[2])], sid>>

\* The root's role, its place among the chunk's roots and its dispatch row.
Promoted(s, r, sid) ==
  LET t == Obj[r].type
      row == <<Obj[r].key, <<t, sid>>>>
      clash == Has(s.dispatch, row[1]) /\ At(s.dispatch, row[1]) # row[2]
      main == [s EXCEPT !.rows[t] = SetRole(@, {sid}),
                        !.db.rows[t] = SetRole(@, {sid} \ Sids(s.rows[t])),
                        !.roots = @ \cup {<<t, sid>>}, !.since = @ + 1]
  IN IF t \notin Entries THEN main
     ELSE [main EXCEPT !.dispatch = Put(@, row[1], row[2]), !.ok = @ /\ ~clash]

BulkSid(s, r) == Encoded[<<r, s>>][2]
BulkSave(s, r) == Promoted(Encoded[<<r, s>>][1], r, BulkSid(s, r))

----------------------------------------------------------------------------
\* A flush: _resolve_and_insert.

SameRow(t, d, e) ==
  IF Dedup[t] = "content_id" THEN d.key = e.key ELSE ValueKey(t, d) = ValueKey(t, e)

\* The staged rows that are there already: <<staged sid, stored sid>>.
Hits(s, t) ==
  LET Equal(d) == {e \in s.db.rows[t] : SameRow(t, d, e)}
  IN {<<d.sid, Min(Sids(Equal(d)))>> : d \in {d \in s.rows[t] : Equal(d) # {}}}

Final(hits, sid) == IF Has(hits, sid) THEN At(hits, sid) ELSE sid

\* _apply_remap: whatever is still buffered refers to the stored row instead.
Remap(s, t, hits) ==
  [s EXCEPT
     !.rows = [u \in Types |->
        {[d EXCEPT !.ref = IF RefType[u] = t THEN Final(hits, @) ELSE @,
                   !.elems = IF ElemType[u] = t THEN [i \in DOMAIN @ |-> Final(hits, @[i])]
                             ELSE @] : d \in s.rows[u]}],
     !.dispatch = {<<p[1], <<p[2][1], IF p[2][1] = t THEN Final(hits, p[2][2]) ELSE p[2][2]>>>>
                     : p \in @}]

\* The staged rows give way: index, role, resolved sids, drop, remap.
Collapse(s, t, hits) ==
  LET gone == {d \in s.rows[t] : Has(hits, d.sid)}
      main == {At(hits, d.sid) : d \in {d \in gone : d.role = 1}}
      keys == {<<<<t, d.key>>, At(hits, d.sid)>> : d \in gone}
      values == {<<ValueKey(t, d), At(hits, d.sid)>> : d \in gone}
      indexed == IF Dedup[t] = "content_id"
                 THEN [s EXCEPT !.content = Drop(@, {k[1] : k \in keys}) \cup keys]
                 ELSE [s EXCEPT !.value = Drop(@, {v[1] : v \in values}) \cup values]
      dropped == [indexed EXCEPT !.db.rows[t] = SetRole(@, main),
                                 !.resolved = @ \cup {<<<<t, h[1]>>, h[2]>> : h \in hits},
                                 !.rows[t] = @ \ gone]
  IN Remap(dropped, t, hits)

\* _dedup_content: the metadata of a hit must be that of the stored row.
DedupContent(s, t) ==
  LET hits == Hits(s, t)
      agrees == \A h \in hits :
                  LET d == RowAt(s.rows[t], h[1])
                  IN Has(s.meta, d.key) =>
                       TreeAt[<<t, h[2], s.db.rows>>] = Tree[At(s.meta, d.key)]
  IN IF hits = {} THEN s ELSE Collapse([s EXCEPT !.ok = @ /\ agrees], t, hits)

\* _dedup_by_value: a remapped reference may make another row of the table a hit.
DedupByValue(s, t) ==
  LET Pass[n \in Nat] ==
        IF n = 0 THEN s
        ELSE LET p == Pass[n - 1]
             IN IF Hits(p, t) = {} THEN p ELSE Collapse(p, t, Hits(p, t))
  IN Pass[Cardinality(s.rows[t])]

DedupTable(s, t) ==
  CASE t \notin s.pre \/ Dedup[t] = "none" -> s
    [] Dedup[t] = "content_id" -> DedupContent(s, t)
    [] Dedup[t] = "by_value" -> DedupByValue(s, t)

\* Each pre-existing table once, what is referred to before what refers to it.
ResolveHits(s) == FoldLeft(DedupTable, s, Order)

\* The buffered rows that a top-level save of this chunk still reaches.
Reached(s) ==
  LET Buffered == {k \in Types \X UNION {Sids(s.rows[u]) : u \in Types} :
                     k[2] \in Sids(s.rows[k[1]])}
      Below(k) == LET d == RowAt(s.rows[k[1]], k[2])
                  IN {<<RefType[k[1]], d.ref>>}
                       \cup {<<ElemType[k[1]], d.elems[i]>> : i \in DOMAIN d.elems}
      Wave[n \in Nat] ==
        IF n = 0 THEN s.roots \cap Buffered
        ELSE Wave[n - 1] \cup ((UNION {Below(k) : k \in Wave[n - 1]}) \cap Buffered)
  IN Wave[Cardinality(Buffered)]

\* Faulty variant: what a dropped row needed is inserted all the same.
KeepGarbage(s) == s

\* _collect_garbage: what only a dropped row needed goes, with its index entries.
CollectGarbage(s) ==
  LET reached == Reached(s)
      Swept(t) == {d \in s.rows[t] : <<t, d.sid>> \notin reached}
      swept == UNION {{<<t, d>> : d \in Swept(t)} : t \in Types}
  IN [s EXCEPT !.rows = [t \in Types |-> @[t] \ Swept(t)],
               !.content = @ \ {<<<<x[1], x[2].key>>, x[2].sid>> : x \in swept},
               !.value = @ \ {<<ValueKey(x[1], x[2]), x[2].sid>> : x \in swept}]

\* _refresh_value_index
Refresh(s) ==
  LET byValue == {t \in Types : Dedup[t] = "by_value"}
      now == UNION {{<<ValueKey(t, d), d.sid>> : d \in s.rows[t]} : t \in byValue}
  IN [s EXCEPT !.value = Drop(@, {v[1] : v \in now}) \cup now]

SweepHits(s, hit) == IF hit.resolved # s.resolved THEN CollectGarbage(hit) ELSE hit

InsertRows(s) == [s EXCEPT !.db.rows = AllRows(s), !.rows = [t \in Types |-> {}],
                           !.meta = {}, !.roots = {}, !.since = 0]

Flush(s) == InsertRows(Refresh(SweepHits(s, ResolveHits(s))))

\* _flush_dispatch and the unique indexes, which refuse duplicates.
FlushDispatch(s) ==
  [s EXCEPT !.ok = @ /\ \A p \in s.dispatch : ~Conflicting(s.db.dispatch, p),
            !.db.dispatch = @ \cup s.dispatch]

UniqueKeys(db) ==
  \A t \in Types : Dedup[t] = "content_id" =>
    \A d, e \in db.rows[t] : d.key = e.key => d = e

Verified(s) == [s EXCEPT !.ok = @ /\ UniqueKeys(s.db)]
Finalize(s) == Verified(FlushDispatch(s))

\* Faulty variant: resolved by the bare sid, whatever its table.
ResolvedBare(s, t, sid) ==
  IF \E p \in s.resolved : p[1][2] = sid
  THEN (CHOOSE p \in s.resolved : p[1][2] = sid)[2] ELSE sid

\* resolved_sid
ResolvedSid(s, t, sid) == IF Has(s.resolved, <<t, sid>>) THEN At(s.resolved, <<t, sid>>) ELSE sid
=============================================================================
