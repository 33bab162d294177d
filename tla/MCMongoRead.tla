---------------------------- MODULE MCMongoRead ----------------------------
(* Readers that take no lock, beside saves and an fsck that may die between *)
(* two deletes, on a replica set or in degraded mode.  An entry and a       *)
(* by-value record refer to a content-addressed record.                     *)
EXTENDS MongoSaveTx, TLC

CONSTANTS entry, value, leaf

MCObjects == {entry, value, leaf}
MCRefs == (entry :> {leaf}) @@ (value :> {leaf}) @@ (leaf :> {})
MCDedup == (entry :> "content_id") @@ (value :> "by_value") @@ (leaf :> "content_id")
MCCollection == [o \in MCObjects |-> o]

\* Bound: in degraded mode nobody saves the by-value record here (MCMongoSave does).
FewerObjects == \A w \in Stores : value \notin Range(stack[w])
=============================================================================
