---------------------------- MODULE MCMongoSave ----------------------------
(***************************************************************************)
(* A family entry refers to a by-value record, which refers to a           *)
(* content-addressed record; any of the three may be saved on its own.     *)
(***************************************************************************)
EXTENDS MongoSave, TLC

CONSTANTS entry, value, leaf

MCObjects == {entry, value, leaf}
MCRefs == (entry :> {value}) @@ (value :> {leaf}) @@ (leaf :> {})
MCDedup == (entry :> "content_id") @@ (value :> "by_value") @@ (leaf :> "content_id")
MCCollection == [o \in MCObjects |-> o]

\* Every class content-addressed: a crash leaves orphans that a later save finds.
MCContentDedup == [o \in MCObjects |-> "content_id"]

Symmetry == Permutations(Stores)
=============================================================================
