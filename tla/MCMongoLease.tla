---------------------------- MODULE MCMongoLease ----------------------------
(* Instances of MongoLease for TLC. *)
EXTENDS MongoLease
=============================================================================
