---------------------------- MODULE MCSqlIdentity ----------------------------
(* Instances of SqlIdentity: n refers to a, and a2 is a with other metadata. *)
EXTENDS SqlIdentity, TLC

MCKey == [r \in Records |-> IF r = "a2" THEN "a" ELSE r]
MCRef == [r \in Records |-> IF r = "n" THEN "a" ELSE NoRecord]
Processes == Permutations(Stores)
=============================================================================
