------------------------- MODULE MCBackendLifecycle -------------------------
(* Instances of BackendLifecycle for TLC. *)
EXTENDS BackendLifecycle
=============================================================================
