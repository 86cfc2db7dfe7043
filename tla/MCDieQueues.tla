----------------------------- MODULE MCDieQueues ----------------------------
(* Small instances of DieQueues for TLC; the .cfg files give the constants. *)
EXTENDS DieQueues

=============================================================================
