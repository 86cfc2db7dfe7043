---------------------------- MODULE MCLruBuffer -----------------------------
(* Small instances of LruBuffer for TLC. *)
EXTENDS LruBuffer

CONSTANTS a, b, t1, t2

=============================================================================
