-------------------------- MODULE MCBadBlockTable ---------------------------
(***************************************************************************)
(* A small instance of BadBlockTable for TLC: dies 0 and 9 of the device,  *)
(* whose table and copy share a page of the GC buffer.                     *)
(***************************************************************************)
EXTENDS BadBlockTable

=============================================================================
