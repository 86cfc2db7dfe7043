------------------------------ MODULE MCHostDma ------------------------------
(* Counters of 4 values, so that 13 transfers make three laps. *)
EXTENDS HostDma

CONSTANTS e1, e2
MCEntries == {e1, e2}
=============================================================================
