-------------------------- MODULE MCNvmeController --------------------------
(* A small instance of NvmeController for TLC; the .cfg gives the constants. *)
EXTENDS NvmeController

=============================================================================
