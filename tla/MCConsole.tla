------------------------------ MODULE MCConsole ------------------------------
(* Console for TLC.  No symmetry: the run checks liveness. *)
EXTENDS Console

==============================================================================
