----------------------------- MODULE MCMPSCQueue -----------------------------
(***************************************************************************)
(* TLC instance of MPSCQueue.                                               *)
(***************************************************************************)
EXTENDS MPSCQueue

=============================================================================
