-------------------------- MODULE MCSessionPackets --------------------------
(***************************************************************************)
(* TLC instance of SessionPackets.                                          *)
(***************************************************************************)
EXTENDS SessionPackets

=============================================================================
