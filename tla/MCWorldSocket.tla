---------------------------- MODULE MCWorldSocket ----------------------------
(***************************************************************************)
(* TLC instance of WorldSocket.                                             *)
(***************************************************************************)
EXTENDS WorldSocket

=============================================================================
