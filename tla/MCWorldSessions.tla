--------------------------- MODULE MCWorldSessions ---------------------------
(***************************************************************************)
(* TLC instance of WorldSessions; session objects are interchangeable.      *)
(***************************************************************************)
EXTENDS WorldSessions, TLC

MCSymmetry == Permutations(Sessions)

=============================================================================
