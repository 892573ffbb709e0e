--------------------------- MODULE MCDatabasePool ---------------------------
(***************************************************************************)
(* TLC instance of DatabasePool; operations and connections of a pool are   *)
(* interchangeable.                                                         *)
(***************************************************************************)
EXTENDS DatabasePool, TLC

MCSymmetry == Permutations(Ops) \cup Permutations(Conns)

=============================================================================
