---------------------------- MODULE MCMapUpdater ----------------------------
(***************************************************************************)
(* TLC instance of MapUpdater: a continent and a base map that holds two    *)
(* instances, one of them a test map.                                       *)
(***************************************************************************)
EXTENDS MapUpdater

CONSTANTS c1, b1, i1, i2

MCBase == [i \in Instances |-> b1]

=============================================================================
