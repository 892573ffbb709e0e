------------------------------ MODULE MCTrade ------------------------------
(* Trade for TLC: players and items are interchangeable.                   *)
EXTENDS Trade, TLC

Symmetry == Permutations(Players) \cup Permutations(Items)

=============================================================================
