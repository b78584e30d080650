------------------------------ MODULE MCParty -------------------------------
(***************************************************************************)
(* Party for TLC: the players are alike.                                   *)
(***************************************************************************)
EXTENDS Party, TLC

PlayerSymmetry == Permutations(Players)
=============================================================================
