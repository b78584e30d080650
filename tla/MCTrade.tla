------------------------------- MODULE MCTrade -------------------------------
(***************************************************************************)
(* Two players who hold items, or three who hold only coin (Items empty).  *)
(***************************************************************************)
EXTENDS Trade, TLC

CONSTANTS p1, p2, p3, x1, x2

MCInit ==
    /\ Init
    /\ inventory = [p \in Players |->
          [s \in AllSlots |->
             CASE p = p1 /\ s = 0 /\ x1 \in Items -> x1
               [] p = p2 /\ s = 0 /\ x2 \in Items -> x2
               [] OTHER -> None]]
    /\ copper = [p \in Players |-> MaxCopper - 1]

MCSpec == MCInit /\ [][Next]_vars
\* Nothing keeps trade.currency from a negative amount.
MCAmounts == {-1, 1}

\* Two players whose items are renamed with them are alike.
SwapSymmetry == {(p1 :> p2) @@ (p2 :> p1) @@ (x1 :> x2) @@ (x2 :> x1)}

\* Without items the players are alike.
PlayerSymmetry == Permutations(Players)
=============================================================================
