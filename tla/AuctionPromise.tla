--------------------------- MODULE AuctionPromise ---------------------------
(***************************************************************************)
(* What the auction house promises its players, with no clock, no timers   *)
(* and no store: a lot is owned by one player, or on sale for one seller   *)
(* at one price, or kept for its seller by a vendor, or gone; a sale hands *)
(* the lot over and moves exactly the price; an unsold lot goes back to    *)
(* its seller, who pays the vendor for it.  Auction.tla is shown to        *)
(* implement this module.                                                  *)
(***************************************************************************)
EXTENDS Integers

CONSTANTS Players,      \* characters
          Lots,         \* items that can be auctioned, each one of its kind
          Prices,       \* what sellers ask
          Commissions,  \* what they may be charged for a sale, as an int
          Value,        \* [Lots -> Nat], what a vendor asks for a lot
          AsInt(_)      \* purses are int and wrap around

VARIABLES state,     \* [Lots -> the places that hold the lot, one or none]
          purse      \* [Players -> copper, an int]

Owned(p) == {<<"owned", p>>}
OnSale(p, price) == {<<"sale", p, price>>}
Kept(p) == {<<"returned", p>>}
Gone == {}

(***************************************************************************)
(* p puts a lot of his up and pays a commission of at most what he has.    *)
(***************************************************************************)
Offer(p, l) ==
    /\ state[l] = Owned(p)
    /\ \E price \in Prices : state' = [state EXCEPT ![l] = OnSale(p, price)]
    /\ \E fee \in Commissions :
          fee <= purse[p] /\ purse' = [purse EXCEPT ![p] = AsInt(@ - fee)]

(***************************************************************************)
(* b buys the lot: he gets it and the seller gets its price, all of it.  A *)
(* purse that is not below zero must hold the price.                       *)
(***************************************************************************)
Sell(b, l) ==
    \E p \in Players, price \in Prices :
       /\ purse[b] >= 0 => price <= purse[b]
       /\ state[l] = OnSale(p, price)
       /\ state' = [state EXCEPT ![l] = Owned(b)]
       /\ purse' = [[purse EXCEPT ![b] = AsInt(@ - price)] EXCEPT ![p] = AsInt(@ + price)]

(***************************************************************************)
(* The lot goes back to its seller's vendor, and may push another lot kept *)
(* for him out of the full buyback list.                                   *)
(***************************************************************************)
Return(p, l) ==
    /\ \E price \in Prices : state[l] = OnSale(p, price)
    /\ \/ state' = [state EXCEPT ![l] = Kept(p)]
       \/ \E old \in Lots \ {l} :
             /\ state[old] = Kept(p)
             /\ state' = [state EXCEPT ![l] = Kept(p), ![old] = Gone]
    /\ purse' = purse

(***************************************************************************)
(* The seller pays what the vendor asks and has his lot again.             *)
(***************************************************************************)
Redeem(p, l) ==
    /\ state[l] = Kept(p) /\ Value[l] <= purse[p]
    /\ state' = [state EXCEPT ![l] = Owned(p)]
    /\ purse' = [purse EXCEPT ![p] = @ - Value[l]]

Init ==
    /\ state \in [Lots -> {Owned(p) : p \in Players}]
    /\ purse \in [Players -> Nat]

Next ==
    \E p \in Players, l \in Lots :
       Offer(p, l) \/ Sell(p, l) \/ Return(p, l) \/ Redeem(p, l)

Spec == Init /\ [][Next]_<<state, purse>>
=============================================================================
