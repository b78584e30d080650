----------------------------- MODULE MCAuction ------------------------------
(***************************************************************************)
(* Instances of Auction for TLC.                                           *)
(***************************************************************************)
EXTENDS Auction

CONSTANT p1

(* One player owns both lots, so that both can come back to his buyback list. *)
MCOwner == [l \in Lots |-> p1]

(* A vendor asks a little for a lot. *)
MCValue == [l \in Lots |-> 1]
=============================================================================
