------------------------------ MODULE MCCluster ------------------------------
(***************************************************************************)
(* Two shards, and a character or none.                                    *)
(***************************************************************************)
EXTENDS Cluster

CONSTANT c1      \* a character
=============================================================================
