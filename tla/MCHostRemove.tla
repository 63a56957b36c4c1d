---------------------------- MODULE MCHostRemove ----------------------------
(* Clusters for TLC: hosts are numbered, the API server runs on host 1. *)
EXTENDS HostRemove

FiveHosts == <<1, 2, 3, 4, 5>>
FourHosts == <<1, 2, 3, 4>>
ThreeHosts == <<1, 2, 3>>
=============================================================================
