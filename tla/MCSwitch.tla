------------------------------ MODULE MCSwitch ------------------------------
(* Instance of Switch for TLC: four stations, one own address, one group    *)
(* address, two interfaces and a table of three slots.                      *)
EXTENDS Switch, TLC

CONSTANTS h1, h2, h3, h4, nic, bcast

Stations == {h1, h2, h3, h4}
MCMac == Stations \union {nic, bcast}
MCGroup == {bcast}
MCNicMac == {nic}
MCDriverIfcs == {NumIfc, NumIfc + 1}

\* stations differ only in name
StationSymmetry == Permutations(Stations)
=============================================================================
