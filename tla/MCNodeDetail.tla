---------------------------- MODULE MCNodeDetail ----------------------------
(* NodeDetail for TLC: the two sections with panels.                       *)
EXTENDS NodeDetail, TLC

CONSTANTS ct, vm

ListRows == [s \in NodeReloads |-> NodeRows[s]]
OneTab == {"summary"}
Symmetry == Permutations(Request)
=============================================================================
