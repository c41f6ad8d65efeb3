------------------------------ MODULE MCPoller ------------------------------
(* Poller for TLC.                                                         *)
EXTENDS Poller

CONSTANT n1

(* The node is always on, or comes up with the first change. *)
Schedule == {[v \in Version |-> {n1}],
             [v \in Version |-> IF v = 1 THEN {} ELSE {n1}]}

(* The account may not read the storage of the node. *)
NoStorage == {<<n1, "storage">>}
=============================================================================
