------------------------------ MODULE MCWebApp ------------------------------
(* Two pages of one browser, a host that is saved and one, whose name is   *)
(* an IPv6 address, that is not; two logins in all.                        *)
EXTENDS WebApp, TLC

CONSTANTS p1, p2

MCHost == {"h4", "h6"}
MCCut == {"h6"}
MCMode == {"system", "insecure"}
MCOffer == p1 :> {[host |-> "h4", mode |-> "system", save |-> TRUE], [host |-> "h6", mode |-> "insecure", save |-> FALSE]}
           @@ p2 :> {[host |-> "h4", mode |-> "insecure", save |-> TRUE]}
MCAddress == p1 :> {"vm"} @@ p2 :> {"home"}
MCView == {"home", "vm"}
Symmetry == Permutations(Id) \cup Permutations(Quit)
=============================================================================
