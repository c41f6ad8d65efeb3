--------------------------- MODULE MCGuestDetail ---------------------------
(* GuestDetail for TLC: one guest, of either kind.                         *)
EXTENDS GuestDetail

CONSTANT g1

OneSection == {"status"}
OneRow == [s \in OneSection |-> {g1}]
AllTabs == {"summary", "options", "hardware", "resources"}

(* A bound: no action is under way once both saves have been used. *)
Quiet == (\A s \in Save : save[s] # None) => \A r \in Request : request[r] = None /\ task[r] = None
=============================================================================
