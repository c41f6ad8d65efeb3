---------------------------- MODULE MCEventFanout ----------------------------
(* EventFanout for TLC.                                                    *)
EXTENDS EventFanout, TLC

Symmetry == Permutations(Source) \cup Permutations(Timer)
=============================================================================
