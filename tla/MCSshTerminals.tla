---------------------------- MODULE MCSshTerminals ----------------------------
(* SshTerminals for TLC: terminals embedded in views, popped-out windows   *)
(* and the ids of the sessions they open.                                  *)
EXTENDS SshTerminals, TLC

(* Session ids are random and interchangeable.  Used only for safety.      *)
SessionSymmetry == Permutations(Sid)
=============================================================================
