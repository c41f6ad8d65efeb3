------------------------------- MODULE SshPorts -------------------------------
(***************************************************************************)
(* The message ports between the terminal elements of the browser's tabs   *)
(* and the SSH SharedWorker.  Every element has a port of its own, so a    *)
(* port is named by its element; each direction is FIFO.                   *)
(***************************************************************************)
EXTENDS Naturals, Sequences

CONSTANTS Inline,     \* terminals embedded in a VM or LXC view
          Popup,      \* terminals of popped-out windows
          Sid,        \* session ids that _connect and _connectAuto may mint
          None        \* the empty session id

ASSUME PortConstants == Inline \cap Popup = {} /\ None \notin Sid

Term == Inline \cup Popup

VARIABLES alive,      \* elements that are on screen
          inbox,      \* messages posted to an element and not yet handled
          outbox      \* messages an element posted and the worker has not handled

portVars == <<alive, inbox, outbox>>

(* A piece of terminal output, known by the session it belongs to and its  *)
(* place in what the gateway sent on that session's socket.                *)
Chunk == [sid : Sid, pos : Nat]

(* Element to worker. "named": the create message names a node and a guest. *)
Inbound == [type : {"create", "attach", "input", "resize", "detach"},
            sid : Sid, named : BOOLEAN]

Create(s, named) == [type |-> "create", sid |-> s, named |-> named]
Ask(type, s)     == [type |-> type, sid |-> s, named |-> FALSE]

(* Worker to element. *)
Outbound == [type : {"ready", "output", "error", "closed", "needs-credentials"},
             sid : Sid, data : Seq(Chunk)]

Tell(type, s) == [type |-> type, sid |-> s, data |-> <<>>]
Show(s, data) == [type |-> "output", sid |-> s, data |-> data]

PortsOK == /\ alive \subseteq Term
           /\ inbox \in [Term -> Seq(Outbound)]
           /\ outbox \in [Term -> Seq(Inbound)]

PortsInit == /\ alive = {}
             /\ inbox = [t \in Term |-> <<>>]
             /\ outbox = [t \in Term |-> <<>>]

(* port.postMessage for each message of ms, on every port of P; a port     *)
(* whose page is gone swallows it.                                         *)
Post(P, ms) ==
  inbox' = [t \in Term |-> IF t \in P \cap alive THEN inbox[t] \o ms ELSE inbox[t]]

PostToWorker(t, m) == outbox' = [outbox EXCEPT ![t] = Append(@, m)]
=============================================================================
