------------------------------- MODULE SshPeer -------------------------------
(***************************************************************************)
(* What the BFF's SSH gateway promises to the client of one WebSocket:     *)
(* which of the messages of packages/types/src/ssh.ts it sends, in which   *)
(* order, and that nothing follows an "error" or a "closed".               *)
(*                                                                         *)
(* SshGateway is shown to implement this module; SshTerminals uses it as   *)
(* the environment of the browser side.                                    *)
(***************************************************************************)
EXTENDS Naturals, Sequences

CONSTANTS Sock,         \* the WebSockets, one for each terminal session
          ChunkSizes    \* the lengths an output chunk can have

VARIABLES dialog,       \* how far the conversation on a socket has come
          sent          \* everything the server has sent on a socket

vars == <<dialog, sent>>

Dialogs == {"idle", "connected", "asked", "refused", "ready", "over"}

Plain(type) == [type |-> type, size |-> 0]
Output(n)   == [type |-> "output", size |-> n]

ServerMsg == {Plain(k) : k \in {"ready", "error", "closed", "needs-credentials"}}
               \cup {Output(n) : n \in ChunkSizes}

(* <<before, type of the message, after>> *)
Turns == { <<"asked", "ready", "ready">>,
           <<"asked", "needs-credentials", "refused">>,
           <<"asked", "error", "over">>,
           <<"ready", "output", "ready">>,
           <<"ready", "error", "over">>,
           <<"ready", "closed", "over">> }

TypeOK == /\ dialog \in [Sock -> Dialogs]
          /\ sent \in [Sock -> Seq(ServerMsg)]

Init == /\ dialog = [w \in Sock |-> "idle"]
        /\ sent = [w \in Sock |-> <<>>]

(* The upgrade request arrives, and the session cookie is good or not. *)
Accept(w) == /\ dialog[w] = "idle"
             /\ dialog' = [dialog EXCEPT ![w] = "connected"]
             /\ UNCHANGED sent

Reject(w) == /\ dialog[w] = "idle"
             /\ dialog' = [dialog EXCEPT ![w] = "over"]
             /\ UNCHANGED sent

(* The client's one init message arrives. *)
Ask(w) == /\ dialog[w] = "connected"
          /\ dialog' = [dialog EXCEPT ![w] = "asked"]
          /\ UNCHANGED sent

(* The server sends m. *)
Emit(w, m) == \E after \in Dialogs :
                 /\ <<dialog[w], m.type, after>> \in Turns
                 /\ dialog' = [dialog EXCEPT ![w] = after]
                 /\ sent' = [sent EXCEPT ![w] = Append(@, m)]

(* The init message is answered in the step that receives it. *)
AskAndEmit(w, m) == /\ dialog[w] = "connected"
                    /\ \E after \in Dialogs :
                          /\ <<"asked", m.type, after>> \in Turns
                          /\ dialog' = [dialog EXCEPT ![w] = after]
                    /\ sent' = [sent EXCEPT ![w] = Append(@, m)]

(* The client closes the socket, or the network loses it. *)
HangUp(w) == /\ dialog[w] \notin {"idle", "over"}
             /\ dialog' = [dialog EXCEPT ![w] = "over"]
             /\ UNCHANGED sent

Next == \E w \in Sock : \/ Accept(w) \/ Reject(w) \/ Ask(w) \/ HangUp(w)
                        \/ \E m \in ServerMsg : Emit(w, m) \/ AskAndEmit(w, m)

Spec == Init /\ [][Next]_vars
=============================================================================
