---------------------------- MODULE SshSharedWorker ----------------------------
(***************************************************************************)
(* The SSH SharedWorker (apps/web/src/workers/ssh-shared.worker.ts): one   *)
(* WebSocket and one replay buffer for each session, and the ports that    *)
(* watch it.  The gateway at the other end of a WebSocket is SshPeer.      *)
(***************************************************************************)
EXTENDS SshPorts

CONSTANTS ChunkSizes,    \* lengths of output chunks
          BufferLimit,   \* MAX_BUFFER_CHARS
          MaxSent        \* bound: messages the gateway sends on one socket

ASSUME WorkerConstants == /\ ChunkSizes \subseteq Nat \ {0}
                          /\ BufferLimit \in Nat \ {0}
                          /\ MaxSent \in Nat

VARIABLES sessions,      \* keys of the map of sessions
          ports,         \* session.ports
          buffer,        \* session.buffer
          chars,         \* session.bufferChars
          named,         \* session.initMsg names a guest
          ws,            \* session.ws.readyState
          got,           \* messages the socket has handed to the worker
          dialog, sent   \* the gateway: see SshPeer

workerVars == <<sessions, ports, buffer, chars, named, ws, got, dialog, sent>>

Peer == INSTANCE SshPeer WITH Sock <- Sid

WorkerOK == /\ sessions \subseteq Sid
            /\ ports \in [Sid -> SUBSET Term]
            /\ buffer \in [Sid -> Seq(Chunk)]
            /\ named \in [Sid -> BOOLEAN]
            /\ ws \in [Sid -> {"none", "connecting", "open", "closing", "closed"}]
            /\ got \in [Sid -> Nat]
            /\ Peer!TypeOK

WorkerInit == /\ sessions = {}
              /\ ports = [s \in Sid |-> {}]
              /\ buffer = [s \in Sid |-> <<>>]
              /\ chars = [s \in Sid |-> 0]
              /\ named = [s \in Sid |-> FALSE]
              /\ ws = [s \in Sid |-> "none"]
              /\ got = [s \in Sid |-> 0]
              /\ Peer!Init

SetWs(s, state) == ws' = [ws EXCEPT ![s] = state]

-----------------------------------------------------------------------------
(* appendBuffer: push the chunk, then shift the oldest while the buffer is *)
(* over its limit and holds more than one.                                 *)
SizeOf(c) == sent[c.sid][c.pos].size

RunningSum(d) ==
  LET upTo[i \in 0..Len(d)] == IF i = 0 THEN 0 ELSE upTo[i - 1] + d[i]
  IN  upTo

Length(b, i) == RunningSum([j \in 1..Len(b) |-> SizeOf(b[j])])[i]

Fits(b, total, k) == k = Len(b) - 1 \/ total - Length(b, k) <= BufferLimit

Excess(b, total) == CHOOSE k \in 0..(Len(b) - 1) :
                      Fits(b, total, k) /\ \A j \in 0..(k - 1) : ~Fits(b, total, j)

(* A mutant that does not count what it removes out of bufferChars. *)
AppendBufferMiscounts(s, c) ==
  LET pushed == Append(buffer[s], c)
      total  == chars[s] + SizeOf(c)
      k      == Excess(pushed, total)
  IN  /\ buffer' = [buffer EXCEPT ![s] = SubSeq(pushed, k + 1, Len(pushed))]
      /\ chars' = [chars EXCEPT ![s] = total]

AppendBuffer(s, c) ==
  LET pushed == Append(buffer[s], c)
      total  == chars[s] + SizeOf(c)
      k      == Excess(pushed, total)
  IN  /\ buffer' = [buffer EXCEPT ![s] = SubSeq(pushed, k + 1, Len(pushed))]
      /\ chars' = [chars EXCEPT ![s] = total - Length(pushed, k)]

-----------------------------------------------------------------------------
(* handlePortMessage, one action for each type of message.                 *)
Take(t, type) == /\ outbox[t] # <<>>
                 /\ Head(outbox[t]).type = type
                 /\ outbox' = [outbox EXCEPT ![t] = Tail(@)]
                 /\ UNCHANGED alive

AttachTo(t, s) ==
  \/ /\ s \notin sessions
     /\ Post({t}, <<Tell("error", s)>>)
     /\ UNCHANGED ports
  \/ /\ s \in sessions
     /\ ports' = [ports EXCEPT ![s] = @ \cup {t}]
     /\ IF buffer[s] = <<>> THEN UNCHANGED inbox
        ELSE Post({t}, <<Tell("ready", s), Show(s, buffer[s])>>)

CreateSession(t) ==
  /\ Take(t, "create")
  /\ LET s == Head(outbox[t]).sid IN
       \/ /\ s \in sessions
          /\ AttachTo(t, s)
          /\ UNCHANGED <<sessions, named, ws>>
       \/ /\ s \notin sessions
          /\ sessions' = sessions \cup {s}
          /\ ports' = [ports EXCEPT ![s] = {t}]
          /\ named' = [named EXCEPT ![s] = Head(outbox[t]).named]
          /\ SetWs(s, "connecting")
          /\ UNCHANGED inbox
  /\ UNCHANGED <<buffer, chars, got, dialog, sent>>

AttachToSession(t) ==
  /\ Take(t, "attach")
  /\ AttachTo(t, Head(outbox[t]).sid)
  /\ UNCHANGED <<sessions, buffer, chars, named, ws, got, dialog, sent>>

(* input and resize are forwarded to an open socket and dropped otherwise, *)
(* without a word, even while the session is in the map; what the gateway  *)
(* does with them is no part of this model.                                *)
ForwardInput(t) ==
  /\ Take(t, "input") \/ Take(t, "resize")
  /\ UNCHANGED <<inbox, workerVars>>

(* Mutants of detachPort: the first viewer to leave takes the session with *)
(* it; the last one leaves the WebSocket open.                             *)
DetachPortEndsSession(t) ==
  /\ Take(t, "detach")
  /\ LET s == Head(outbox[t]).sid
     IN  \/ /\ s \notin sessions
            /\ UNCHANGED <<sessions, ports, ws>>
         \/ /\ s \in sessions
            /\ ports' = [ports EXCEPT ![s] = @ \ {t}]
            /\ SetWs(s, "closing")
            /\ sessions' = sessions \ {s}
  /\ UNCHANGED <<inbox, buffer, chars, named, got, dialog, sent>>

DetachPortKeepsSocket(t) ==
  /\ Take(t, "detach")
  /\ LET s    == Head(outbox[t]).sid
         left == ports[s] \ {t}
     IN  \/ /\ s \notin sessions
            /\ UNCHANGED <<sessions, ports>>
         \/ /\ s \in sessions
            /\ ports' = [ports EXCEPT ![s] = left]
            /\ sessions' = IF left = {} THEN sessions \ {s} ELSE sessions
  /\ UNCHANGED <<inbox, buffer, chars, named, ws, got, dialog, sent>>

DetachPort(t) ==
  /\ Take(t, "detach")
  /\ LET s    == Head(outbox[t]).sid
         left == ports[s] \ {t}
     IN  \/ /\ s \notin sessions
            /\ UNCHANGED <<sessions, ports, ws>>
         \/ /\ s \in sessions
            /\ ports' = [ports EXCEPT ![s] = left]
            /\ IF left # {} THEN UNCHANGED <<sessions, ws>>
               ELSE /\ SetWs(s, "closing")
                    /\ sessions' = sessions \ {s}
  /\ UNCHANGED <<inbox, buffer, chars, named, got, dialog, sent>>

-----------------------------------------------------------------------------
(* Events of a session's WebSocket.  They close over the session object,   *)
(* so its ports count even after the map has lost it.                      *)

(* The upgrade succeeds: the worker sends init.  The gateway closes the    *)
(* socket after the upgrade when the login is not valid.                   *)
WsOpen(s) ==
  /\ ws[s] = "connecting"
  /\ SetWs(s, "open")
  /\ Peer!Accept(s) \/ Peer!Reject(s)
  /\ UNCHANGED <<portVars, sessions, ports, buffer, chars, named, got>>

(* dispatchServerMessage.  *)
OnServerOutput(s, m) ==
  LET c == [sid |-> s, pos |-> got[s] + 1] IN
    /\ m.type = "output"
    /\ AppendBuffer(s, c)
    /\ Post(ports[s], <<Show(s, <<c>>)>>)
    /\ UNCHANGED sessions

OnServerNews(s, m) ==
  /\ m.type \in {"ready", "error", "needs-credentials"}
  /\ Post(ports[s], <<Tell(m.type, s)>>)
  /\ UNCHANGED <<sessions, buffer, chars>>

(* A mutant that removes the session without telling its viewers. *)
OnServerClosedSilent(s, m) ==
  /\ m.type = "closed"
  /\ sessions' = sessions \ {s}
  /\ UNCHANGED <<inbox, buffer, chars>>

OnServerClosed(s, m) ==
  /\ m.type = "closed"
  /\ Post(ports[s], <<Tell("closed", s)>>)
  /\ sessions' = sessions \ {s}
  /\ UNCHANGED <<buffer, chars>>

WsMessage(s) ==
  /\ ws[s] = "open"
  /\ got[s] < Len(sent[s])
  /\ got' = [got EXCEPT ![s] = @ + 1]
  /\ LET m == sent[s][got[s] + 1] IN
       OnServerOutput(s, m) \/ OnServerNews(s, m) \/ OnServerClosed(s, m)
  /\ UNCHANGED <<alive, outbox, ports, named, ws, dialog, sent>>

(* The close listener, after an error listener that may have run first. *)
(* Mutants: the session stays in the map; nobody is told.                  *)
ClosingKeepsSession(s, errors) ==
  /\ SetWs(s, "closed")
  /\ Post(ports[s], errors \o (IF s \in sessions THEN <<Tell("closed", s)>> ELSE <<>>))
  /\ UNCHANGED sessions

ClosingSilently(s, errors) ==
  /\ SetWs(s, "closed")
  /\ sessions' = sessions \ {s}
  /\ UNCHANGED inbox

Closing(s, errors) ==
  /\ SetWs(s, "closed")
  /\ Post(ports[s], errors \o (IF s \in sessions THEN <<Tell("closed", s)>> ELSE <<>>))
  /\ sessions' = sessions \ {s}

(* The close frame of the gateway arrives, after everything it sent: the   *)
(* browser answers it, and there is no event yet.                          *)
WsClosing(s) ==
  /\ ws[s] = "open"
  /\ dialog[s] = "over"
  /\ got[s] = Len(sent[s])
  /\ SetWs(s, "closing")
  /\ UNCHANGED <<portVars, sessions, ports, buffer, chars, named, got, dialog, sent>>

(* The connection never opens, or is lost with what was under way.         *)
WsFailed(s) ==
  /\ ws[s] = "connecting"
  /\ Closing(s, <<Tell("error", s)>>)
  /\ UNCHANGED <<alive, outbox, ports, buffer, chars, named, got, dialog, sent>>

WsLost(s) ==
  /\ ws[s] = "open"
  /\ \E errors \in {<<>>, <<Tell("error", s)>>} : Closing(s, errors)
  /\ Peer!HangUp(s) \/ (dialog[s] = "over" /\ UNCHANGED <<dialog, sent>>)
  /\ UNCHANGED <<alive, outbox, ports, buffer, chars, named, got>>

(* The socket that the gateway or the worker itself has closed is gone.    *)
WsGone(s) ==
  /\ ws[s] = "closing"
  /\ \E errors \in {<<>>, <<Tell("error", s)>>} : Closing(s, errors)
  /\ \/ Peer!HangUp(s)
     \/ dialog[s] \in {"idle", "over"} /\ UNCHANGED <<dialog, sent>>
  /\ UNCHANGED <<alive, outbox, ports, buffer, chars, named, got>>

-----------------------------------------------------------------------------
(* The gateway: it takes init, and answers. *)
Reachable(s) == ws[s] \in {"open", "closing"}

GatewayTakesInit(s) ==
  /\ Reachable(s)
  /\ Peer!Ask(s)
  /\ UNCHANGED <<portVars, sessions, ports, buffer, chars, named, ws, got>>

GatewaySends(s, m) ==
  /\ Reachable(s)
  /\ m.type = "output" => Len(sent[s]) < MaxSent
  /\ Peer!Emit(s, m)
  /\ UNCHANGED <<portVars, sessions, ports, buffer, chars, named, ws, got>>
=============================================================================
