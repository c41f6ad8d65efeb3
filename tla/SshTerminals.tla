----------------------------- MODULE SshTerminals -----------------------------
(***************************************************************************)
(* The browser side of the SSH terminal: the terminal elements of all tabs *)
(* and the SharedWorker, whose steps interleave over their message ports,  *)
(* with a gateway that keeps to SshPeer at the far end of each WebSocket.  *)
(***************************************************************************)
EXTENDS SshTerminal, SshSharedWorker, FiniteSetsExt

CONSTANT Leaver       \* the terminals whose page may go away

vars == <<portVars, termVars, workerVars>>

TypeOK == PortsOK /\ TerminalOK /\ WorkerOK

Init == PortsInit /\ TerminalInit /\ WorkerInit

UserStep(t) == /\ \/ Open(t) \/ Connect(t) \/ Disconnect(t) \/ Retry(t)
                  \/ \E p \in Popup : PopOut(t, p)
                  \/ \E type \in {"input", "resize"} : Key(t, type)
                  \/ t \in Leaver /\ Leave(t)
               /\ UNCHANGED workerVars

ElementStep(t) == OnWorkerMessage(t) /\ UNCHANGED workerVars

PortStep(t) == /\ \/ CreateSession(t) \/ AttachToSession(t)
                  \/ ForwardInput(t) \/ DetachPort(t)
               /\ UNCHANGED termVars

SocketStep(s) == /\ \/ WsOpen(s) \/ WsFailed(s) \/ WsMessage(s)
                    \/ WsClosing(s) \/ WsLost(s) \/ WsGone(s)
                 /\ UNCHANGED termVars

GatewayStep(s) == /\ \/ GatewayTakesInit(s)
                     \/ \E m \in Peer!ServerMsg : GatewaySends(s, m)
                  /\ UNCHANGED termVars

Next == \/ \E t \in Term : UserStep(t) \/ ElementStep(t) \/ PortStep(t)
        \/ \E s \in Sid : SocketStep(s) \/ GatewayStep(s)

Spec == Init /\ [][Next]_vars

(* Ports deliver, a WebSocket opens or fails, hands over what has arrived  *)
(* and closes when it is closed, and the gateway answers init (SshGateway  *)
(* shows that it does).  Nothing is assumed of the user or of the remote.  *)
Answers(s) == /\ \/ GatewayTakesInit(s)
                 \/ \E m \in Peer!ServerMsg :
                       dialog[s] = "asked" /\ GatewaySends(s, m)
              /\ UNCHANGED termVars

Opens(s) == (WsOpen(s) \/ WsFailed(s)) /\ UNCHANGED termVars

Arrives(s) == (WsMessage(s) \/ WsClosing(s) \/ WsGone(s)) /\ UNCHANGED termVars

Fairness == /\ \A t \in Term : WF_vars(ElementStep(t)) /\ WF_vars(PortStep(t))
            /\ \A s \in Sid : /\ WF_vars(Opens(s)) /\ WF_vars(Arrives(s))
                              /\ WF_vars(Answers(s))

FairSpec == Spec /\ Fairness

-----------------------------------------------------------------------------
(* What t has been given to show of its session, on its screen or in its   *)
(* queue, and what each message on its way brings, oldest first.           *)
Flow(t) ==
  [i \in 0..Len(inbox[t]) |->
     IF i = 0 THEN queued[t] \o screen[t]
     ELSE IF inbox[t][i].type = "output" /\ inbox[t][i].sid = active[t]
          THEN inbox[t][i].data ELSE <<>>]

Positions(f) == UNION {{f[i][k].pos : k \in DOMAIN f[i]} : i \in DOMAIN f}

Rising(f) ==
  \A i, j \in DOMAIN f : \A k \in DOMAIN f[i], l \in DOMAIN f[j] :
    i < j \/ (i = j /\ k < l) => f[i][k].pos < f[j][l].pos

OfSession(f, s) == \A i \in DOMAIN f : \A k \in DOMAIN f[i] : f[i][k].sid = s

WithoutGap(P) == \A a, b \in P : a..b \subseteq P

(* The last output of s that the worker has dealt with, 0 when there is none. *)
LastOutput(s) == Max({0} \cup {i \in 1..got[s] : sent[s][i].type = "output"})

Unbroken(f, s) == /\ \A i \in DOMAIN f : f[i].sid = s
                  /\ \A i \in 1..(Len(f) - 1) : f[i + 1].pos = f[i].pos + 1

UpTo(f, last) == last > 0 => f # <<>> /\ f[Len(f)].pos = last

Watching(t) == t \in alive /\ phase[t] \in {"connecting", "connected"}

Attached(t) == /\ active[t] \in sessions
               /\ t \in ports[active[t]]

(* What a viewer's screen shows and is about to show is one unbroken run   *)
(* of its session's output, up to the last chunk that has arrived: replay  *)
(* and live output join without a gap or a repetition, nothing of another  *)
(* session slips in, and who opened the session sees it from the start.    *)
StreamIntact ==
  \A t \in alive : active[t] # None =>
    /\ OfSession(Flow(t), active[t])
    /\ Rising(Flow(t))
    /\ WithoutGap(Positions(Flow(t)))
    /\ Positions(Flow(t)) \subseteq 2..LastOutput(active[t])
    /\ Watching(t) /\ Attached(t) /\ LastOutput(active[t]) > 0
         => LastOutput(active[t]) \in Positions(Flow(t))
    /\ t \in Inline /\ Positions(Flow(t)) # {} =>
         sent[active[t]][1].type = "ready" /\ 2 \in Positions(Flow(t))

(* The replay buffer is the latest output without a gap, its length is     *)
(* what bufferChars says, it exceeds the limit only by a single chunk, and *)
(* nothing was dropped from it that would still fit.                       *)
BufferKeepsLatest ==
  \A s \in Sid :
    /\ Unbroken(buffer[s], s)
    /\ UpTo(buffer[s], LastOutput(s))
    /\ chars[s] = Length(buffer[s], Len(buffer[s]))
    /\ chars[s] <= BufferLimit \/ Len(buffer[s]) = 1
    /\ buffer[s] # <<>> /\ buffer[s][1].pos > 2 =>
         chars[s] + sent[s][buffer[s][1].pos - 1].size > BufferLimit

Asking(t)  == \E i \in DOMAIN outbox[t] : /\ outbox[t][i].type \in {"create", "attach"}
                                          /\ outbox[t][i].sid = active[t]
Dismissed(t) == \E i \in DOMAIN inbox[t] : /\ inbox[t][i].type \in {"error", "closed"}
                                           /\ inbox[t][i].sid = active[t]

(* No viewer is forgotten: whoever waits for a session or shows it as      *)
(* connected still watches it, has yet to be let in, or has the news of    *)
(* its end on the way - whatever other viewers, the gateway and the        *)
(* network do to the session meanwhile.                                    *)
NoViewerForgotten ==
  \A t \in alive : Watching(t) => Asking(t) \/ Attached(t) \/ Dismissed(t)

(* The gateway has ended the conversation, its close frame has been read,  *)
(* and the close event is still to come.                                   *)
Ending(s) == ws[s] = "closing" /\ dialog[s] = "over" /\ got[s] = Len(sent[s])

(* A keystroke for a session that still exists finds its WebSocket open,   *)
(* whatever its viewers do meanwhile (the worker drops it silently when it *)
(* is not), unless the gateway has already ended the conversation: in the  *)
(* moment before the close event no shell is there to hear it.             *)
KeysFindOpenSocket ==
  \A t \in Term : \A i \in DOMAIN outbox[t] :
    outbox[t][i].type \in {"input", "resize"} /\ outbox[t][i].sid \in sessions
      => ws[outbox[t][i].sid] = "open" \/ Ending(outbox[t][i].sid)

(* The map of sessions and the sockets do not drift apart: a session in    *)
(* the map has a viewer, and its socket opens, is open, or is about to     *)
(* report that the gateway has closed it; a socket that is not in the map  *)
(* is one that the gateway has said "closed" on or that the worker is      *)
(* closing.                                                                *)
MapMatchesSockets ==
  \A s \in Sid :
    /\ s \in sessions => ports[s] # {} /\ (ws[s] \in {"connecting", "open"} \/ Ending(s))
    /\ s \notin sessions /\ ws[s] \in {"connecting", "open"} => dialog[s] = "over"

(* An embedded terminal does not stay at "Connecting": it gets the shell,  *)
(* the form, or an error.                                                  *)
ConnectingEnds ==
  \A t \in Inline : (t \in alive /\ phase[t] = "connecting") ~> (phase[t] # "connecting")

(* A session all of whose viewers have gone is destroyed.                  *)
Viewed(s) == \E t \in Term : \/ t \in alive /\ active[t] = s
                             \/ \E i \in DOMAIN outbox[t] : outbox[t][i].sid = s

NoAbandonedSession == \A s \in sessions : Viewed(s)
=============================================================================
