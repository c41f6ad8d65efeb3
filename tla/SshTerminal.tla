------------------------------ MODULE SshTerminal ------------------------------
(***************************************************************************)
(* The <pxa-ssh-terminal> element (apps/web/src/components/ssh-terminal):  *)
(* its phases, the xterm it mounts when the session is ready, the output   *)
(* it queues until then, and the messages it exchanges with the SSH        *)
(* SharedWorker.  Actions here say what the element does; SshTerminals     *)
(* composes them with the worker's.                                        *)
(***************************************************************************)
EXTENDS SshPorts

CONSTANT MaxKeys        \* bound: unhandled keystrokes and resizes per element

VARIABLES phase,        \* _phase
          active,       \* _activeSessionId
          xterm,        \* _xterm is mounted
          screen,       \* what the mounted xterm has been given to write
          queued,       \* _outputQueue
          minted        \* session ids in use (they are never minted twice)

termVars == <<phase, active, xterm, screen, queued, minted>>

Phases == {"credentials", "connecting", "connected", "error", "closed"}

TerminalOK == /\ phase \in [Term -> Phases]
              /\ active \in [Term -> Sid \cup {None}]
              /\ xterm \in [Term -> BOOLEAN]
              /\ screen \in [Term -> Seq(Chunk)]
              /\ queued \in [Term -> Seq(Chunk)]
              /\ minted \subseteq Sid

TerminalInit == /\ phase = [t \in Term |-> "credentials"]
                /\ active = [t \in Term |-> None]
                /\ xterm = [t \in Term |-> FALSE]
                /\ screen = [t \in Term |-> <<>>]
                /\ queued = [t \in Term |-> <<>>]
                /\ minted = {}

(* _cleanup: disposes of the xterm and of what it shows. *)
Cleanup(t) == /\ xterm' = [xterm EXCEPT ![t] = FALSE]
              /\ screen' = [screen EXCEPT ![t] = <<>>]

Enter(t, p) == phase' = [phase EXCEPT ![t] = p]

(* A fresh session id, and the create message for it. *)
StartSession(t) ==
  \E s \in Sid \ minted :
    /\ minted' = minted \cup {s}
    /\ active' = [active EXCEPT ![t] = s]
    /\ Enter(t, "connecting")
    /\ PostToWorker(t, Create(s, t \in Inline))

(* connectedCallback and firstUpdated of an embedded terminal: it connects *)
(* with the credentials of the login, through _connectAuto.                *)
Open(t) == /\ t \in Inline \ alive
           /\ active[t] = None
           /\ phase[t] = "credentials"
           /\ alive' = alive \cup {t}
           /\ StartSession(t)
           /\ UNCHANGED <<inbox, xterm, screen, queued>>

(* The form is submitted.  A popped-out window knows no node and no guest. *)
Connect(t) == /\ t \in alive
              /\ phase[t] = "credentials"
              /\ StartSession(t)
              /\ UNCHANGED <<alive, inbox, xterm, screen, queued>>

(* _popOut, and the attach mode of the element in the window it opens.     *)
PopOut(t, p) == /\ t \in alive
                /\ phase[t] = "connected"
                /\ p \in Popup \ alive
                /\ active[p] = None
                /\ phase[p] = "credentials"
                /\ alive' = alive \cup {p}
                /\ active' = [active EXCEPT ![p] = active[t]]
                /\ Enter(p, "connecting")
                /\ PostToWorker(p, Ask("attach", active[t]))
                /\ UNCHANGED <<inbox, xterm, screen, queued, minted>>

(* A mutant of _disconnect that forgets the session before it detaches.    *)
DisconnectTooLate(t) == /\ t \in alive
                        /\ phase[t] = "connected"
                        /\ PostToWorker(t, Ask("detach", None))
                        /\ Enter(t, "credentials")
                        /\ active' = [active EXCEPT ![t] = None]
                        /\ Cleanup(t)
                        /\ UNCHANGED <<alive, inbox, queued, minted>>

Disconnect(t) == /\ t \in alive
                 /\ phase[t] = "connected"
                 /\ PostToWorker(t, Ask("detach", active[t]))
                 /\ Enter(t, "credentials")
                 /\ active' = [active EXCEPT ![t] = None]
                 /\ Cleanup(t)
                 /\ UNCHANGED <<alive, inbox, queued, minted>>

(* A mutant of _retry that keeps the output queue.                         *)
RetryKeepsQueue(t) == /\ t \in alive
                      /\ phase[t] \in {"error", "closed"}
                      /\ Enter(t, "credentials")
                      /\ UNCHANGED <<portVars, active, xterm, screen, queued, minted>>

Retry(t) == /\ t \in alive
            /\ phase[t] \in {"error", "closed"}
            /\ Enter(t, "credentials")
            /\ queued' = [queued EXCEPT ![t] = <<>>]
            /\ UNCHANGED <<portVars, active, xterm, screen, minted>>

(* A keystroke, or a resize of the mounted terminal. *)
Key(t, type) == /\ t \in alive
                /\ xterm[t]
                /\ Len(outbox[t]) < MaxKeys
                /\ PostToWorker(t, Ask(type, active[t]))
                /\ UNCHANGED <<alive, inbox, termVars>>

(* disconnectedCallback: the panel is hidden, the view left or the tab     *)
(* closed.  The element cleans up; it posts nothing.                       *)
Leave(t) == /\ t \in alive
            /\ alive' = alive \ {t}
            /\ Enter(t, "closed")
            /\ Cleanup(t)
            /\ queued' = [queued EXCEPT ![t] = <<>>]
            /\ inbox' = [inbox EXCEPT ![t] = <<>>]
            /\ UNCHANGED <<outbox, active, minted>>

-----------------------------------------------------------------------------
(* _onWorkerMessage.  A message of another session than the active one is  *)
(* dropped; mounting the xterm flushes the queue.                          *)
OnReady(t, m) == /\ m.type = "ready"
                 /\ Enter(t, "connected")
                 /\ IF xterm[t] THEN UNCHANGED <<xterm, screen, queued>>
                    ELSE /\ xterm' = [xterm EXCEPT ![t] = TRUE]
                         /\ screen' = [screen EXCEPT ![t] = queued[t]]
                         /\ queued' = [queued EXCEPT ![t] = <<>>]

(* A mutant that writes only to a mounted terminal. *)
OnOutputUnqueued(t, m) == /\ m.type = "output"
                          /\ IF xterm[t] THEN screen' = [screen EXCEPT ![t] = @ \o m.data]
                                         ELSE UNCHANGED screen
                          /\ UNCHANGED <<phase, xterm, queued>>

OnOutput(t, m) == /\ m.type = "output"
                  /\ IF xterm[t]
                     THEN screen' = [screen EXCEPT ![t] = @ \o m.data] /\ UNCHANGED queued
                     ELSE queued' = [queued EXCEPT ![t] = @ \o m.data] /\ UNCHANGED screen
                  /\ UNCHANGED <<phase, xterm>>

OnEnd(t, m) == /\ m.type \in {"error", "closed"}
               /\ Enter(t, m.type)
               /\ Cleanup(t)
               /\ UNCHANGED queued

OnNeedsCredentials(t, m) == /\ m.type = "needs-credentials"
                            /\ Enter(t, "credentials")
                            /\ UNCHANGED <<xterm, screen, queued>>

OnWorkerMessage(t) ==
  /\ t \in alive
  /\ inbox[t] # <<>>
  /\ inbox' = [inbox EXCEPT ![t] = Tail(@)]
  /\ LET m == Head(inbox[t]) IN
       \/ /\ m.sid # active[t]
          /\ UNCHANGED <<phase, xterm, screen, queued>>
       \/ /\ m.sid = active[t]
          /\ \/ OnReady(t, m) \/ OnOutput(t, m)
             \/ OnEnd(t, m) \/ OnNeedsCredentials(t, m)
  /\ UNCHANGED <<alive, outbox, active, minted>>
=============================================================================
