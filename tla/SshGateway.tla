------------------------------ MODULE SshGateway ------------------------------
(***************************************************************************)
(* The NestJS WebSocket gateway of the BFF that relays a terminal over     *)
(* SSH (apps/api/src/modules/ssh/ssh.gateway.ts), for any number of        *)
(* sockets.  Its callbacks - the socket's connection, message and close,   *)
(* the database lookup it awaits, the events of the ssh2 client and of its *)
(* channel - are the actions; they interleave as Node's event loop lets    *)
(* them.  ssh2, ws and Prisma are external and appear as the callbacks     *)
(* they make.                                                              *)
(***************************************************************************)
EXTENDS Naturals, Sequences

CONSTANTS Sock,        \* WebSockets
          Login,       \* login sessions, i.e. values of the pxa_session cookie
          NoCookie,    \* the upgrade request carries no such cookie
          Ephemeral,   \* the logins whose serverId is "ephemeral:host:port"
          Pam,         \* the logins that keep SSH credentials (realm pam)
          ChunkSizes,  \* lengths of output chunks
          MaxChunks    \* bound: output chunks the remote produces on a channel

ASSUME GatewayConstants == /\ NoCookie \notin Login
                           /\ Ephemeral \subseteq Login
                           /\ Pam \subseteq Login
                           /\ MaxChunks \in Nat

VARIABLES auth,      \* AuthService's sessions: "live", "expired" (not yet swept), "none"
          ws,        \* readyState of a socket on the server
          cookie,    \* SocketState.sessionId
          sockets,   \* keys of the gateway's map of sockets
          call,      \* where initSession of a socket is
          form,      \* the credentials in its init message
          ssh,       \* its ssh2 client and channel
          sent,      \* messages sent to the client
          late       \* history: sockets that closed while initSession awaited

vars == <<auth, ws, cookie, sockets, call, form, ssh, sent, late>>

(* What the credential form put into init: nothing, a user name (with a    *)
(* password or a key), or a key without a user name.                       *)
Forms == {"auto", "user", "key"}

(* "connecting": connect() called; "executing": exec() called; "stream":   *)
(* the channel is open; "idle": connected without a channel.               *)
LiveSsh == {"connecting", "executing", "stream", "idle"}

(* How far the conversation on w has come, in the terms of SshPeer. *)
Dialog(w) == IF ws[w] = "none" THEN "idle"
             ELSE IF ws[w] \in {"closing", "closed"} THEN "over"
             ELSE IF call[w] = "idle" THEN "connected"
             ELSE IF call[w] = "refused" THEN "refused"
             ELSE IF ssh[w] = "stream" THEN "ready"
             ELSE "asked"

Peer == INSTANCE SshPeer WITH dialog <- [w \in Sock |-> Dialog(w)]

ServerMsg == Peer!ServerMsg
Plain(type) == Peer!Plain(type)

TypeOK == /\ auth \in [Login -> {"live", "expired", "none"}]
          /\ ws \in [Sock -> {"none", "open", "closing", "closed"}]
          /\ cookie \in [Sock -> Login \cup {NoCookie}]
          /\ sockets \subseteq Sock
          /\ call \in [Sock -> {"idle", "resolving", "refused", "done"}]
          /\ form \in [Sock -> Forms]
          /\ ssh \in [Sock -> LiveSsh \cup {"none", "ended"}]
          /\ sent \in [Sock -> Seq(ServerMsg)]
          /\ late \subseteq Sock

Init == /\ auth = [c \in Login |-> "live"]
        /\ ws = [w \in Sock |-> "none"]
        /\ cookie = [w \in Sock |-> NoCookie]
        /\ sockets = {}
        /\ call = [w \in Sock |-> "idle"]
        /\ form = [w \in Sock |-> "auto"]
        /\ ssh = [w \in Sock |-> "none"]
        /\ sent = [w \in Sock |-> <<>>]
        /\ late = {}

-----------------------------------------------------------------------------
(* AuthService.getSession sweeps the entry it finds expired.               *)
Swept(c) == [auth EXCEPT ![c] = IF @ = "expired" THEN "none" ELSE @]

(* send(): dropped unless the socket is still open.  A mutant of it is not. *)
SendRegardless(w, m) == sent' = [sent EXCEPT ![w] = Append(@, m)]

Send(w, m) == sent' = IF ws[w] = "open" THEN [sent EXCEPT ![w] = Append(@, m)]
                                        ELSE sent

(* ws.close(): starts the closing handshake of an open socket. *)
Close(w) == ws' = [ws EXCEPT ![w] = IF @ = "open" THEN "closing" ELSE @]

(* send() of a last message followed by ws.close(). *)
Fail(w, type) == Send(w, Plain(type)) /\ Close(w)

(* requireSession, as it is called for a cookie that may be missing.       *)
Valid(c) == c \in Login /\ auth[c] = "live"

HandleConnection(w, c) ==
  /\ ws[w] = "none"
  /\ cookie' = [cookie EXCEPT ![w] = c]
  /\ auth' = IF c \in Login THEN Swept(c) ELSE auth
  /\ ws' = [ws EXCEPT ![w] = IF Valid(c) THEN "open" ELSE "closing"]
  /\ sockets' = IF Valid(c) THEN sockets \cup {w} ELSE sockets
  /\ UNCHANGED <<call, form, ssh, sent, late>>

(* A mutant of handleDisconnect: it forgets the SSH client.                *)
HandleDisconnectLeavesSsh(w) ==
  /\ ws[w] \in {"open", "closing"}
  /\ ws' = [ws EXCEPT ![w] = "closed"]
  /\ sockets' = sockets \ {w}
  /\ late' = IF call[w] = "resolving" THEN late \cup {w} ELSE late
  /\ UNCHANGED <<auth, cookie, call, form, ssh, sent>>

HandleDisconnect(w) ==
  /\ ws[w] \in {"open", "closing"}
  /\ ws' = [ws EXCEPT ![w] = "closed"]
  /\ ssh' = [ssh EXCEPT ![w] = IF w \in sockets /\ @ \in LiveSsh THEN "ended" ELSE @]
  /\ sockets' = sockets \ {w}
  /\ late' = IF call[w] = "resolving" THEN late \cup {w} ELSE late
  /\ UNCHANGED <<auth, cookie, call, form, sent>>

(* Credentials come from the message or from the login. *)
Credentialed(w, f) == f # "auto" \/ cookie[w] \in Pam

(* initSession after the host is known: ask for credentials, or connect.   *)
(* ssh.connect throws at once when it has no user name or cannot read the  *)
(* key, and the message handler's catch reports that.                      *)
OpenSsh(w, f) ==
  \/ /\ ~Credentialed(w, f)
     /\ Send(w, Plain("needs-credentials"))
     /\ call' = [call EXCEPT ![w] = "refused"]
     /\ UNCHANGED <<ssh, ws>>
  \/ /\ Credentialed(w, f)
     /\ f = "key" => cookie[w] \in Pam
     /\ ssh' = [ssh EXCEPT ![w] = "connecting"]
     /\ call' = [call EXCEPT ![w] = "done"]
     /\ UNCHANGED <<sent, ws>>
  \/ /\ f # "auto"
     /\ ssh' = [ssh EXCEPT ![w] = "ended"]
     /\ call' = [call EXCEPT ![w] = "done"]
     /\ Fail(w, "error")

(* The init message: the login is checked again, then the host looked up.  *)
(* An ephemeral server's host is in its id, so the await of it does not    *)
(* let another event in.                                                   *)
HandleInit(w, f) ==
  /\ w \in sockets
  /\ call[w] = "idle"
  /\ auth' = Swept(cookie[w])
  /\ form' = [form EXCEPT ![w] = f]
  /\ \/ /\ ~Valid(cookie[w])
        /\ Fail(w, "error")
        /\ call' = [call EXCEPT ![w] = "done"]
        /\ UNCHANGED ssh
     \/ /\ Valid(cookie[w])
        /\ cookie[w] \in Ephemeral
        /\ OpenSsh(w, f)
     \/ /\ Valid(cookie[w])
        /\ cookie[w] \notin Ephemeral
        /\ call' = [call EXCEPT ![w] = "resolving"]
        /\ UNCHANGED <<sent, ws, ssh>>
  /\ UNCHANGED <<cookie, sockets, late>>

(* resolveServerHost answers: the row is there, or it is not. *)
HostFound(w) ==
  /\ call[w] = "resolving"
  /\ OpenSsh(w, form[w])
  /\ UNCHANGED <<auth, cookie, sockets, form, late>>

(* Mutants of what follows a missing row: an answer the client does not    *)
(* know, or none because the rejection is not caught.                      *)
HostMissingNamesIt(w) ==
  /\ call[w] = "resolving"
  /\ Fail(w, "not-found")
  /\ call' = [call EXCEPT ![w] = "done"]
  /\ UNCHANGED <<auth, cookie, sockets, form, ssh, late>>

HostMissingUncaught(w) ==
  /\ call[w] = "resolving"
  /\ call' = [call EXCEPT ![w] = "done"]
  /\ UNCHANGED <<auth, ws, cookie, sockets, form, ssh, sent, late>>

HostMissing(w) ==
  /\ call[w] = "resolving"
  /\ Fail(w, "error")
  /\ call' = [call EXCEPT ![w] = "done"]
  /\ UNCHANGED <<auth, cookie, sockets, form, ssh, late>>

-----------------------------------------------------------------------------
(* Events of the ssh2 client and of its channel.                           *)
SshReady(w) ==
  /\ ssh[w] = "connecting"
  /\ ssh' = [ssh EXCEPT ![w] = "executing"]
  /\ UNCHANGED <<auth, ws, cookie, sockets, call, form, sent, late>>

ExecOpened(w) ==
  /\ ssh[w] = "executing"
  /\ ssh' = [ssh EXCEPT ![w] = "stream"]
  /\ Send(w, Plain("ready"))
  /\ UNCHANGED <<auth, ws, cookie, sockets, call, form, late>>

ExecFailed(w) ==
  /\ ssh[w] = "executing"
  /\ ssh' = [ssh EXCEPT ![w] = "idle"]
  /\ Fail(w, "error")
  /\ UNCHANGED <<auth, cookie, sockets, call, form, late>>

StreamData(w, n) ==
  /\ ssh[w] = "stream"
  /\ Len(sent[w]) <= MaxChunks
  /\ Send(w, Peer!Output(n))
  /\ UNCHANGED <<auth, ws, cookie, sockets, call, form, ssh, late>>

StreamClosed(w) ==
  /\ ssh[w] = "stream"
  /\ ssh' = [ssh EXCEPT ![w] = "idle"]
  /\ Fail(w, "closed")
  /\ UNCHANGED <<auth, cookie, sockets, call, form, late>>

(* Refused, timed out (readyTimeout), or lost. *)
SshError(w) ==
  /\ ssh[w] \in LiveSsh
  /\ ssh' = [ssh EXCEPT ![w] = "ended"]
  /\ Fail(w, "error")
  /\ UNCHANGED <<auth, cookie, sockets, call, form, late>>

-----------------------------------------------------------------------------
(* The rest of the BFF: a logout, and two hours passing. *)
Logout(c) == /\ auth[c] # "none"
             /\ auth' = [auth EXCEPT ![c] = "none"]
             /\ UNCHANGED <<ws, cookie, sockets, call, form, ssh, sent, late>>

Expire(c) == /\ auth[c] = "live"
             /\ auth' = [auth EXCEPT ![c] = "expired"]
             /\ UNCHANGED <<ws, cookie, sockets, call, form, ssh, sent, late>>

Lookup(w)  == HostFound(w) \/ HostMissing(w)
Connected(w) == SshReady(w) \/ SshError(w)
Executed(w) == ExecOpened(w) \/ ExecFailed(w)

SocketNext(w) ==
  \/ \E c \in Login \cup {NoCookie} : HandleConnection(w, c)
  \/ \E f \in Forms : HandleInit(w, f)
  \/ HandleDisconnect(w)
  \/ HostFound(w) \/ HostMissing(w)
  \/ SshReady(w) \/ ExecOpened(w) \/ ExecFailed(w)
  \/ \E n \in ChunkSizes : StreamData(w, n)
  \/ StreamClosed(w) \/ SshError(w)

Next == \/ \E w \in Sock : SocketNext(w)
        \/ \E c \in Login : Logout(c) \/ Expire(c)

Spec == Init /\ [][Next]_vars

(* Prisma answers or throws, ssh2 connects or fails within readyTimeout,   *)
(* exec calls back, a closing handshake ends: the callbacks external       *)
(* libraries owe the gateway.  Nothing obliges a client or a remote shell. *)
Fairness == \A w \in Sock :
              /\ WF_vars(Lookup(w))
              /\ WF_vars(ssh[w] = "connecting" /\ Connected(w))
              /\ WF_vars(Executed(w))
              /\ WF_vars(ws[w] = "closing" /\ HandleDisconnect(w))

FairSpec == Spec /\ Fairness

-----------------------------------------------------------------------------
(* The gateway keeps to the dialogue the browser side is written for: one  *)
(* answer to init, output only after ready, and nothing after an error or  *)
(* a closed - whatever the order of disconnects, logouts and ssh events.   *)
KeepsDialogue == Peer!Spec

Orphan(w) == ssh[w] \in LiveSsh /\ w \notin sockets

(* An SSH connection without a socket, which nothing will ever end, can    *)
(* only come from a socket that closed while initSession was awaiting the  *)
(* database: for an ephemeral server there is no such window.              *)
OrphansOnlyFromLookup ==
  \A w \in Sock : Orphan(w) => w \in late /\ cookie[w] \notin Ephemeral

(* When a socket has closed, no SSH connection of it remains.              *)
NoOrphan == \A w \in Sock : ~Orphan(w)

(* A client whose init was taken is told something or loses its socket:    *)
(* no lookup and no half-open SSH connection leaves it waiting.            *)
InitIsAnswered ==
  \A w \in Sock : (ws[w] = "open" /\ call[w] \in {"resolving", "done"})
                     ~> (sent[w] # <<>> \/ ws[w] = "closed")

(* Once the gateway gives a socket up, the SSH connection behind it ends.  *)
GivenUpIsTornDown ==
  \A w \in Sock : (ws[w] = "closing") ~> (ws[w] = "closed" /\ ssh[w] \notin LiveSsh)
=============================================================================
