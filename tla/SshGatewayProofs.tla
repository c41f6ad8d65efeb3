--------------------------- MODULE SshGatewayProofs ---------------------------
(***************************************************************************)
(* What holds of SshGateway for any sockets, logins and chunk sizes.       *)
(***************************************************************************)
EXTENDS SshGateway, TLAPS

(* How the maps and states of one socket belong together: the inductive    *)
(* form of OrphansOnlyFromLookup.                                          *)
Consistent(w) ==
  /\ w \in sockets => ws[w] \in {"open", "closing"} /\ cookie[w] \in Login
  /\ ws[w] = "open" => w \in sockets
  /\ ws[w] = "none" => sent[w] = <<>>
  /\ call[w] # "idle" => ws[w] # "none"
  /\ call[w] = "resolving" => cookie[w] \in Login \ Ephemeral
  /\ call[w] = "resolving" /\ w \notin sockets => w \in late
  /\ call[w] # "done" => ssh[w] = "none"
  /\ call[w] = "done" /\ ws[w] = "open" => ssh[w] \in {"connecting", "executing", "stream"}
  /\ w \notin sockets /\ w \notin late => ssh[w] \notin LiveSsh
  /\ w \in late => ws[w] = "closed" /\ cookie[w] \notin Ephemeral

Registration == \A w \in Sock : Consistent(w)

(* Type correctness. *)
LEMMA InitType == Init => TypeOK
  BY GatewayConstants DEF Init, TypeOK, Forms, LiveSsh

LEMMA FailType ==
  ASSUME TypeOK, NEW w \in Sock, NEW type \in {"ready", "error", "closed", "needs-credentials"},
         Fail(w, type)
  PROVE  /\ sent' \in [Sock -> Seq(ServerMsg)]
         /\ ws' \in [Sock -> {"none", "open", "closing", "closed"}]
<1>1. Plain(type) \in ServerMsg
  BY DEF Plain, ServerMsg, Peer!ServerMsg, Peer!Plain
<1>2. QED
  BY <1>1 DEF Fail, Send, Close, TypeOK

LEMMA OpenSshType ==
  ASSUME TypeOK, NEW w \in Sock, NEW f \in Forms, OpenSsh(w, f)
  PROVE  /\ sent' \in [Sock -> Seq(ServerMsg)]
         /\ ws' \in [Sock -> {"none", "open", "closing", "closed"}]
         /\ call' \in [Sock -> {"idle", "resolving", "refused", "done"}]
         /\ ssh' \in [Sock -> LiveSsh \cup {"none", "ended"}]
<1>1. Plain("needs-credentials") \in ServerMsg
  BY DEF Plain, ServerMsg, Peer!ServerMsg, Peer!Plain
<1>2. CASE ~Credentialed(w, f) /\ Send(w, Plain("needs-credentials"))
            /\ call' = [call EXCEPT ![w] = "refused"] /\ UNCHANGED <<ssh, ws>>
  BY <1>1, <1>2 DEF Send, TypeOK
<1>3. CASE ssh' = [ssh EXCEPT ![w] = "connecting"]
            /\ call' = [call EXCEPT ![w] = "done"] /\ UNCHANGED <<sent, ws>>
  BY <1>3 DEF TypeOK, LiveSsh
<1>4. CASE ssh' = [ssh EXCEPT ![w] = "ended"]
            /\ call' = [call EXCEPT ![w] = "done"] /\ Fail(w, "error")
  BY <1>4, FailType DEF TypeOK, LiveSsh
<1>5. QED
  BY <1>2, <1>3, <1>4 DEF OpenSsh

LEMMA StepType == TypeOK /\ [Next]_vars => TypeOK'
<1> SUFFICES ASSUME TypeOK, [Next]_vars PROVE TypeOK'
  OBVIOUS
<1>1. ASSUME NEW w \in Sock, NEW c \in Login \cup {NoCookie}, HandleConnection(w, c)
      PROVE  TypeOK'
  BY <1>1 DEF TypeOK, HandleConnection, Swept
<1>2. ASSUME NEW w \in Sock, NEW f \in Forms, HandleInit(w, f)
      PROVE  TypeOK'
  <2>1. /\ auth' \in [Login -> {"live", "expired", "none"}]
        /\ form' \in [Sock -> Forms]
        /\ UNCHANGED <<cookie, sockets, late>>
    BY <1>2 DEF TypeOK, HandleInit, Swept
  <2>2. /\ sent' \in [Sock -> Seq(ServerMsg)]
        /\ ws' \in [Sock -> {"none", "open", "closing", "closed"}]
        /\ call' \in [Sock -> {"idle", "resolving", "refused", "done"}]
        /\ ssh' \in [Sock -> LiveSsh \cup {"none", "ended"}]
    <3>1. CASE Fail(w, "error") /\ call' = [call EXCEPT ![w] = "done"] /\ UNCHANGED ssh
      BY <3>1, FailType DEF TypeOK
    <3>2. CASE OpenSsh(w, f)
      BY <3>2, OpenSshType
    <3>3. CASE call' = [call EXCEPT ![w] = "resolving"] /\ UNCHANGED <<sent, ws, ssh>>
      BY <3>3 DEF TypeOK
    <3>4. QED
      BY <1>2, <3>1, <3>2, <3>3 DEF HandleInit
  <2>3. QED
    BY <2>1, <2>2 DEF TypeOK
<1>3. ASSUME NEW w \in Sock, HandleDisconnect(w)
      PROVE  TypeOK'
  BY <1>3 DEF TypeOK, HandleDisconnect, LiveSsh
<1>4. ASSUME NEW w \in Sock, HostFound(w)
      PROVE  TypeOK'
  <2>1. form[w] \in Forms
    BY DEF TypeOK
  <2>2. QED
    BY <1>4, <2>1, OpenSshType DEF TypeOK, HostFound
<1>5. ASSUME NEW w \in Sock, HostMissing(w)
      PROVE  TypeOK'
  BY <1>5, FailType DEF TypeOK, HostMissing
<1>6. ASSUME NEW w \in Sock, SshReady(w)
      PROVE  TypeOK'
  BY <1>6 DEF TypeOK, SshReady, LiveSsh
<1>7. ASSUME NEW w \in Sock, ExecOpened(w)
      PROVE  TypeOK'
  <2>1. Plain("ready") \in ServerMsg
    BY DEF Plain, ServerMsg, Peer!ServerMsg, Peer!Plain
  <2>2. QED
    BY <1>7, <2>1 DEF TypeOK, ExecOpened, Send, LiveSsh
<1>8. ASSUME NEW w \in Sock, ExecFailed(w)
      PROVE  TypeOK'
  BY <1>8, FailType DEF TypeOK, ExecFailed, LiveSsh
<1>9. ASSUME NEW w \in Sock, NEW n \in ChunkSizes, StreamData(w, n)
      PROVE  TypeOK'
  <2>1. Peer!Output(n) \in ServerMsg
    BY DEF ServerMsg, Peer!ServerMsg, Peer!Output
  <2>2. QED
    BY <1>9, <2>1 DEF TypeOK, StreamData, Send
<1>10. ASSUME NEW w \in Sock, StreamClosed(w)
       PROVE  TypeOK'
  BY <1>10, FailType DEF TypeOK, StreamClosed, LiveSsh
<1>11. ASSUME NEW w \in Sock, SshError(w)
       PROVE  TypeOK'
  BY <1>11, FailType DEF TypeOK, SshError, LiveSsh
<1>12. ASSUME NEW c \in Login, Logout(c) \/ Expire(c)
       PROVE  TypeOK'
  BY <1>12 DEF TypeOK, Logout, Expire
<1>13. CASE UNCHANGED vars
  BY <1>13 DEF TypeOK, vars
<1>14. QED
  BY <1>1, <1>2, <1>3, <1>4, <1>5, <1>6, <1>7, <1>8, <1>9, <1>10, <1>11, <1>12, <1>13
     DEF Next, SocketNext

(* Every variable of the gateway keeps its type, whatever the sockets,     *)
(* the logins and the order of the gateway's callbacks.                    *)
THEOREM TypeCorrect == Spec => []TypeOK
<1>1. QED
  BY InitType, StepType, PTL DEF Spec

-----------------------------------------------------------------------------
(* The relations between a socket's map entry, its readyState, the state   *)
(* of initSession and the SSH client.                                      *)
LEMMA InitRegistration == Init => Registration
  BY DEF Init, Registration, Consistent, LiveSsh

LEMMA FailRegistration ==
  ASSUME TypeOK, NEW w \in Sock, NEW type, Fail(w, type)
  PROVE  /\ ws[w] = "open" => ws'[w] = "closing"
         /\ ws[w] # "open" => ws'[w] = ws[w] /\ sent'[w] = sent[w]
         /\ \A v \in Sock \ {w} : ws'[v] = ws[v] /\ sent'[v] = sent[v]
  BY DEF Fail, Send, Close, TypeOK

LEMMA OpenSshRegistration ==
  ASSUME TypeOK, Registration, NEW w \in Sock, NEW f \in Forms, OpenSsh(w, f),
         ws[w] # "none", call[w] # "done", cookie[w] \in Login,
         w \notin sockets => w \in late,
         UNCHANGED <<cookie, sockets, late>>
  PROVE  Registration'
<1> SUFFICES ASSUME NEW v \in Sock PROVE Consistent(v)'
  BY DEF Registration
<1>0. Consistent(v) /\ Consistent(w)
  BY DEF Registration
<1>1. CASE Send(w, Plain("needs-credentials")) /\ call' = [call EXCEPT ![w] = "refused"]
            /\ UNCHANGED <<ssh, ws>>
  BY <1>0, <1>1 DEF Send, TypeOK, Consistent, LiveSsh
<1>2. CASE ssh' = [ssh EXCEPT ![w] = "connecting"]
            /\ call' = [call EXCEPT ![w] = "done"] /\ UNCHANGED <<sent, ws>>
  BY <1>0, <1>2 DEF TypeOK, Consistent, LiveSsh
<1>3. CASE ssh' = [ssh EXCEPT ![w] = "ended"]
            /\ call' = [call EXCEPT ![w] = "done"] /\ Fail(w, "error")
  <2>1. /\ ws[w] = "open" => ws'[w] = "closing"
        /\ ws[w] # "open" => ws'[w] = ws[w] /\ sent'[w] = sent[w]
        /\ \A u \in Sock \ {w} : ws'[u] = ws[u] /\ sent'[u] = sent[u]
    BY <1>3, FailRegistration
  <2>2. CASE v = w
    BY <1>0, <1>3, <2>1, <2>2 DEF TypeOK, Consistent, LiveSsh
  <2>3. CASE v # w
    BY <1>0, <1>3, <2>1, <2>3 DEF TypeOK, Consistent, LiveSsh
  <2>4. QED
    BY <2>2, <2>3
<1>4. QED
  BY <1>1, <1>2, <1>3 DEF OpenSsh

LEMMA StepRegistration == TypeOK /\ Registration /\ [Next]_vars => Registration'
<1> SUFFICES ASSUME TypeOK, Registration, [Next]_vars PROVE Registration'
  OBVIOUS
<1> USE DEF Registration, Consistent
<1>1. ASSUME NEW w \in Sock, NEW c \in Login \cup {NoCookie}, HandleConnection(w, c)
      PROVE  Registration'
  BY <1>1, GatewayConstants DEF TypeOK, HandleConnection, Valid, LiveSsh
<1>2. ASSUME NEW w \in Sock, NEW f \in Forms, HandleInit(w, f)
      PROVE  Registration'
  <2>1. CASE Fail(w, "error") /\ call' = [call EXCEPT ![w] = "done"] /\ UNCHANGED ssh
    BY <1>2, <2>1, FailRegistration DEF TypeOK, HandleInit, LiveSsh
  <2>2. CASE OpenSsh(w, f)
    BY <1>2, <2>2, OpenSshRegistration DEF HandleInit
  <2>3. CASE cookie[w] \notin Ephemeral /\ call' = [call EXCEPT ![w] = "resolving"]
             /\ UNCHANGED <<sent, ws, ssh>>
    BY <1>2, <2>3 DEF TypeOK, HandleInit, LiveSsh
  <2>4. QED
    BY <1>2, <2>1, <2>2, <2>3 DEF HandleInit
<1>3. ASSUME NEW w \in Sock, HandleDisconnect(w)
      PROVE  Registration'
  BY <1>3 DEF TypeOK, HandleDisconnect, LiveSsh
<1>4. ASSUME NEW w \in Sock, HostFound(w)
      PROVE  Registration'
  <2>1. /\ form[w] \in Forms
        /\ ws[w] # "none" /\ call[w] # "done" /\ cookie[w] \in Login
        /\ w \notin sockets => w \in late
    BY <1>4 DEF TypeOK, HostFound
  <2>2. QED
    BY <1>4, <2>1, OpenSshRegistration DEF HostFound
<1>5. ASSUME NEW w \in Sock, HostMissing(w)
      PROVE  Registration'
  BY <1>5, FailRegistration DEF TypeOK, HostMissing, LiveSsh
<1>6. ASSUME NEW w \in Sock, SshReady(w)
      PROVE  Registration'
  BY <1>6 DEF TypeOK, SshReady, LiveSsh
<1>7. ASSUME NEW w \in Sock, ExecOpened(w)
      PROVE  Registration'
  BY <1>7 DEF TypeOK, ExecOpened, Send, LiveSsh
<1>8. ASSUME NEW w \in Sock, ExecFailed(w)
      PROVE  Registration'
  BY <1>8, FailRegistration DEF TypeOK, ExecFailed, LiveSsh
<1>9. ASSUME NEW w \in Sock, NEW n \in ChunkSizes, StreamData(w, n)
      PROVE  Registration'
  BY <1>9 DEF TypeOK, StreamData, Send, LiveSsh
<1>10. ASSUME NEW w \in Sock, StreamClosed(w)
       PROVE  Registration'
  BY <1>10, FailRegistration DEF TypeOK, StreamClosed, LiveSsh
<1>11. ASSUME NEW w \in Sock, SshError(w)
       PROVE  Registration'
  BY <1>11, FailRegistration DEF TypeOK, SshError, LiveSsh
<1>12. ASSUME NEW c \in Login, Logout(c) \/ Expire(c)
       PROVE  Registration'
  BY <1>12 DEF Logout, Expire
<1>13. CASE UNCHANGED vars
  BY <1>13 DEF vars
<1>14. QED
  BY <1>1, <1>2, <1>3, <1>4, <1>5, <1>6, <1>7, <1>8, <1>9, <1>10, <1>11, <1>12, <1>13
     DEF Next, SocketNext

(* The map of sockets, the sockets' states and the SSH clients always      *)
(* belong together.                                                        *)
THEOREM RegistrationHolds == Spec => []Registration
<1>1. QED
  BY InitType, StepType, InitRegistration, StepRegistration, PTL DEF Spec

(* An SSH connection that outlives its socket is always one whose socket   *)
(* closed during the lookup of a persisted server's host.                  *)
THEOREM OrphansHaveOneCause == Spec => []OrphansOnlyFromLookup
<1>1. Registration => OrphansOnlyFromLookup
  BY DEF Registration, Consistent, OrphansOnlyFromLookup, Orphan
<1>2. QED
  BY <1>1, RegistrationHolds, PTL

-----------------------------------------------------------------------------
(* The gateway implements SshPeer: each of its steps is a step of the      *)
(* dialogue, or leaves the dialogue alone.                                 *)
Talk == [v \in Sock |-> Dialog(v)]

LEMMA TalkMoves ==
  ASSUME NEW w \in Sock,
         \A v \in Sock \ {w} : ws'[v] = ws[v] /\ call'[v] = call[v] /\ ssh'[v] = ssh[v]
  PROVE  Talk' = [Talk EXCEPT ![w] = Dialog(w)']
  BY DEF Talk, Dialog

(* A message that ends the conversation, or one to a socket already closing. *)
LEMMA FailIsDialogue ==
  ASSUME TypeOK, Registration, NEW w \in Sock, NEW type \in {"error", "closed"}, Fail(w, type),
         ws[w] # "none",
         \A v \in Sock \ {w} : call'[v] = call[v] /\ ssh'[v] = ssh[v],
         ws[w] = "open" => <<Dialog(w), type, "over">> \in Peer!Turns
                           \/ (Dialog(w) = "connected" /\ type = "error")
  PROVE  [Peer!Next]_(Peer!vars)
<1>1. Talk' = [Talk EXCEPT ![w] = Dialog(w)']
  BY TalkMoves DEF Fail, Close, TypeOK
<1>2. CASE ws[w] = "open"
  <2>1. Dialog(w)' = "over" /\ sent' = [sent EXCEPT ![w] = Append(@, Plain(type))]
    BY <1>2 DEF Fail, Send, Close, TypeOK, Dialog
  <2>2. Plain(type) \in Peer!ServerMsg /\ Plain(type).type = type
    BY DEF Plain, Peer!Plain, Peer!ServerMsg
  <2>3. Peer!Emit(w, Plain(type)) \/ Peer!AskAndEmit(w, Plain(type))
    BY <1>1, <1>2, <2>1, <2>2
       DEF Talk, Peer!Emit, Peer!AskAndEmit, Peer!Turns, Peer!Dialogs
  <2>4. QED
    BY <2>2, <2>3 DEF Peer!Next
<1>3. CASE ws[w] # "open"
  <2>1. UNCHANGED <<ws, sent>>
    BY <1>3 DEF Fail, Send, Close, TypeOK
  <2>2. Dialog(w)' = Dialog(w)
    BY <1>3, <2>1 DEF Dialog, TypeOK
  <2>3. UNCHANGED Peer!vars
    BY <1>1, <2>1, <2>2 DEF Talk, Peer!vars
  <2>4. QED
    BY <2>3
<1>4. QED
  BY <1>2, <1>3

LEMMA OpenSshIsDialogue ==
  ASSUME TypeOK, Registration, NEW w \in Sock, NEW f \in Forms, OpenSsh(w, f),
         ws[w] # "none", call[w] \in {"idle", "resolving"}
  PROVE  [Peer!Next]_(Peer!vars)
<1>0. Consistent(w)
  BY DEF Registration
<1>1. CASE Send(w, Plain("needs-credentials")) /\ call' = [call EXCEPT ![w] = "refused"]
            /\ UNCHANGED <<ssh, ws>>
  <2>1. Talk' = [Talk EXCEPT ![w] = Dialog(w)']
    BY <1>1, TalkMoves DEF TypeOK
  <2>2. CASE ws[w] = "open"
    <3>1. Dialog(w)' = "refused" /\ sent' = [sent EXCEPT ![w] = Append(@, Plain("needs-credentials"))]
      BY <1>1, <2>2 DEF Send, Dialog, TypeOK
    <3>2. Plain("needs-credentials") \in Peer!ServerMsg
          /\ Plain("needs-credentials").type = "needs-credentials"
      BY DEF Plain, Peer!Plain, Peer!ServerMsg
    <3>3. Dialog(w) \in {"connected", "asked"}
      BY <1>0, <2>2 DEF Dialog, Consistent
    <3>4. \/ Peer!Emit(w, Plain("needs-credentials"))
          \/ Peer!AskAndEmit(w, Plain("needs-credentials"))
      BY <2>1, <3>1, <3>2, <3>3
         DEF Talk, Peer!Emit, Peer!AskAndEmit, Peer!Turns, Peer!Dialogs
    <3>5. QED
      BY <3>2, <3>4 DEF Peer!Next
  <2>3. CASE ws[w] # "open"
    <3>1. Dialog(w)' = Dialog(w) /\ UNCHANGED sent
      BY <1>1, <2>3 DEF Send, Dialog, TypeOK
    <3>2. UNCHANGED Peer!vars
      BY <2>1, <3>1 DEF Talk, Peer!vars
    <3>3. QED
      BY <3>2
  <2>4. QED
    BY <2>2, <2>3
<1>2. CASE ssh' = [ssh EXCEPT ![w] = "connecting"]
            /\ call' = [call EXCEPT ![w] = "done"] /\ UNCHANGED <<sent, ws>>
  <2>1. Talk' = [Talk EXCEPT ![w] = Dialog(w)']
    BY <1>2, TalkMoves DEF TypeOK
  <2>2. \/ Dialog(w)' = Dialog(w)
        \/ Dialog(w) = "connected" /\ Dialog(w)' = "asked"
    BY <1>0, <1>2 DEF Dialog, TypeOK, Consistent
  <2>3. Peer!Ask(w) \/ UNCHANGED Peer!vars
    BY <1>2, <2>1, <2>2 DEF Talk, Peer!Ask, Peer!vars
  <2>4. QED
    BY <2>3 DEF Peer!Next
<1>3. CASE ssh' = [ssh EXCEPT ![w] = "ended"]
            /\ call' = [call EXCEPT ![w] = "done"] /\ Fail(w, "error")
  <2>1. ws[w] = "open" => Dialog(w) \in {"connected", "asked"}
    BY <1>0 DEF Dialog, Consistent
  <2>2. \A v \in Sock \ {w} : call'[v] = call[v] /\ ssh'[v] = ssh[v]
    BY <1>3 DEF TypeOK
  <2>3. ws[w] = "open" => <<Dialog(w), "error", "over">> \in Peer!Turns
                          \/ (Dialog(w) = "connected" /\ "error" = "error")
    BY <2>1 DEF Peer!Turns
  <2>4. QED
    BY <1>3, <2>2, <2>3, FailIsDialogue
<1>4. QED
  BY <1>1, <1>2, <1>3 DEF OpenSsh

LEMMA StepDialogue == TypeOK /\ Registration /\ [Next]_vars => [Peer!Next]_(Peer!vars)
<1> SUFFICES ASSUME TypeOK, Registration, [Next]_vars PROVE [Peer!Next]_(Peer!vars)
  OBVIOUS
<1>0. ASSUME NEW w \in Sock PROVE Consistent(w)
  BY DEF Registration
<1>1. ASSUME NEW w \in Sock, NEW c \in Login \cup {NoCookie}, HandleConnection(w, c)
      PROVE  [Peer!Next]_(Peer!vars)
  <2>1. Talk' = [Talk EXCEPT ![w] = Dialog(w)']
    BY <1>1, TalkMoves DEF HandleConnection, TypeOK
  <2>2. Dialog(w) = "idle" /\ Dialog(w)' \in {"connected", "over"}
    BY <1>0, <1>1 DEF Dialog, HandleConnection, TypeOK, Consistent
  <2>3. Peer!Accept(w) \/ Peer!Reject(w)
    BY <1>1, <2>1, <2>2 DEF Talk, Peer!Accept, Peer!Reject, HandleConnection
  <2>4. QED
    BY <2>3 DEF Peer!Next
<1>2. ASSUME NEW w \in Sock, NEW f \in Forms, HandleInit(w, f)
      PROVE  [Peer!Next]_(Peer!vars)
  <2>1. ws[w] # "none" /\ (ws[w] = "open" => Dialog(w) = "connected")
    BY <1>0, <1>2 DEF HandleInit, Consistent, Dialog
  <2>2. CASE Fail(w, "error") /\ call' = [call EXCEPT ![w] = "done"] /\ UNCHANGED ssh
    <3>1. \A v \in Sock \ {w} : call'[v] = call[v] /\ ssh'[v] = ssh[v]
      BY <2>2 DEF TypeOK
    <3>2. QED
      BY <2>1, <2>2, <3>1, FailIsDialogue
  <2>3. CASE OpenSsh(w, f)
    BY <1>2, <2>1, <2>3, OpenSshIsDialogue DEF HandleInit
  <2>4. CASE call' = [call EXCEPT ![w] = "resolving"] /\ UNCHANGED <<sent, ws, ssh>>
    <3>1. Talk' = [Talk EXCEPT ![w] = Dialog(w)']
      BY <2>4, TalkMoves DEF TypeOK
    <3>2. \/ Dialog(w)' = Dialog(w)
          \/ Dialog(w) = "connected" /\ Dialog(w)' = "asked"
      BY <1>0, <1>2, <2>1, <2>4 DEF HandleInit, Dialog, TypeOK, Consistent
    <3>3. Peer!Ask(w) \/ UNCHANGED Peer!vars
      BY <2>4, <3>1, <3>2 DEF Talk, Peer!Ask, Peer!vars
    <3>4. QED
      BY <3>3 DEF Peer!Next
  <2>5. QED
    BY <1>2, <2>2, <2>3, <2>4 DEF HandleInit
<1>3. ASSUME NEW w \in Sock, HandleDisconnect(w)
      PROVE  [Peer!Next]_(Peer!vars)
  <2>1. Talk' = [Talk EXCEPT ![w] = Dialog(w)']
    BY <1>3, TalkMoves DEF HandleDisconnect, TypeOK
  <2>2. Dialog(w)' = "over" /\ Dialog(w) # "idle" /\ Dialog(w) \in Peer!Dialogs
    BY <1>3 DEF HandleDisconnect, Dialog, TypeOK, Peer!Dialogs
  <2>3. Peer!HangUp(w) \/ UNCHANGED Peer!vars
    BY <1>3, <2>1, <2>2 DEF Talk, Peer!HangUp, Peer!vars, HandleDisconnect
  <2>4. QED
    BY <2>3 DEF Peer!Next
<1>4. ASSUME NEW w \in Sock, HostFound(w)
      PROVE  [Peer!Next]_(Peer!vars)
  <2>1. form[w] \in Forms /\ ws[w] # "none"
    BY <1>0, <1>4 DEF HostFound, TypeOK, Consistent
  <2>2. QED
    BY <1>4, <2>1, OpenSshIsDialogue DEF HostFound
<1>5. ASSUME NEW w \in Sock, HostMissing(w)
      PROVE  [Peer!Next]_(Peer!vars)
  <2>1. ws[w] # "none" /\ (ws[w] = "open" => Dialog(w) = "asked")
    BY <1>0, <1>5 DEF HostMissing, Consistent, Dialog
  <2>2. \A v \in Sock \ {w} : call'[v] = call[v] /\ ssh'[v] = ssh[v]
    BY <1>5 DEF HostMissing, TypeOK
  <2>3. QED
    BY <1>5, <2>1, <2>2, FailIsDialogue DEF HostMissing, Peer!Turns
<1>6. ASSUME NEW w \in Sock, SshReady(w)
      PROVE  [Peer!Next]_(Peer!vars)
  <2>1. Talk' = [Talk EXCEPT ![w] = Dialog(w)']
    BY <1>6, TalkMoves DEF SshReady, TypeOK
  <2>2. Dialog(w)' = Dialog(w)
    BY <1>6 DEF SshReady, Dialog, TypeOK
  <2>3. QED
    BY <1>6, <2>1, <2>2 DEF Talk, Peer!vars, SshReady
<1>7. ASSUME NEW w \in Sock, ExecOpened(w)
      PROVE  [Peer!Next]_(Peer!vars)
  <2>1. Talk' = [Talk EXCEPT ![w] = Dialog(w)']
    BY <1>7, TalkMoves DEF ExecOpened, TypeOK
  <2>2. CASE ws[w] = "open"
    <3>1. Dialog(w) = "asked" /\ Dialog(w)' = "ready"
          /\ sent' = [sent EXCEPT ![w] = Append(@, Plain("ready"))]
      BY <1>0, <1>7, <2>2 DEF ExecOpened, Send, Dialog, TypeOK, Consistent
    <3>2. Plain("ready") \in Peer!ServerMsg /\ Plain("ready").type = "ready"
      BY DEF Plain, Peer!Plain, Peer!ServerMsg
    <3>3. Peer!Emit(w, Plain("ready"))
      BY <2>1, <3>1, <3>2 DEF Talk, Peer!Emit, Peer!Turns, Peer!Dialogs
    <3>4. QED
      BY <3>2, <3>3 DEF Peer!Next
  <2>3. CASE ws[w] # "open"
    <3>1. Dialog(w)' = Dialog(w) /\ UNCHANGED sent
      BY <1>7, <2>3 DEF ExecOpened, Send, Dialog, TypeOK
    <3>2. QED
      BY <2>1, <3>1 DEF Talk, Peer!vars
  <2>4. QED
    BY <2>2, <2>3
<1>8. ASSUME NEW w \in Sock, ExecFailed(w)
      PROVE  [Peer!Next]_(Peer!vars)
  <2>1. ws[w] # "none" /\ (ws[w] = "open" => Dialog(w) = "asked")
    BY <1>0, <1>8 DEF ExecFailed, Consistent, Dialog
  <2>2. \A v \in Sock \ {w} : call'[v] = call[v] /\ ssh'[v] = ssh[v]
    BY <1>8 DEF ExecFailed, TypeOK
  <2>3. QED
    BY <1>8, <2>1, <2>2, FailIsDialogue DEF ExecFailed, Peer!Turns
<1>9. ASSUME NEW w \in Sock, NEW n \in ChunkSizes, StreamData(w, n)
      PROVE  [Peer!Next]_(Peer!vars)
  <2>1. Talk' = [Talk EXCEPT ![w] = Dialog(w)']
    BY <1>9, TalkMoves DEF StreamData, TypeOK
  <2>2. Dialog(w)' = Dialog(w)
    BY <1>9 DEF StreamData, Dialog
  <2>3. CASE ws[w] = "open"
    <3>1. Dialog(w) = "ready" /\ sent' = [sent EXCEPT ![w] = Append(@, Peer!Output(n))]
      BY <1>0, <1>9, <2>3 DEF StreamData, Send, Dialog, TypeOK, Consistent
    <3>2. Peer!Output(n) \in Peer!ServerMsg /\ Peer!Output(n).type = "output"
      BY DEF Peer!Output, Peer!ServerMsg
    <3>3. Peer!Emit(w, Peer!Output(n))
      BY <2>1, <2>2, <3>1, <3>2 DEF Talk, Peer!Emit, Peer!Turns, Peer!Dialogs
    <3>4. QED
      BY <3>2, <3>3 DEF Peer!Next
  <2>4. CASE ws[w] # "open"
    BY <1>9, <2>1, <2>2, <2>4 DEF StreamData, Send, Talk, Peer!vars
  <2>5. QED
    BY <2>3, <2>4
<1>10. ASSUME NEW w \in Sock, StreamClosed(w)
       PROVE  [Peer!Next]_(Peer!vars)
  <2>1. ws[w] # "none" /\ (ws[w] = "open" => Dialog(w) = "ready")
    BY <1>0, <1>10 DEF StreamClosed, Consistent, Dialog
  <2>2. \A v \in Sock \ {w} : call'[v] = call[v] /\ ssh'[v] = ssh[v]
    BY <1>10 DEF StreamClosed, TypeOK
  <2>3. QED
    BY <1>10, <2>1, <2>2, FailIsDialogue DEF StreamClosed, Peer!Turns
<1>11. ASSUME NEW w \in Sock, SshError(w)
       PROVE  [Peer!Next]_(Peer!vars)
  <2>1. ws[w] # "none" /\ (ws[w] = "open" => Dialog(w) \in {"asked", "ready"})
    BY <1>0, <1>11 DEF SshError, LiveSsh, Consistent, Dialog
  <2>2. \A v \in Sock \ {w} : call'[v] = call[v] /\ ssh'[v] = ssh[v]
    BY <1>11 DEF SshError, TypeOK
  <2>3. QED
    BY <1>11, <2>1, <2>2, FailIsDialogue DEF SshError, Peer!Turns
<1>12. ASSUME NEW c \in Login, Logout(c) \/ Expire(c)
       PROVE  [Peer!Next]_(Peer!vars)
  BY <1>12 DEF Logout, Expire, Peer!vars, Dialog
<1>13. CASE UNCHANGED vars
  BY <1>13 DEF vars, Peer!vars, Dialog
<1>14. QED
  BY <1>1, <1>2, <1>3, <1>4, <1>5, <1>6, <1>7, <1>8, <1>9, <1>10, <1>11, <1>12, <1>13
     DEF Next, SocketNext

(* The gateway keeps to the dialogue of SshPeer, which is what the browser *)
(* side is checked against: it implements the abstract peer.               *)
THEOREM GatewayImplementsPeer == Spec => KeepsDialogue
<1>1. Init => Peer!Init
  BY DEF Init, Peer!Init, Dialog
<1>2. QED
  BY <1>1, InitType, StepType, InitRegistration, StepRegistration, StepDialogue, PTL
     DEF Spec, KeepsDialogue, Peer!Spec
=============================================================================
