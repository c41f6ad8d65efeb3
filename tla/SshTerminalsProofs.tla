-------------------------- MODULE SshTerminalsProofs --------------------------
(***************************************************************************)
(* What holds of SshTerminals for any terminals, session ids, chunk sizes  *)
(* and bounds.  The inductive invariant is built in layers, each inductive *)
(* given the ones below it: types, minted ids, sockets, names, viewers, the *)
(* replay buffer and the stream of output.                                 *)
(***************************************************************************)
EXTENDS SshTerminals, SequenceTheorems, WellFoundedInduction, TLAPS

(* A name for the order of the naturals, so that facts about it are facts  *)
(* about a set.                                                            *)
Below == OpToRel(<, Nat)

LEMMA Least ==
  ASSUME NEW T, T \subseteq Nat, T # {}
  PROVE  \E x \in T : \A y \in T : x <= y
<1>1. IsWellFoundedOn(Below, Nat)
  BY NatLessThanWellFounded DEF Below
<1>2. PICK x \in T : \A y \in T : ~(<<y, x>> \in Below)
  BY <1>1, WFMin
<1>3. \A m, n \in Nat : <<m, n>> \in Below <=> m < n
  BY DEF Below, OpToRel
<1>4. \A y \in T : x \in Nat /\ y \in Nat /\ ~(y < x)
  BY <1>2, <1>3
<1> QED
  BY <1>4

LEMMA Reaches ==
  ASSUME NEW T, T \subseteq Nat, 0 \in T, \A n \in T : n + 1 \in T
  PROVE  T = Nat
<1> DEFINE Rest == Nat \ T
<1> SUFFICES ASSUME Rest # {}
             PROVE  FALSE
  OBVIOUS
<1>1. Rest \subseteq Nat
  OBVIOUS
<1> HIDE DEF Rest
<1>2. PICK x \in Rest : \A y \in Rest : x <= y
  BY <1>1, Least
<1> USE DEF Rest
<1>3. x # 0 /\ x - 1 \in Nat /\ x - 1 < x /\ (x - 1) + 1 = x
  BY <1>2
<1>4. x - 1 \in T
  BY <1>2, <1>3
<1> QED
  BY <1>2, <1>3, <1>4

-----------------------------------------------------------------------------
(* Types. *)
Handles == /\ \A t \in Term : phase[t] \in {"connecting", "connected"} \/ xterm[t] => active[t] \in Sid
           /\ \A t \in Term \ alive : /\ phase[t] \in {"credentials", "closed"}
                                      /\ ~xterm[t]
                                      /\ inbox[t] = <<>> /\ queued[t] = <<>> /\ screen[t] = <<>>

TypeInv == TypeOK /\ Handles

LEMMA NoneIsNoSession == None \notin Sid
  BY PortConstants

LEMMA Inboxes ==
  ASSUME inbox \in [Term -> Seq(Outbound)], NEW P, NEW ms \in Seq(Outbound), Post(P, ms)
  PROVE  /\ inbox' \in [Term -> Seq(Outbound)]
         /\ \A t \in Term : inbox'[t] = IF t \in P \cap alive THEN inbox[t] \o ms ELSE inbox[t]
  BY DEF Post

LEMMA Outboxes ==
  ASSUME outbox \in [Term -> Seq(Inbound)], NEW t \in Term, NEW m \in Inbound, PostToWorker(t, m)
  PROVE  /\ outbox' \in [Term -> Seq(Inbound)]
         /\ outbox'[t] = Append(outbox[t], m)
         /\ \A u \in Term \ {t} : outbox'[u] = outbox[u]
  BY DEF PostToWorker

LEMMA Letters ==
  ASSUME NEW s \in Sid
  PROVE  /\ \A b \in BOOLEAN : Create(s, b) \in Inbound
         /\ \A type \in {"attach", "input", "resize", "detach"} : Ask(type, s) \in Inbound
         /\ \A type \in {"ready", "output", "error", "closed", "needs-credentials"} :
              Tell(type, s) \in Outbound
         /\ \A data \in Seq(Chunk) : Show(s, data) \in Outbound
  BY DEF Create, Ask, Tell, Show, Inbound, Outbound

LEMMA StartsAreTyped ==
  ASSUME TypeInv, NEW t \in Term, StartSession(t)
  PROVE  \E s \in Sid \ minted :
           /\ minted' = minted \cup {s}
           /\ active' = [active EXCEPT ![t] = s]
           /\ phase' = [phase EXCEPT ![t] = "connecting"]
           /\ PostToWorker(t, Create(s, t \in Inline))
           /\ outbox' \in [Term -> Seq(Inbound)]
<1>1. PICK s \in Sid \ minted : /\ minted' = minted \cup {s}
                                /\ active' = [active EXCEPT ![t] = s]
                                /\ Enter(t, "connecting")
                                /\ PostToWorker(t, Create(s, t \in Inline))
  BY DEF StartSession
<1>2. Create(s, t \in Inline) \in Inbound
  BY DEF Create, Inbound
<1>3. outbox' \in [Term -> Seq(Inbound)]
  BY <1>1, <1>2, Outboxes DEF TypeInv, TypeOK, PortsOK
<1> QED
  BY <1>1, <1>3 DEF Enter

LEMMA WorkerKept ==
  ASSUME TypeInv, UNCHANGED workerVars
  PROVE  WorkerOK'
  BY DEF TypeInv, TypeOK, WorkerOK, workerVars, Peer!TypeOK

LEMMA TermKept ==
  ASSUME TypeInv, UNCHANGED termVars
  PROVE  TerminalOK'
  BY DEF TypeInv, TypeOK, TerminalOK, termVars

LEMMA UserTypes ==
  ASSUME TypeInv, NEW t \in Term, UserStep(t)
  PROVE  TypeInv'
<1> USE DEF TypeInv
<1>1. UNCHANGED workerVars /\ WorkerOK'
  BY WorkerKept DEF UserStep
<1>2. CASE Open(t)
  <2>1. PICK s \in Sid \ minted :
          /\ minted' = minted \cup {s}
          /\ active' = [active EXCEPT ![t] = s]
          /\ phase' = [phase EXCEPT ![t] = "connecting"]
          /\ outbox' \in [Term -> Seq(Inbound)]
    BY <1>2, StartsAreTyped DEF Open
  <2>2. PortsOK'
    BY <1>2, <2>1 DEF Open, TypeOK, PortsOK
  <2>3. TerminalOK'
    BY <1>2, <2>1 DEF Open, TypeOK, TerminalOK, Phases
  <2>4. Handles'
    BY <1>2, <2>1 DEF Open, TypeOK, TerminalOK, Handles
  <2> QED
    BY <1>1, <2>2, <2>3, <2>4 DEF TypeOK
<1>3. CASE Connect(t)
  <2>1. PICK s \in Sid \ minted :
          /\ minted' = minted \cup {s}
          /\ active' = [active EXCEPT ![t] = s]
          /\ phase' = [phase EXCEPT ![t] = "connecting"]
          /\ outbox' \in [Term -> Seq(Inbound)]
    BY <1>3, StartsAreTyped DEF Connect
  <2>2. PortsOK'
    BY <1>3, <2>1 DEF Connect, TypeOK, PortsOK
  <2>3. TerminalOK'
    BY <1>3, <2>1 DEF Connect, TypeOK, TerminalOK, Phases
  <2>4. Handles'
    BY <1>3, <2>1 DEF Connect, TypeOK, TerminalOK, Handles
  <2> QED
    BY <1>1, <2>2, <2>3, <2>4 DEF TypeOK
<1>4. CASE Disconnect(t)
  <2>1. active[t] \in Sid
    BY <1>4 DEF Disconnect, Handles
  <2>2. outbox' \in [Term -> Seq(Inbound)]
    BY <1>4, <2>1, Letters, Outboxes DEF Disconnect, TypeOK, PortsOK
  <2>3. PortsOK'
    BY <1>4, <2>2 DEF Disconnect, TypeOK, PortsOK
  <2>4. TerminalOK'
    BY <1>4 DEF Disconnect, TypeOK, TerminalOK, Phases, Enter, Cleanup
  <2>5. Handles'
    BY <1>4 DEF Disconnect, TypeOK, TerminalOK, Handles, Enter, Cleanup
  <2> QED
    BY <1>1, <2>3, <2>4, <2>5 DEF TypeOK
<1>5. CASE Retry(t)
  <2>1. PortsOK'
    BY <1>5 DEF Retry, TypeOK, PortsOK, portVars
  <2>2. TerminalOK'
    BY <1>5 DEF Retry, TypeOK, TerminalOK, Phases, Enter
  <2>3. Handles'
    BY <1>5 DEF Retry, TypeOK, TerminalOK, Handles, Enter, portVars
  <2> QED
    BY <1>1, <2>1, <2>2, <2>3 DEF TypeOK
<1>6. ASSUME NEW p \in Popup, PopOut(t, p)
      PROVE  TypeInv'
  <2>1. p \in Term /\ active[t] \in Sid
    BY <1>6 DEF PopOut, Handles, Term
  <2>2. outbox' \in [Term -> Seq(Inbound)]
    BY <1>6, <2>1, Letters, Outboxes DEF PopOut, TypeOK, PortsOK
  <2>3. PortsOK'
    BY <1>6, <2>1, <2>2 DEF PopOut, TypeOK, PortsOK
  <2>4. TerminalOK'
    BY <1>6, <2>1 DEF PopOut, TypeOK, TerminalOK, Phases, Enter
  <2>5. Handles'
    BY <1>6, <2>1 DEF PopOut, TypeOK, TerminalOK, Handles, Enter
  <2> QED
    BY <1>1, <2>3, <2>4, <2>5 DEF TypeOK
<1>7. ASSUME NEW type \in {"input", "resize"}, Key(t, type)
      PROVE  TypeInv'
  <2>1. active[t] \in Sid
    BY <1>7 DEF Key, Handles
  <2>2. outbox' \in [Term -> Seq(Inbound)]
    BY <1>7, <2>1, Letters, Outboxes DEF Key, TypeOK, PortsOK
  <2>3. PortsOK'
    BY <1>7, <2>2 DEF Key, TypeOK, PortsOK
  <2>4. TerminalOK'
    BY <1>7, TermKept DEF Key
  <2>5. Handles'
    BY <1>7 DEF Key, TypeOK, Handles, termVars
  <2> QED
    BY <1>1, <2>3, <2>4, <2>5 DEF TypeOK
<1>8. CASE Leave(t)
  <2>1. PortsOK'
    BY <1>8 DEF Leave, TypeOK, PortsOK
  <2>2. TerminalOK'
    BY <1>8 DEF Leave, TypeOK, TerminalOK, Phases, Enter, Cleanup
  <2>3. Handles'
    BY <1>8 DEF Leave, TypeOK, PortsOK, TerminalOK, Handles, Enter, Cleanup
  <2> QED
    BY <1>1, <2>1, <2>2, <2>3 DEF TypeOK
<1> QED
  BY <1>2, <1>3, <1>4, <1>5, <1>6, <1>7, <1>8 DEF UserStep

LEMMA ElementTypes ==
  ASSUME TypeInv, NEW t \in Term, ElementStep(t)
  PROVE  TypeInv'
<1> USE DEF TypeInv
<1>1. WorkerOK'
  BY WorkerKept DEF ElementStep
<1> DEFINE m == Head(inbox[t])
<1>2. m \in Outbound /\ m.data \in Seq(Chunk) /\ Tail(inbox[t]) \in Seq(Outbound)
  <2>1. inbox[t] \in Seq(Outbound) /\ inbox[t] # <<>>
    BY DEF ElementStep, OnWorkerMessage, TypeOK, PortsOK
  <2>2. m \in Outbound /\ Tail(inbox[t]) \in Seq(Outbound)
    BY <2>1
  <2> QED
    BY <2>2 DEF Outbound
<1>3. /\ t \in alive
      /\ inbox' = [inbox EXCEPT ![t] = Tail(@)]
      /\ UNCHANGED <<alive, outbox, active, minted>>
      /\ \/ m.sid # active[t] /\ UNCHANGED <<phase, xterm, screen, queued>>
         \/ /\ m.sid = active[t]
            /\ OnReady(t, m) \/ OnOutput(t, m) \/ OnEnd(t, m) \/ OnNeedsCredentials(t, m)
  BY DEF ElementStep, OnWorkerMessage
<1>4. PortsOK'
  BY <1>2, <1>3 DEF TypeOK, PortsOK
<1> HIDE DEF m
<1>5. screen[t] \o m.data \in Seq(Chunk) /\ queued[t] \o m.data \in Seq(Chunk)
  BY <1>2 DEF TypeOK, TerminalOK
<1>6. TerminalOK'
  <2>1. CASE UNCHANGED <<phase, xterm, screen, queued>>
    BY <1>3, <2>1 DEF TypeOK, TerminalOK
  <2>2. CASE OnReady(t, m)
    <3>1. phase' \in [Term -> Phases]
      BY <2>2 DEF TypeOK, TerminalOK, OnReady, Enter, Phases
    <3>2. queued[t] \in Seq(Chunk) /\ <<>> \in Seq(Chunk)
      BY DEF TypeOK, TerminalOK
    <3>3. xterm' \in [Term -> BOOLEAN] /\ screen' \in [Term -> Seq(Chunk)] /\ queued' \in [Term -> Seq(Chunk)]
      BY <2>2, <3>2 DEF TypeOK, TerminalOK, OnReady
    <3> QED
      BY <1>3, <3>1, <3>3 DEF TypeOK, TerminalOK
  <2>3. CASE OnOutput(t, m)
    BY <1>3, <1>5, <2>3 DEF TypeOK, TerminalOK, OnOutput
  <2>4. CASE OnEnd(t, m)
    BY <1>3, <2>4 DEF TypeOK, TerminalOK, OnEnd, Enter, Cleanup, Phases
  <2>5. CASE OnNeedsCredentials(t, m)
    BY <1>3, <2>5 DEF TypeOK, TerminalOK, OnNeedsCredentials, Enter, Phases
  <2> QED
    BY <1>3, <2>1, <2>2, <2>3, <2>4, <2>5
<1>7. m.sid \in Sid
  BY <1>2 DEF Outbound
<1>8. Handles'
  BY <1>3, <1>7 DEF Handles, TypeOK, TerminalOK, OnReady, OnOutput, OnEnd, OnNeedsCredentials, Enter, Cleanup
<1> QED
  BY <1>1, <1>4, <1>6, <1>8 DEF TypeOK

(* What is posted to pages that are gone is lost, so nothing changes there. *)
LEMMA HandlesKept ==
  ASSUME TypeInv, UNCHANGED <<alive, termVars>>,
         \A t \in Term \ alive : inbox'[t] = inbox[t]
  PROVE  Handles'
  BY DEF TypeInv, Handles, termVars

LEMMA AttachTypes ==
  ASSUME TypeInv, NEW t \in Term, NEW s \in Sid, AttachTo(t, s), alive' = alive
  PROVE  /\ ports' \in [Sid -> SUBSET Term]
         /\ inbox' \in [Term -> Seq(Outbound)]
         /\ \A u \in Term \ alive : inbox'[u] = inbox[u]
<1> USE DEF TypeInv, TypeOK, PortsOK, WorkerOK
<1>1. /\ <<Tell("error", s)>> \in Seq(Outbound)
      /\ <<Tell("ready", s), Show(s, buffer[s])>> \in Seq(Outbound)
  BY Letters
<1>2. CASE s \notin sessions
  <2>1. Post({t}, <<Tell("error", s)>>) /\ UNCHANGED ports
    BY <1>2 DEF AttachTo
  <2> QED
    BY <1>1, <2>1, Inboxes
<1>3. CASE s \in sessions
  <2>1. ports' = [ports EXCEPT ![s] = @ \cup {t}]
    BY <1>3 DEF AttachTo
  <2>2. UNCHANGED inbox \/ Post({t}, <<Tell("ready", s), Show(s, buffer[s])>>)
    BY <1>3 DEF AttachTo
  <2>3. /\ inbox' \in [Term -> Seq(Outbound)]
        /\ \A u \in Term \ alive : inbox'[u] = inbox[u]
    BY <1>1, <2>2, Inboxes
  <2> QED
    BY <2>1, <2>3
<1> QED
  BY <1>2, <1>3

LEMMA TakenIsTyped ==
  ASSUME TypeInv, NEW t \in Term, NEW type, Take(t, type)
  PROVE  /\ outbox' \in [Term -> Seq(Inbound)]
         /\ Head(outbox[t]) \in Inbound /\ Head(outbox[t]).sid \in Sid
         /\ Head(outbox[t]).named \in BOOLEAN
<1>1. outbox[t] \in Seq(Inbound) /\ outbox[t] # <<>>
  BY DEF TypeInv, TypeOK, PortsOK, Take
<1>2. Head(outbox[t]) \in Inbound /\ Tail(outbox[t]) \in Seq(Inbound)
  BY <1>1
<1>3. outbox' \in [Term -> Seq(Inbound)]
  BY <1>2 DEF TypeInv, TypeOK, PortsOK, Take
<1> QED
  BY <1>2, <1>3 DEF Inbound

LEMMA PortTypes ==
  ASSUME TypeInv, NEW t \in Term, PortStep(t)
  PROVE  TypeInv'
<1> USE DEF TypeInv
<1>1. TerminalOK' /\ UNCHANGED termVars
  BY TermKept DEF PortStep
<1> DEFINE m == Head(outbox[t])
<1>2. CASE CreateSession(t)
  <2>1. outbox' \in [Term -> Seq(Inbound)] /\ m.sid \in Sid /\ m.named \in BOOLEAN /\ alive' = alive
    BY <1>2, TakenIsTyped DEF CreateSession, Take
  <2>2. CASE m.sid \in sessions
    <3>1. AttachTo(t, m.sid) /\ UNCHANGED <<sessions, named, ws, buffer, chars, got, dialog, sent>>
      BY <1>2, <2>2 DEF CreateSession
    <3>2. /\ ports' \in [Sid -> SUBSET Term]
          /\ inbox' \in [Term -> Seq(Outbound)]
          /\ \A u \in Term \ alive : inbox'[u] = inbox[u]
      BY <2>1, <3>1, AttachTypes
    <3>3. PortsOK' /\ WorkerOK'
      BY <2>1, <3>1, <3>2 DEF TypeOK, PortsOK, WorkerOK, Peer!TypeOK
    <3> QED
      BY <1>1, <2>1, <3>2, <3>3, HandlesKept DEF TypeOK
  <2>3. CASE m.sid \notin sessions
    <3>1. PortsOK'
      BY <1>2, <2>1, <2>3 DEF CreateSession, TypeOK, PortsOK
    <3>2. WorkerOK'
      <4>1. /\ sessions' = sessions \cup {m.sid}
            /\ ports' = [ports EXCEPT ![m.sid] = {t}]
            /\ named' = [named EXCEPT ![m.sid] = m.named]
            /\ ws' = [ws EXCEPT ![m.sid] = "connecting"]
            /\ UNCHANGED <<buffer, chars, got, dialog, sent>>
        BY <1>2, <2>3 DEF CreateSession, SetWs
      <4> HIDE DEF m
      <4> QED
        BY <2>1, <4>1 DEF TypeOK, WorkerOK, Peer!TypeOK
    <3>3. Handles'
      BY <1>1, <1>2, <2>1, <2>3, HandlesKept DEF CreateSession
    <3> QED
      BY <1>1, <3>1, <3>2, <3>3 DEF TypeOK
  <2> QED
    BY <2>2, <2>3
<1>3. CASE AttachToSession(t)
  <2>1. outbox' \in [Term -> Seq(Inbound)] /\ m.sid \in Sid /\ alive' = alive
    BY <1>3, TakenIsTyped DEF AttachToSession, Take
  <2>2. AttachTo(t, m.sid) /\ UNCHANGED <<sessions, named, ws, buffer, chars, got, dialog, sent>>
    BY <1>3 DEF AttachToSession
  <2>3. /\ ports' \in [Sid -> SUBSET Term]
        /\ inbox' \in [Term -> Seq(Outbound)]
        /\ \A u \in Term \ alive : inbox'[u] = inbox[u]
    BY <2>1, <2>2, AttachTypes
  <2>4. PortsOK' /\ WorkerOK'
    BY <2>1, <2>2, <2>3 DEF TypeOK, PortsOK, WorkerOK, Peer!TypeOK
  <2> QED
    BY <1>1, <2>1, <2>3, <2>4, HandlesKept DEF TypeOK
<1>4. CASE ForwardInput(t)
  <2>1. outbox' \in [Term -> Seq(Inbound)] /\ alive' = alive
    BY <1>4, TakenIsTyped DEF ForwardInput, Take
  <2>2. PortsOK' /\ WorkerOK'
    BY <1>4, <2>1, WorkerKept DEF ForwardInput, TypeOK, PortsOK
  <2> QED
    BY <1>1, <1>4, <2>1, <2>2, HandlesKept DEF TypeOK, ForwardInput
<1>5. CASE DetachPort(t)
  <2>1. outbox' \in [Term -> Seq(Inbound)] /\ m.sid \in Sid /\ alive' = alive
    BY <1>5, TakenIsTyped DEF DetachPort, Take
  <2>2. PortsOK'
    BY <1>5, <2>1 DEF DetachPort, TypeOK, PortsOK
  <2>3. WorkerOK'
    <3>1. /\ sessions' = sessions \/ sessions' = sessions \ {m.sid}
          /\ UNCHANGED ws \/ ws' = [ws EXCEPT ![m.sid] = "closing"]
          /\ UNCHANGED ports \/ ports' = [ports EXCEPT ![m.sid] = ports[m.sid] \ {t}]
          /\ UNCHANGED <<named, buffer, chars, got, dialog, sent>>
      BY <1>5 DEF DetachPort, SetWs
    <3>2. ws' \in [Sid -> {"none", "connecting", "open", "closing", "closed"}]
      BY <2>1, <3>1 DEF TypeOK, WorkerOK
    <3>3. ports \in [Sid -> SUBSET Term] /\ ports[m.sid] \ {t} \in SUBSET Term
      BY <2>1 DEF TypeOK, WorkerOK
    <3>4. ports' \in [Sid -> SUBSET Term]
      BY <3>1, <3>3
    <3> QED
      BY <3>1, <3>2, <3>4 DEF TypeOK, WorkerOK, Peer!TypeOK
  <2>4. Handles'
    BY <1>1, <1>5, <2>1, HandlesKept DEF DetachPort
  <2> QED
    BY <1>1, <2>2, <2>3, <2>4 DEF TypeOK
<1> QED
  BY <1>2, <1>3, <1>4, <1>5 DEF PortStep
LEMMA PeerTypes ==
  ASSUME TypeInv, NEW s \in Sid, NEW m,
         \/ UNCHANGED <<dialog, sent>> \/ Peer!Accept(s) \/ Peer!Reject(s) \/ Peer!HangUp(s)
         \/ Peer!Ask(s)
         \/ m \in Peer!ServerMsg /\ Peer!Emit(s, m)
  PROVE  Peer!TypeOK'
<1> USE DEF TypeInv, TypeOK, WorkerOK, Peer!TypeOK
<1>1. CASE UNCHANGED <<dialog, sent>>
  BY <1>1
<1>2. CASE Peer!Accept(s) \/ Peer!Reject(s) \/ Peer!HangUp(s) \/ Peer!Ask(s)
  BY <1>2 DEF Peer!Accept, Peer!Reject, Peer!HangUp, Peer!Ask, Peer!Dialogs
<1>3. CASE m \in Peer!ServerMsg /\ Peer!Emit(s, m)
  <2>1. Append(sent[s], m) \in Seq(Peer!ServerMsg)
    BY <1>3
  <2> QED
    BY <1>3, <2>1 DEF Peer!Emit
<1> QED
  BY <1>1, <1>2, <1>3

LEMMA ExcessIsLeast ==
  ASSUME NEW b \in Seq(Chunk), NEW total, b # <<>>
  PROVE  /\ Excess(b, total) \in 0..(Len(b) - 1)
         /\ Fits(b, total, Excess(b, total))
         /\ \A j \in 0..(Excess(b, total) - 1) : ~Fits(b, total, j)
<1> DEFINE T == {k \in 0..(Len(b) - 1) : Fits(b, total, k)}
<1>1. Len(b) - 1 \in T
  BY DEF Fits
<1>2. T \subseteq Nat
  OBVIOUS
<1>3. \E k \in T : \A j \in T : k <= j
  BY <1>1, <1>2, Least
<1>4. \E k \in 0..(Len(b) - 1) : Fits(b, total, k) /\ \A j \in 0..(k - 1) : ~Fits(b, total, j)
  <2>1. PICK k \in T : \A j \in T : k <= j
    BY <1>3
  <2>2. \A j \in 0..(k - 1) : j \in 0..(Len(b) - 1) /\ ~(k <= j)
    OBVIOUS
  <2> QED
    BY <2>1, <2>2
<1> QED
  BY <1>4 DEF Excess

LEMMA BufferTypes ==
  ASSUME TypeInv, NEW s \in Sid, NEW c \in Chunk, AppendBuffer(s, c)
  PROVE  buffer' \in [Sid -> Seq(Chunk)]
<1> DEFINE pushed == Append(buffer[s], c)
           k      == Excess(pushed, chars[s] + SizeOf(c))
<1>1. pushed \in Seq(Chunk) /\ pushed # <<>>
  <2>1. buffer[s] \in Seq(Chunk)
    BY DEF TypeInv, TypeOK, WorkerOK
  <2> QED
    BY <2>1
<1>2. buffer' = [buffer EXCEPT ![s] = SubSeq(pushed, k + 1, Len(pushed))]
  BY DEF AppendBuffer
<1>3. k \in 0..(Len(pushed) - 1)
  BY <1>1, ExcessIsLeast
<1> HIDE DEF pushed, k
<1>4. SubSeq(pushed, k + 1, Len(pushed)) \in Seq(Chunk)
  BY <1>1, <1>3, SubSeqProperties
<1> QED
  BY <1>2, <1>4 DEF TypeInv, TypeOK, WorkerOK

(* What the close listener posts. *)
LEMMA ClosingTypes ==
  ASSUME TypeInv, NEW s \in Sid, NEW errors \in {<<>>, <<Tell("error", s)>>}, Closing(s, errors)
  PROVE  /\ inbox' \in [Term -> Seq(Outbound)]
         /\ \A t \in Term \ alive : inbox'[t] = inbox[t]
         /\ ws' = [ws EXCEPT ![s] = "closed"]
         /\ sessions' = sessions \ {s}
<1>1. errors \o (IF s \in sessions THEN <<Tell("closed", s)>> ELSE <<>>) \in Seq(Outbound)
  <2>1. errors \in Seq(Outbound) /\ <<>> \in Seq(Outbound) /\ <<Tell("closed", s)>> \in Seq(Outbound)
    <3>1. Tell("error", s) \in Outbound /\ Tell("closed", s) \in Outbound
      BY Letters
    <3>2. <<Tell("error", s)>> \in Seq(Outbound) /\ <<Tell("closed", s)>> \in Seq(Outbound)
      BY <3>1
    <3>3. <<>> \in Seq(Outbound)
      OBVIOUS
    <3> QED
      BY <3>2, <3>3
  <2> QED
    BY <2>1
<1> QED
  BY <1>1, Inboxes DEF Closing, SetWs, TypeInv, TypeOK, PortsOK

LEMMA SocketTypes ==
  ASSUME TypeInv, NEW s \in Sid, SocketStep(s)
  PROVE  TypeInv'
<1> USE DEF TypeInv
<1>1. TerminalOK' /\ UNCHANGED termVars
  BY TermKept DEF SocketStep
<1>2. CASE WsOpen(s)
  <2>1. Peer!TypeOK'
    BY <1>2, PeerTypes DEF WsOpen
  <2>2. PortsOK' /\ WorkerOK' /\ Handles'
    BY <1>1, <1>2, <2>1, HandlesKept DEF WsOpen, SetWs, TypeOK, PortsOK, WorkerOK, portVars
  <2> QED
    BY <1>1, <2>2 DEF TypeOK
<1>3. ASSUME NEW errors \in {<<>>, <<Tell("error", s)>>}, Closing(s, errors), Peer!TypeOK',
             UNCHANGED <<alive, outbox, ports, buffer, chars, named, got>>
      PROVE  TypeInv'
  <2>1. PortsOK' /\ WorkerOK' /\ Handles'
    BY <1>1, <1>3, ClosingTypes, HandlesKept DEF TypeOK, PortsOK, WorkerOK
  <2> QED
    BY <1>1, <2>1 DEF TypeOK
<1>4. CASE WsFailed(s)
  BY <1>3, <1>4, PeerTypes DEF WsFailed
<1>5. CASE WsLost(s)
  <2>1. Peer!TypeOK'
    BY <1>5, PeerTypes DEF WsLost
  <2> QED
    BY <1>3, <1>5, <2>1 DEF WsLost
<1>6. CASE WsGone(s)
  <2>1. Peer!TypeOK'
    BY <1>6, PeerTypes DEF WsGone
  <2> QED
    BY <1>3, <1>6, <2>1 DEF WsGone
<1>7. CASE WsMessage(s)
  <2> DEFINE m == sent[s][got[s] + 1]
             c == [sid |-> s, pos |-> got[s] + 1]
  <2>1. got[s] \in Nat /\ m \in Peer!ServerMsg /\ c \in Chunk
    BY <1>7 DEF WsMessage, TypeOK, WorkerOK, Peer!TypeOK, Chunk
  <2>2. got' \in [Sid -> Nat] /\ UNCHANGED <<alive, outbox, ports, named, ws, dialog, sent>>
    BY <1>7, <2>1 DEF WsMessage, TypeOK, WorkerOK
  <2>3. Peer!TypeOK'
    BY <2>2, PeerTypes
  <2>4. /\ inbox' \in [Term -> Seq(Outbound)] /\ \A t \in Term \ alive : inbox'[t] = inbox[t]
        /\ buffer' \in [Sid -> Seq(Chunk)] /\ sessions' \subseteq Sid
    <3>1. CASE OnServerOutput(s, m)
      <4>1. <<Show(s, <<c>>)>> \in Seq(Outbound)
        <5>1. <<c>> \in Seq(Chunk)
          BY <2>1
        <5>2. Show(s, <<c>>) \in Outbound
          BY <5>1, Letters
        <5> QED
          BY <5>2
      <4>2. AppendBuffer(s, c) /\ Post(ports[s], <<Show(s, <<c>>)>>) /\ sessions' = sessions
        BY <3>1 DEF OnServerOutput
      <4> QED
        BY <2>1, <4>1, <4>2, BufferTypes, Inboxes DEF TypeOK, PortsOK, WorkerOK
    <3>2. CASE OnServerNews(s, m)
      <4>1. <<Tell(m.type, s)>> \in Seq(Outbound)
        BY <3>2, Letters DEF OnServerNews
      <4> QED
        BY <3>2, <4>1, Inboxes DEF OnServerNews, TypeOK, PortsOK, WorkerOK
    <3>3. CASE OnServerClosed(s, m)
      <4>1. <<Tell("closed", s)>> \in Seq(Outbound)
        BY Letters
      <4> QED
        BY <3>3, <4>1, Inboxes DEF OnServerClosed, TypeOK, PortsOK, WorkerOK
    <3> QED
      BY <1>7, <3>1, <3>2, <3>3 DEF WsMessage
  <2>5. PortsOK' /\ WorkerOK' /\ Handles'
    BY <1>1, <2>2, <2>3, <2>4, HandlesKept DEF TypeOK, PortsOK, WorkerOK
  <2> QED
    BY <1>1, <2>5 DEF TypeOK
<1>8. CASE WsClosing(s)
  <2>1. PortsOK' /\ WorkerOK' /\ Handles'
    BY <1>1, <1>8, HandlesKept, PeerTypes DEF WsClosing, SetWs, TypeOK, PortsOK, WorkerOK, portVars
  <2> QED
    BY <1>1, <2>1 DEF TypeOK
<1> QED
  BY <1>2, <1>4, <1>5, <1>6, <1>7, <1>8 DEF SocketStep

LEMMA GatewayTypes ==
  ASSUME TypeInv, NEW s \in Sid, GatewayStep(s)
  PROVE  TypeInv'
<1> USE DEF TypeInv
<1>1. TerminalOK' /\ UNCHANGED termVars
  BY TermKept DEF GatewayStep
<1>2. /\ UNCHANGED <<portVars, sessions, ports, buffer, chars, named, ws, got>>
      /\ Peer!Ask(s) \/ \E m \in Peer!ServerMsg : Peer!Emit(s, m)
  BY DEF GatewayStep, GatewayTakesInit, GatewaySends
<1>3. Peer!TypeOK'
  <2>1. CASE Peer!Ask(s)
    BY <2>1, PeerTypes
  <2>2. ASSUME NEW m \in Peer!ServerMsg, Peer!Emit(s, m)
        PROVE  Peer!TypeOK'
    BY <2>2, PeerTypes
  <2> QED
    BY <1>2, <2>1, <2>2
<1>4. PortsOK' /\ WorkerOK' /\ Handles'
  BY <1>1, <1>2, <1>3, HandlesKept DEF TypeOK, PortsOK, WorkerOK, portVars
<1> QED
  BY <1>1, <1>4 DEF TypeOK

LEMMA StutterTypes ==
  ASSUME TypeInv, UNCHANGED vars
  PROVE  TypeInv'
<1>1. TerminalOK' /\ WorkerOK' /\ UNCHANGED <<portVars, termVars, workerVars>>
  BY TermKept, WorkerKept DEF vars
<1>2. PortsOK' /\ Handles'
  BY <1>1, HandlesKept DEF portVars, TypeInv, TypeOK, PortsOK
<1> QED
  BY <1>1, <1>2 DEF TypeInv, TypeOK

LEMMA TypesStep ==
  ASSUME TypeInv, [Next]_vars
  PROVE  TypeInv'
  BY UserTypes, ElementTypes, PortTypes, SocketTypes, GatewayTypes, StutterTypes DEF Next

LEMMA TypesInit == Init => TypeInv
<1> SUFFICES ASSUME Init
             PROVE  TypeInv
  OBVIOUS
<1>1. TypeOK
  BY DEF Init, PortsInit, TerminalInit, WorkerInit, Peer!Init, TypeOK, PortsOK, TerminalOK, WorkerOK,
         Peer!TypeOK, Peer!Dialogs, Phases
<1>2. Handles
  BY DEF Init, PortsInit, TerminalInit, Handles
<1> QED
  BY <1>1, <1>2 DEF TypeInv

LEMMA TypesHold == Spec => []TypeInv
  BY TypesInit, TypesStep, PTL DEF Spec

(* Every variable of ports, elements and worker keeps its type. *)
THEOREM TypeCorrect == Spec => []TypeOK
<1>1. TypeInv => TypeOK
  BY DEF TypeInv
<1> QED
  BY <1>1, TypesHold, PTL

-----------------------------------------------------------------------------
(* The ids of sessions: a session is created once, by the one message that *)
(* was posted when its id was minted.                                      *)
LEMMA OutboxGrows ==
  ASSUME TypeInv, NEW t \in Term, NEW m \in Inbound, PostToWorker(t, m)
  PROVE  /\ DOMAIN outbox[t] = 1..Len(outbox[t])
         /\ DOMAIN outbox'[t] = 1..(Len(outbox[t]) + 1)
         /\ Len(outbox[t]) \in Nat
         /\ outbox'[t][Len(outbox[t]) + 1] = m
         /\ \A i \in DOMAIN outbox[t] : outbox'[t][i] = outbox[t][i]
         /\ \A u \in Term \ {t} : outbox'[u] = outbox[u]
<1>1. outbox[t] \in Seq(Inbound)
  BY DEF TypeInv, TypeOK, PortsOK
<1>2. outbox'[t] = Append(outbox[t], m) /\ \A u \in Term \ {t} : outbox'[u] = outbox[u]
  BY Outboxes DEF TypeInv, TypeOK, PortsOK
<1> QED
  BY <1>1, <1>2

LEMMA OutboxTaken ==
  ASSUME TypeInv, NEW t \in Term, NEW type, Take(t, type)
  PROVE  /\ 1 \in DOMAIN outbox[t]
         /\ outbox[t][1] = Head(outbox[t])
         /\ Head(outbox[t]).type = type
         /\ Head(outbox[t]).sid \in Sid
         /\ \A i \in DOMAIN outbox'[t] : /\ i \in Nat \ {0} /\ i + 1 \in DOMAIN outbox[t]
                                         /\ outbox'[t][i] = outbox[t][i + 1]
         /\ \A u \in Term \ {t} : outbox'[u] = outbox[u]
<1>1. outbox[t] \in Seq(Inbound) /\ outbox[t] # <<>>
  BY DEF TypeInv, TypeOK, PortsOK, Take
<1>2. outbox'[t] = Tail(outbox[t]) /\ \A u \in Term \ {t} : outbox'[u] = outbox[u]
  BY DEF TypeInv, TypeOK, PortsOK, Take
<1>3. Head(outbox[t]).sid \in Sid /\ Head(outbox[t]).type = type
  BY TakenIsTyped DEF Take
<1> QED
  BY <1>1, <1>2, <1>3

CreatedOnce ==
  \A t, u \in Term : \A i \in DOMAIN outbox[t], j \in DOMAIN outbox[u] :
    /\ outbox[t][i].type = "create" /\ outbox[u][j].type = "create"
    /\ outbox[t][i].sid = outbox[u][j].sid
    => t = u /\ i = j

MintInv ==
  /\ \A t \in Term : active[t] # None => active[t] \in minted
  /\ \A s \in Sid : ws[s] # "none" => s \in minted
  /\ \A s \in sessions : ws[s] # "none"
  /\ \A t \in Term : \A i \in DOMAIN outbox[t] :
       /\ outbox[t][i].sid \in minted
       /\ outbox[t][i].type = "create" => ws[outbox[t][i].sid] = "none"
  /\ CreatedOnce

LEMMA MintedByStart ==
  ASSUME TypeInv, MintInv, NEW t \in Term, StartSession(t), UNCHANGED <<sessions, ws>>
  PROVE  MintInv'
<1>1. PICK s \in Sid \ minted : /\ minted' = minted \cup {s}
                                /\ active' = [active EXCEPT ![t] = s]
                                /\ PostToWorker(t, Create(s, t \in Inline))
  BY StartsAreTyped
<1>2. Create(s, t \in Inline) \in Inbound
  BY DEF Create, Inbound
<1>3. /\ DOMAIN outbox[t] = 1..Len(outbox[t]) /\ Len(outbox[t]) \in Nat
      /\ DOMAIN outbox'[t] = 1..(Len(outbox[t]) + 1)
      /\ outbox'[t][Len(outbox[t]) + 1] = Create(s, t \in Inline)
      /\ \A i \in DOMAIN outbox[t] : outbox'[t][i] = outbox[t][i]
      /\ \A u \in Term \ {t} : outbox'[u] = outbox[u]
  BY <1>1, <1>2, OutboxGrows
<1>4. Create(s, t \in Inline).sid = s
  BY DEF Create
<1>5. ws[s] = "none" /\ \A u \in Term : \A i \in DOMAIN outbox[u] : outbox[u][i].sid # s
  BY DEF MintInv
<1>6. \A u \in Term : active'[u] = IF u = t THEN s ELSE active[u]
  BY <1>1 DEF TypeInv, TypeOK, TerminalOK
<1>7. CreatedOnce'
  <2> SUFFICES ASSUME NEW u \in Term, NEW v \in Term,
                      NEW i \in DOMAIN outbox'[u], NEW j \in DOMAIN outbox'[v],
                      outbox'[u][i].type = "create", outbox'[v][j].type = "create",
                      outbox'[u][i].sid = outbox'[v][j].sid
               PROVE  u = v /\ i = j
    BY DEF CreatedOnce
  <2>1. \/ i \in DOMAIN outbox[u] /\ outbox'[u][i] = outbox[u][i]
        \/ u = t /\ i = Len(outbox[t]) + 1 /\ outbox'[u][i].sid = s
    BY <1>3, <1>4
  <2>2. \/ j \in DOMAIN outbox[v] /\ outbox'[v][j] = outbox[v][j]
        \/ v = t /\ j = Len(outbox[t]) + 1 /\ outbox'[v][j].sid = s
    BY <1>3, <1>4
  <2> QED
    BY <2>1, <2>2, <1>5 DEF MintInv, CreatedOnce
<1>8. \A u \in Term : \A i \in DOMAIN outbox'[u] :
        /\ outbox'[u][i].sid \in minted'
        /\ outbox'[u][i].type = "create" => ws[outbox'[u][i].sid] = "none"
  BY <1>1, <1>3, <1>4, <1>5 DEF MintInv
<1> QED
  BY <1>1, <1>6, <1>7, <1>8 DEF MintInv

LEMMA MintedByAsk ==
  ASSUME TypeInv, MintInv, NEW t \in Term, NEW s \in Sid, s \in minted,
         NEW type \in {"attach", "input", "resize", "detach"}, PostToWorker(t, Ask(type, s)),
         UNCHANGED <<minted, sessions, ws>>,
         \A u \in Term : active'[u] \in {active[u], None, s}
  PROVE  MintInv'
<1>1. Ask(type, s) \in Inbound /\ Ask(type, s).sid = s /\ Ask(type, s).type = type
  BY DEF Ask, Inbound
<1>2. /\ DOMAIN outbox[t] = 1..Len(outbox[t]) /\ Len(outbox[t]) \in Nat
      /\ DOMAIN outbox'[t] = 1..(Len(outbox[t]) + 1)
      /\ outbox'[t][Len(outbox[t]) + 1] = Ask(type, s)
      /\ \A i \in DOMAIN outbox[t] : outbox'[t][i] = outbox[t][i]
      /\ \A u \in Term \ {t} : outbox'[u] = outbox[u]
  BY <1>1, OutboxGrows
<1> HIDE DEF Ask
<1>3. CreatedOnce'
  BY <1>1, <1>2, SMTT(30) DEF MintInv, CreatedOnce
<1>4. \A u \in Term : \A i \in DOMAIN outbox'[u] :
        /\ outbox'[u][i].sid \in minted
        /\ outbox'[u][i].type = "create" => ws[outbox'[u][i].sid] = "none"
  BY <1>1, <1>2 DEF MintInv
<1> QED
  BY <1>3, <1>4 DEF MintInv

LEMMA MintUser ==
  ASSUME TypeInv, MintInv, NEW t \in Term, UserStep(t)
  PROVE  MintInv'
<1>1. UNCHANGED <<sessions, ws>>
  BY DEF UserStep, workerVars
<1>2. CASE Open(t) \/ Connect(t)
  BY <1>1, <1>2, MintedByStart DEF Open, Connect
<1>3. \A u \in Term : active[u] \in Sid => active[u] \in minted
  BY NoneIsNoSession DEF MintInv
<1>4. CASE Disconnect(t)
  <2>1. active[t] \in Sid
    BY <1>4 DEF Disconnect, TypeInv, Handles
  <2>2. \A u \in Term : active'[u] \in {active[u], None, active[t]}
    BY <1>4 DEF Disconnect, TypeInv, TypeOK, TerminalOK
  <2> QED
    BY <1>1, <1>3, <1>4, <2>1, <2>2, MintedByAsk DEF Disconnect
<1>5. ASSUME NEW p \in Popup, PopOut(t, p)
      PROVE  MintInv'
  <2>1. p \in Term /\ active[t] \in Sid
    BY <1>5 DEF PopOut, TypeInv, Handles, Term
  <2>2. \A u \in Term : active'[u] \in {active[u], None, active[t]}
    BY <1>5 DEF PopOut, TypeInv, TypeOK, TerminalOK
  <2> QED
    BY <1>1, <1>3, <1>5, <2>1, <2>2, MintedByAsk DEF PopOut
<1>6. ASSUME NEW type \in {"input", "resize"}, Key(t, type)
      PROVE  MintInv'
  <2>1. active[t] \in Sid /\ UNCHANGED <<minted, active>>
    BY <1>6 DEF Key, TypeInv, Handles, termVars
  <2> QED
    BY <1>1, <1>3, <1>6, <2>1, MintedByAsk DEF Key
<1>7. CASE Retry(t) \/ Leave(t)
  BY <1>1, <1>7 DEF Retry, Leave, portVars, MintInv, CreatedOnce
<1> QED
  BY <1>2, <1>4, <1>5, <1>6, <1>7 DEF UserStep

LEMMA MintTaken ==
  ASSUME TypeInv, MintInv, NEW t \in Term, NEW type, Take(t, type), UNCHANGED <<minted, active>>,
         \A s \in Sid : \/ ws'[s] = ws[s]
                        \/ ws[s] # "none"
                        \/ s = Head(outbox[t]).sid /\ type = "create",
         \A s \in sessions' : ws'[s] # "none"
  PROVE  MintInv'
<1> DEFINE h == Head(outbox[t])
<1>1. /\ 1 \in DOMAIN outbox[t] /\ outbox[t][1] = h /\ h.type = type /\ h.sid \in Sid
      /\ \A i \in DOMAIN outbox'[t] : /\ i \in Nat \ {0} /\ i + 1 \in DOMAIN outbox[t]
                                      /\ outbox'[t][i] = outbox[t][i + 1]
      /\ \A u \in Term \ {t} : outbox'[u] = outbox[u]
  BY OutboxTaken
<1> HIDE DEF h
<1>2. \A s \in Sid : ws'[s] # ws[s] => s \in minted
  BY <1>1 DEF MintInv, h
<1>3. \A u \in Term : \A i \in DOMAIN outbox'[u] :
        /\ outbox'[u][i].sid \in minted
        /\ outbox'[u][i].type = "create" => ws'[outbox'[u][i].sid] = "none"
  <2> SUFFICES ASSUME NEW u \in Term, NEW i \in DOMAIN outbox'[u]
               PROVE  /\ outbox'[u][i].sid \in minted
                      /\ outbox'[u][i].type = "create" => ws'[outbox'[u][i].sid] = "none"
    OBVIOUS
  <2>1. PICK j \in DOMAIN outbox[u] : outbox'[u][i] = outbox[u][j] /\ ~(u = t /\ j = 1)
    BY <1>1
  <2>2. outbox[u][j].sid \in minted /\ outbox[u][j].sid \in Sid
    BY DEF MintInv, TypeInv, TypeOK, TerminalOK
  <2>3. outbox[u][j].type = "create" /\ type = "create" => outbox[u][j].sid # h.sid
    BY <1>1, <2>1 DEF MintInv, CreatedOnce
  <2> QED
    BY <2>1, <2>2, <2>3 DEF MintInv, h
<1>4. CreatedOnce'
  <2> SUFFICES ASSUME NEW u \in Term, NEW v \in Term,
                      NEW i \in DOMAIN outbox'[u], NEW j \in DOMAIN outbox'[v],
                      outbox'[u][i].type = "create", outbox'[v][j].type = "create",
                      outbox'[u][i].sid = outbox'[v][j].sid
               PROVE  u = v /\ i = j
    BY DEF CreatedOnce
  <2>1. \/ u # t /\ i \in DOMAIN outbox[u] /\ outbox'[u][i] = outbox[u][i]
        \/ u = t /\ i \in Nat /\ i + 1 \in DOMAIN outbox[u] /\ outbox'[u][i] = outbox[u][i + 1]
    BY <1>1
  <2>2. \/ v # t /\ j \in DOMAIN outbox[v] /\ outbox'[v][j] = outbox[v][j]
        \/ v = t /\ j \in Nat /\ j + 1 \in DOMAIN outbox[v] /\ outbox'[v][j] = outbox[v][j + 1]
    BY <1>1
  <2> QED
    BY <2>1, <2>2 DEF MintInv, CreatedOnce
<1> QED
  BY <1>2, <1>3, <1>4 DEF MintInv

LEMMA MintPort ==
  ASSUME TypeInv, MintInv, NEW t \in Term, PortStep(t)
  PROVE  MintInv'
<1>1. UNCHANGED <<minted, active>>
  BY DEF PortStep, termVars
<1> DEFINE h == Head(outbox[t])
<1>2. CASE CreateSession(t)
  <2>1. Take(t, "create") /\ h.sid \in Sid
    BY <1>2, TakenIsTyped DEF CreateSession
  <2>2. \A s \in Sid : ws'[s] = ws[s] \/ s = h.sid
    BY <1>2 DEF CreateSession, SetWs, TypeInv, TypeOK, WorkerOK
  <2>3. \A s \in sessions' : ws'[s] # "none"
    <3>1. CASE h.sid \in sessions
      BY <1>2, <3>1 DEF CreateSession, MintInv
    <3>2. CASE h.sid \notin sessions
      <4>1. ws' = [ws EXCEPT ![h.sid] = "connecting"] /\ sessions' = sessions \cup {h.sid}
        BY <1>2, <3>2 DEF CreateSession, SetWs
      <4> HIDE DEF h
      <4> QED
        BY <2>1, <4>1 DEF TypeInv, TypeOK, WorkerOK, MintInv
    <3> QED
      BY <3>1, <3>2
  <2> QED
    BY <1>1, <2>1, <2>2, <2>3, MintTaken
<1>3. CASE AttachToSession(t)
  BY <1>1, <1>3, MintTaken DEF AttachToSession, MintInv
<1>4. CASE ForwardInput(t)
  BY <1>1, <1>4, MintTaken DEF ForwardInput, workerVars, MintInv
<1>5. CASE DetachPort(t)
  <2>1. Take(t, "detach") /\ h.sid \in Sid
    BY <1>5, TakenIsTyped DEF DetachPort
  <2>2. /\ \A s \in Sid : ws'[s] = ws[s] \/ ws'[s] = "closing"
        /\ sessions' \subseteq sessions
    <3>1. CASE h.sid \notin sessions
      BY <1>5, <3>1 DEF DetachPort
    <3>2. CASE h.sid \in sessions
      <4>1. \/ UNCHANGED <<sessions, ws>>
            \/ ws' = [ws EXCEPT ![h.sid] = "closing"] /\ sessions' = sessions \ {h.sid}
        BY <1>5, <3>2 DEF DetachPort, SetWs
      <4> QED
        BY <2>1, <4>1 DEF TypeInv, TypeOK, WorkerOK
    <3> QED
      BY <3>1, <3>2
  <2>3. \A s \in sessions' : ws'[s] # "none"
    BY <2>2 DEF TypeInv, TypeOK, WorkerOK, MintInv
  <2>4. \A s \in Sid : ws'[s] = ws[s] \/ ws[s] # "none"
    <3>1. h.sid \in sessions \/ UNCHANGED ws
      BY <1>5 DEF DetachPort
    <3>2. \A s \in Sid : ws'[s] = ws[s] \/ s = h.sid
      BY <1>5, <2>1 DEF DetachPort, SetWs, TypeInv, TypeOK, WorkerOK
    <3> QED
      BY <3>1, <3>2 DEF MintInv
  <2> QED
    BY <1>1, <2>1, <2>3, <2>4, MintTaken
<1> QED
  BY <1>2, <1>3, <1>4, <1>5 DEF PortStep

LEMMA MintSocket ==
  ASSUME TypeInv, MintInv, NEW s \in Sid, SocketStep(s) \/ GatewayStep(s)
  PROVE  MintInv'
<1>1. UNCHANGED <<outbox, active, minted>>
  BY DEF SocketStep, GatewayStep, termVars, portVars, WsOpen, WsFailed, WsMessage, WsClosing, WsLost, WsGone,
         GatewayTakesInit, GatewaySends
<1>2. /\ \A r \in Sid : ws'[r] = ws[r] \/ (ws[r] # "none" /\ ws'[r] # "none")
      /\ sessions' \subseteq sessions
  <2>1. CASE WsOpen(s) \/ WsClosing(s)
    BY <2>1 DEF WsOpen, WsClosing, SetWs, TypeInv, TypeOK, WorkerOK
  <2>2. CASE WsMessage(s)
    BY <2>2 DEF WsMessage, OnServerOutput, OnServerNews, OnServerClosed
  <2>3. ASSUME NEW errors, Closing(s, errors), ws[s] # "none"
        PROVE  /\ \A r \in Sid : ws'[r] = ws[r] \/ (ws[r] # "none" /\ ws'[r] # "none")
               /\ sessions' \subseteq sessions
    BY <2>3 DEF Closing, SetWs, TypeInv, TypeOK, WorkerOK
  <2>4. CASE WsFailed(s) \/ WsLost(s) \/ WsGone(s)
    BY <2>3, <2>4 DEF WsFailed, WsLost, WsGone
  <2>5. CASE GatewayStep(s)
    BY <2>5 DEF GatewayStep, GatewayTakesInit, GatewaySends
  <2> QED
    BY <2>1, <2>2, <2>4, <2>5 DEF SocketStep
<1>3. \A t \in Term : \A i \in DOMAIN outbox[t] : outbox[t][i].sid \in Sid
  BY DEF MintInv, TypeInv, TypeOK, TerminalOK
<1> QED
  BY <1>1, <1>2, <1>3 DEF MintInv, CreatedOnce, TypeInv, TypeOK, WorkerOK

LEMMA MintStep ==
  ASSUME TypeInv, MintInv, [Next]_vars
  PROVE  MintInv'
<1>1. ASSUME NEW t \in Term, ElementStep(t)
      PROVE  MintInv'
  BY <1>1 DEF ElementStep, OnWorkerMessage, workerVars, MintInv, CreatedOnce
<1>2. CASE UNCHANGED vars
  BY <1>2 DEF vars, portVars, termVars, workerVars, MintInv, CreatedOnce
<1> QED
  BY <1>1, <1>2, MintUser, MintPort, MintSocket DEF Next

-----------------------------------------------------------------------------
(* What the gateway has said on a socket, and what the worker makes of it. *)
Ends == {"error", "closed"}

Talk(s) ==
  /\ \A i \in 1..Len(sent[s]) :
       /\ sent[s][i].type \in Ends => i = Len(sent[s]) /\ dialog[s] = "over"
       /\ sent[s][i].type = "needs-credentials" =>
            Len(sent[s]) = 1 /\ dialog[s] \in {"refused", "over"}
       /\ sent[s][i].type = "ready" => i = 1
       /\ sent[s][i].type \in {"output", "closed"} => i > 1
       /\ i > 1 => sent[s][1].type = "ready"
  /\ dialog[s] \in {"idle", "connected", "asked"} => sent[s] = <<>>
  /\ dialog[s] = "ready" => sent[s] # <<>> /\ sent[s][1].type = "ready"

Socket(s) ==
  /\ got[s] <= Len(sent[s])
  /\ ws[s] = "none" => s \notin sessions /\ ports[s] = {} /\ buffer[s] = <<>>
  /\ ws[s] \in {"none", "connecting"} => got[s] = 0 /\ dialog[s] = "idle"
  /\ ws[s] = "connecting" => s \in sessions
  /\ s \in sessions => ports[s] # {} /\ (ws[s] \in {"connecting", "open"} \/ Ending(s))
  /\ s \notin sessions /\ ws[s] = "open" => dialog[s] = "over" /\ got[s] = Len(sent[s])

SocketsInv == \A s \in Sid : Talk(s) /\ Socket(s)

SentOK == sent \in [Sid -> Seq(Peer!ServerMsg)] /\ dialog \in [Sid -> Peer!Dialogs]

LEMMA SentIsTyped ==
  ASSUME TypeInv
  PROVE  SentOK
  BY DEF TypeInv, TypeOK, WorkerOK, Peer!TypeOK, SentOK

LEMMA Emits ==
  ASSUME SentOK, NEW s \in Sid, Talk(s), NEW m \in Peer!ServerMsg, Peer!Emit(s, m)
  PROVE  /\ Talk(s)'
         /\ Len(sent'[s]) = Len(sent[s]) + 1
         /\ \A i \in 1..Len(sent[s]) : sent'[s][i] = sent[s][i]
         /\ sent'[s][Len(sent[s]) + 1] = m
         /\ dialog[s] \in {"asked", "ready"}
         /\ \A r \in Sid \ {s} : sent'[r] = sent[r] /\ dialog'[r] = dialog[r]
<1>1. PICK after \in Peer!Dialogs :
        /\ <<dialog[s], m.type, after>> \in Peer!Turns
        /\ dialog' = [dialog EXCEPT ![s] = after]
        /\ sent' = [sent EXCEPT ![s] = Append(@, m)]
  BY DEF Peer!Emit
<1>2. /\ dialog'[s] = after
      /\ \A r \in Sid \ {s} : sent'[r] = sent[r] /\ dialog'[r] = dialog[r]
  BY <1>1 DEF SentOK
<1>3. /\ sent[s] \in Seq(Peer!ServerMsg)
      /\ sent'[s] = Append(sent[s], m)
  BY <1>1 DEF SentOK
<1>4. /\ Len(sent[s]) \in Nat
      /\ Len(sent'[s]) = Len(sent[s]) + 1
      /\ \A i \in 1..Len(sent[s]) : sent'[s][i] = sent[s][i]
      /\ sent'[s][Len(sent[s]) + 1] = m
      /\ sent'[s] # <<>>
      /\ sent[s] = <<>> <=> Len(sent[s]) = 0
  BY <1>3
<1>5. \/ dialog[s] = "asked" /\ m.type = "ready" /\ after = "ready"
      \/ dialog[s] = "asked" /\ m.type = "needs-credentials" /\ after = "refused"
      \/ dialog[s] = "asked" /\ m.type = "error" /\ after = "over"
      \/ dialog[s] = "ready" /\ m.type = "output" /\ after = "ready"
      \/ dialog[s] = "ready" /\ m.type \in {"error", "closed"} /\ after = "over"
  BY <1>1 DEF Peer!Turns
<1>6. Talk(s)'
  <2>1. CASE dialog[s] = "asked"
    BY <1>2, <1>4, <1>5, <2>1 DEF Talk, Ends
  <2>2. CASE dialog[s] = "ready"
    <3>1. Len(sent[s]) > 0 /\ sent[s][1].type = "ready" /\ sent'[s][1] = sent[s][1]
      BY <1>4, <2>2 DEF Talk
    <3>2. \A i \in 1..Len(sent[s]) : sent'[s][i] = sent[s][i] /\ sent[s][i].type \notin Ends
                                     /\ sent[s][i].type # "needs-credentials"
      BY <1>4, <2>2 DEF Talk
    <3> QED
      BY <1>2, <1>4, <1>5, <2>2, <3>1, <3>2 DEF Talk, Ends
  <2> QED
    BY <1>5, <2>1, <2>2
<1> QED
  BY <1>2, <1>4, <1>5, <1>6

LEMMA Turns ==
  ASSUME SentOK, NEW s \in Sid, Talk(s),
         Peer!Accept(s) \/ Peer!Reject(s) \/ Peer!HangUp(s) \/ Peer!Ask(s)
  PROVE  /\ Talk(s)' /\ sent' = sent
         /\ \A r \in Sid \ {s} : dialog'[r] = dialog[r]
         /\ dialog[s] # "over" /\ dialog'[s] # "idle"
         /\ dialog[s] = "idle" <=> Peer!Accept(s) \/ Peer!Reject(s)
         /\ Peer!HangUp(s) => dialog'[s] = "over"
<1>1. sent' = sent /\ \A r \in Sid \ {s} : dialog'[r] = dialog[r]
  BY DEF Peer!Accept, Peer!Reject, Peer!HangUp, Peer!Ask, SentOK
<1>2. /\ Peer!Accept(s) => dialog[s] = "idle" /\ dialog'[s] = "connected"
      /\ Peer!Reject(s) => dialog[s] = "idle" /\ dialog'[s] = "over"
      /\ Peer!HangUp(s) => dialog[s] \notin {"idle", "over"} /\ dialog'[s] = "over"
      /\ Peer!Ask(s) => dialog[s] = "connected" /\ dialog'[s] = "asked"
  BY DEF Peer!Accept, Peer!Reject, Peer!HangUp, Peer!Ask, SentOK
<1>3. Talk(s)'
  BY <1>1, <1>2 DEF Talk
<1> QED
  BY <1>1, <1>2, <1>3

LEMMA TalkKept ==
  ASSUME NEW s \in Sid, Talk(s), sent'[s] = sent[s], dialog'[s] = dialog[s]
  PROVE  Talk(s)'
  BY DEF Talk

LEMMA SocketKept ==
  ASSUME NEW s \in Sid, Socket(s), sent'[s] = sent[s], dialog'[s] = dialog[s],
         got'[s] = got[s], ws'[s] = ws[s], ports'[s] = ports[s], buffer'[s] = buffer[s],
         s \in sessions' <=> s \in sessions
  PROVE  Socket(s)'
  BY DEF Socket, Ending

LEMMA Quiet ==
  ASSUME SocketsInv, UNCHANGED workerVars
  PROVE  SocketsInv'
  BY TalkKept, SocketKept DEF SocketsInv, workerVars

LEMMA SocketsPort ==
  ASSUME TypeInv, MintInv, SocketsInv, NEW t \in Term, PortStep(t)
  PROVE  SocketsInv'
<1> DEFINE h == Head(outbox[t])
<1> USE DEF SocketsInv
<1>1. ASSUME NEW s \in Sid, AttachTo(t, s), UNCHANGED <<sessions, named, ws, buffer, chars, got, dialog, sent>>
      PROVE  SocketsInv'
  <2>1. CASE s \notin sessions
    <3>1. ports' = ports
      BY <1>1, <2>1 DEF AttachTo
    <3> QED
      BY <1>1, <3>1, TalkKept, SocketKept
  <2>2. CASE s \in sessions
    <3>1. ports' = [ports EXCEPT ![s] = @ \cup {t}]
      BY <1>1, <2>2 DEF AttachTo
    <3>2. ports'[s] # {} /\ \A r \in Sid \ {s} : ports'[r] = ports[r]
      BY <3>1 DEF TypeInv, TypeOK, WorkerOK
    <3>3. \A r \in Sid : Talk(r)'
      BY <1>1, TalkKept
    <3>4. Socket(s)'
      BY <1>1, <2>2, <3>2 DEF Socket, Ending, MintInv
    <3> QED
      BY <1>1, <3>2, <3>3, <3>4, SocketKept
  <2> QED
    BY <2>1, <2>2
<1>2. CASE CreateSession(t)
  <2>1. PICK s \in Sid : s = h.sid
    BY <1>2, TakenIsTyped DEF CreateSession
  <2>2. 1 \in DOMAIN outbox[t] /\ outbox[t][1] = h /\ h.type = "create"
    BY <1>2, OutboxTaken DEF CreateSession
  <2>3. ws[s] = "none" /\ s \notin sessions
    BY <2>1, <2>2 DEF MintInv
  <2>4. /\ sessions' = sessions \cup {s}
        /\ ports' = [ports EXCEPT ![s] = {t}]
        /\ ws' = [ws EXCEPT ![s] = "connecting"]
        /\ UNCHANGED <<buffer, chars, got, dialog, sent>>
    BY <1>2, <2>1, <2>3 DEF CreateSession, SetWs
  <2>5. \A r \in Sid : Talk(r)'
    BY <2>4, TalkKept
  <2>6. /\ ports'[s] = {t} /\ ws'[s] = "connecting"
        /\ \A r \in Sid \ {s} : ports'[r] = ports[r] /\ ws'[r] = ws[r] /\ (r \in sessions' <=> r \in sessions)
    BY <2>4 DEF TypeInv, TypeOK, WorkerOK
  <2>7. Socket(s)'
    BY <2>3, <2>4, <2>6 DEF Socket
  <2> QED
    BY <2>4, <2>5, <2>6, <2>7, SocketKept
<1>3. CASE AttachToSession(t)
  <2>1. h.sid \in Sid
    BY <1>3, TakenIsTyped DEF AttachToSession
  <2> QED
    BY <1>1, <1>3, <2>1 DEF AttachToSession
<1>4. CASE ForwardInput(t)
  BY <1>4, Quiet DEF ForwardInput
<1>5. CASE DetachPort(t)
  <2>1. PICK s \in Sid : s = h.sid
    BY <1>5, TakenIsTyped DEF DetachPort
  <2> DEFINE left == ports[s] \ {t}
  <2>2. UNCHANGED <<buffer, chars, got, dialog, sent>>
    BY <1>5 DEF DetachPort
  <2>3. \A r \in Sid : Talk(r)'
    BY <2>2, TalkKept
  <2>4. CASE s \notin sessions
    <3>1. UNCHANGED <<sessions, ports, ws>>
      BY <1>5, <2>1, <2>4 DEF DetachPort
    <3> QED
      BY <2>2, <2>3, <3>1, SocketKept
  <2>5. CASE s \in sessions
    <3>1. /\ ports' = [ports EXCEPT ![s] = left]
          /\ IF left # {} THEN UNCHANGED <<sessions, ws>>
             ELSE ws' = [ws EXCEPT ![s] = "closing"] /\ sessions' = sessions \ {s}
      BY <1>5, <2>1, <2>5 DEF DetachPort, SetWs
    <3>2. /\ ports'[s] = left
          /\ \A r \in Sid \ {s} : ports'[r] = ports[r] /\ ws'[r] = ws[r] /\ (r \in sessions' <=> r \in sessions)
          /\ IF left # {} THEN UNCHANGED <<sessions, ws>>
             ELSE ws'[s] = "closing" /\ s \notin sessions'
      BY <3>1 DEF TypeInv, TypeOK, WorkerOK
    <3>3. Socket(s)'
      BY <2>2, <2>5, <3>2 DEF Socket, Ending
    <3> QED
      BY <2>2, <2>3, <3>2, <3>3, SocketKept
  <2> QED
    BY <2>4, <2>5
<1> QED
  BY <1>2, <1>3, <1>4, <1>5 DEF PortStep

(* A message the worker is handed: its place, and that nothing follows an  *)
(* end.                                                                    *)
LEMMA Arriving ==
  ASSUME TypeInv, SocketsInv, NEW s \in Sid, WsMessage(s)
  PROVE  /\ got[s] \in Nat /\ got[s] + 1 \in 1..Len(sent[s])
         /\ got'[s] = got[s] + 1
         /\ \A r \in Sid \ {s} : got'[r] = got[r]
         /\ sent[s][got[s] + 1] \in Peer!ServerMsg
         /\ s \in sessions /\ ws[s] = "open" /\ UNCHANGED <<ws, dialog, sent, ports>>
         /\ \A i \in 1..got[s] : sent[s][i].type \notin Ends \cup {"needs-credentials"}
         /\ sent[s][got[s] + 1].type \in Ends => dialog[s] = "over" /\ got[s] + 1 = Len(sent[s])
<1>1. got[s] \in Nat /\ sent[s] \in Seq(Peer!ServerMsg) /\ Len(sent[s]) \in Nat
  BY DEF TypeInv, TypeOK, WorkerOK, Peer!TypeOK
<1>2. got[s] < Len(sent[s]) /\ ws[s] = "open" /\ UNCHANGED <<ws, dialog, sent, ports>>
  BY DEF WsMessage
<1>3. got'[s] = got[s] + 1 /\ \A r \in Sid \ {s} : got'[r] = got[r]
  BY DEF WsMessage, TypeInv, TypeOK, WorkerOK
<1>4. Talk(s) /\ Socket(s)
  BY DEF SocketsInv
<1>5. s \in sessions
  BY <1>1, <1>2, <1>4 DEF Socket
<1>6. \A i \in 1..got[s] : sent[s][i].type \notin Ends \cup {"needs-credentials"}
  BY <1>1, <1>2, <1>4 DEF Talk
<1> QED
  BY <1>1, <1>2, <1>3, <1>4, <1>5, <1>6 DEF Talk

LEMMA SocketsMessage ==
  ASSUME TypeInv, SocketsInv, NEW s \in Sid, WsMessage(s)
  PROVE  SocketsInv'
<1> USE DEF SocketsInv
<1> DEFINE m == sent[s][got[s] + 1]
<1>1. /\ got[s] \in Nat /\ got[s] + 1 \in 1..Len(sent[s])
      /\ got'[s] = got[s] + 1
      /\ \A r \in Sid \ {s} : got'[r] = got[r]
      /\ s \in sessions /\ ws[s] = "open" /\ UNCHANGED <<ws, dialog, sent, ports>>
      /\ m.type \in Ends => dialog[s] = "over" /\ got[s] + 1 = Len(sent[s])
  BY Arriving
<1>2. \A r \in Sid : Talk(r)'
  BY <1>1, TalkKept
<1>3. /\ sessions' = IF m.type = "closed" THEN sessions \ {s} ELSE sessions
      /\ \A r \in Sid \ {s} : buffer'[r] = buffer[r]
  <2>1. CASE OnServerOutput(s, m)
    BY <2>1 DEF OnServerOutput, AppendBuffer, TypeInv, TypeOK, WorkerOK
  <2>2. CASE OnServerNews(s, m) \/ OnServerClosed(s, m)
    BY <2>2 DEF OnServerNews, OnServerClosed
  <2> QED
    BY <2>1, <2>2 DEF WsMessage
<1>4. Socket(s)'
  BY <1>1, <1>3 DEF Socket, Ends
<1> QED
  BY <1>1, <1>2, <1>3, <1>4, SocketKept

LEMMA SocketsClosing ==
  ASSUME TypeInv, SocketsInv, NEW s \in Sid, NEW errors, Closing(s, errors), ws[s] # "none",
         UNCHANGED <<ports, buffer, chars, got>>,
         \/ UNCHANGED <<dialog, sent>>
         \/ Peer!HangUp(s)
  PROVE  SocketsInv'
<1>1. /\ ws'[s] = "closed" /\ \A r \in Sid \ {s} : ws'[r] = ws[r]
      /\ sessions' = sessions \ {s}
  BY DEF Closing, SetWs, TypeInv, TypeOK, WorkerOK
<1>2. SentOK /\ Talk(s) /\ Socket(s)
  BY SentIsTyped DEF SocketsInv
<1>3. /\ Talk(s)' /\ sent' = sent
      /\ \A r \in Sid \ {s} : dialog'[r] = dialog[r]
  BY <1>2, TalkKept, Turns
<1>4. \A r \in Sid : Talk(r)'
  BY <1>3, TalkKept DEF SocketsInv
<1>5. Socket(s)'
  BY <1>1, <1>2, <1>3 DEF Socket
<1> QED
  BY <1>1, <1>3, <1>4, <1>5, SocketKept DEF SocketsInv

LEMMA SocketsSocket ==
  ASSUME TypeInv, SocketsInv, NEW s \in Sid, SocketStep(s)
  PROVE  SocketsInv'
<1>1. SentOK /\ Talk(s) /\ Socket(s)
  BY SentIsTyped DEF SocketsInv
<1>2. CASE WsOpen(s)
  <2>1. /\ Talk(s)' /\ sent' = sent
        /\ \A r \in Sid \ {s} : dialog'[r] = dialog[r]
        /\ dialog[s] = "idle" /\ sent[s] = <<>>
    BY <1>1, <1>2, Turns DEF WsOpen, Talk
  <2>2. /\ ws[s] = "connecting" /\ ws'[s] = "open" /\ \A r \in Sid \ {s} : ws'[r] = ws[r]
        /\ UNCHANGED <<sessions, ports, buffer, chars, got>>
    BY <1>2 DEF WsOpen, SetWs, TypeInv, TypeOK, WorkerOK
  <2>3. \A r \in Sid : Talk(r)'
    BY <2>1, TalkKept DEF SocketsInv
  <2>4. Socket(s)'
    BY <1>1, <2>1, <2>2 DEF Socket
  <2> QED
    BY <2>1, <2>2, <2>3, <2>4, SocketKept DEF SocketsInv
<1>3. CASE WsFailed(s) \/ WsLost(s) \/ WsGone(s)
  BY <1>3, SocketsClosing DEF WsFailed, WsLost, WsGone
<1>4. CASE WsClosing(s)
  <2>1. /\ ws'[s] = "closing" /\ \A r \in Sid \ {s} : ws'[r] = ws[r]
        /\ dialog[s] = "over" /\ got[s] = Len(sent[s])
        /\ UNCHANGED <<sessions, ports, buffer, chars, got, dialog, sent>>
    BY <1>4 DEF WsClosing, SetWs, TypeInv, TypeOK, WorkerOK
  <2>2. Socket(s)'
    BY <1>1, <2>1 DEF Socket, Ending
  <2> QED
    BY <2>1, <2>2, TalkKept, SocketKept DEF SocketsInv
<1> QED
  BY <1>2, <1>3, <1>4, SocketsMessage DEF SocketStep

LEMMA SocketsGateway ==
  ASSUME TypeInv, SocketsInv, NEW s \in Sid, GatewayStep(s)
  PROVE  SocketsInv'
<1>1. SentOK /\ Talk(s) /\ Socket(s) /\ got[s] \in Nat /\ Len(sent[s]) \in Nat
  BY SentIsTyped DEF SocketsInv, TypeInv, TypeOK, WorkerOK, SentOK
<1>2. UNCHANGED <<sessions, ports, buffer, chars, got, ws>> /\ ws[s] \in {"open", "closing"}
  BY DEF GatewayStep, GatewayTakesInit, GatewaySends, Reachable
<1>3. CASE GatewayTakesInit(s)
  <2>1. /\ Talk(s)' /\ sent' = sent
        /\ \A r \in Sid \ {s} : dialog'[r] = dialog[r]
        /\ dialog[s] # "over"
    BY <1>1, <1>3, Turns DEF GatewayTakesInit
  <2>2. Socket(s)'
    BY <1>1, <1>2, <2>1 DEF Socket, Ending
  <2>3. \A r \in Sid : Talk(r)'
    BY <2>1, TalkKept DEF SocketsInv
  <2> QED
    BY <1>2, <2>1, <2>2, <2>3, SocketKept DEF SocketsInv
<1>4. ASSUME NEW m \in Peer!ServerMsg, GatewaySends(s, m)
      PROVE  SocketsInv'
  <2>1. /\ Talk(s)' /\ Len(sent'[s]) = Len(sent[s]) + 1
        /\ dialog[s] \in {"asked", "ready"}
        /\ \A r \in Sid \ {s} : sent'[r] = sent[r] /\ dialog'[r] = dialog[r]
    BY <1>1, <1>4, Emits DEF GatewaySends
  <2>2. Socket(s)'
    BY <1>1, <1>2, <2>1 DEF Socket, Ending
  <2>3. \A r \in Sid : Talk(r)'
    BY <2>1, TalkKept DEF SocketsInv
  <2> QED
    BY <1>2, <2>1, <2>2, <2>3, SocketKept DEF SocketsInv
<1> QED
  BY <1>3, <1>4 DEF GatewayStep

LEMMA SocketsStep ==
  ASSUME TypeInv, MintInv, SocketsInv, [Next]_vars
  PROVE  SocketsInv'
  BY Quiet, SocketsPort, SocketsSocket, SocketsGateway DEF Next, UserStep, ElementStep, vars

SpokenInv == TypeInv /\ MintInv /\ SocketsInv

LEMMA SpokenInit == Init => SpokenInv
<1> SUFFICES ASSUME Init
             PROVE  SpokenInv
  OBVIOUS
<1>1. MintInv
  BY DEF Init, PortsInit, TerminalInit, WorkerInit, MintInv, CreatedOnce
<1>2. SocketsInv
  BY DEF Init, WorkerInit, Peer!Init, SocketsInv, Talk, Socket
<1> QED
  BY <1>1, <1>2, TypesInit DEF SpokenInv

LEMMA SpokenHolds == Spec => []SpokenInv
<1>1. SpokenInv /\ [Next]_vars => SpokenInv'
  BY TypesStep, MintStep, SocketsStep DEF SpokenInv
<1> QED
  BY <1>1, SpokenInit, PTL DEF Spec

(* A session of the map has a viewer and a socket that opens, is open, or  *)
(* is about to report that the gateway has closed it; a socket outside the *)
(* map is one whose conversation is over.                                  *)
THEOREM MapsMatchSockets == Spec => []MapMatchesSockets
<1>1. SpokenInv => MapMatchesSockets
  BY DEF SpokenInv, SocketsInv, Socket, MapMatchesSockets
<1> QED
  BY <1>1, SpokenHolds, PTL

-----------------------------------------------------------------------------
(* What an element knows of its session, what it has posted and what it is *)
(* told agree with how far that session has come.                          *)
Opened(s)  == ws[s] \in {"open", "closing", "closed"}
Started(s) == Opened(s) /\ got[s] > 0 /\ sent[s][1].type = "ready"
Refused(s) == Opened(s) /\ got[s] > 0 /\ sent[s][1].type = "needs-credentials"

(* No session goes back. *)
Advance(s) == /\ ws[s] # "none" => ws'[s] # "none"
              /\ Opened(s) => Opened(s)'
              /\ got'[s] \in Nat /\ got[s] <= got'[s]
              /\ Len(sent[s]) <= Len(sent'[s])
              /\ \A i \in 1..Len(sent[s]) : sent'[s][i] = sent[s][i]
              /\ Started(s) => Started(s)'
              /\ Refused(s) => Refused(s)'

LEMMA AdvanceFrom ==
  ASSUME SpokenInv, NEW s \in Sid,
         ws'[s] = ws[s] \/ ws[s] = "none" \/ ws'[s] \in {"open", "closing", "closed"},
         got'[s] \in {got[s], got[s] + 1},
         sent'[s] = sent[s] \/ (/\ Len(sent'[s]) = Len(sent[s]) + 1
                                /\ \A i \in 1..Len(sent[s]) : sent'[s][i] = sent[s][i])
  PROVE  Advance(s)
<1>1. got[s] \in Nat /\ got[s] <= Len(sent[s]) /\ Len(sent[s]) \in Nat
  BY DEF SpokenInv, SocketsInv, Socket, TypeInv, TypeOK, WorkerOK, Peer!TypeOK
<1>2. ws[s] # "none" => ws'[s] # "none"
  OBVIOUS
<1>3. Opened(s) => Opened(s)'
  BY DEF Opened
<1>4. /\ Len(sent[s]) <= Len(sent'[s])
      /\ \A i \in 1..Len(sent[s]) : sent'[s][i] = sent[s][i]
  BY <1>1
<1>5. got'[s] \in Nat /\ got[s] <= got'[s] /\ (got[s] > 0 => got'[s] > 0 /\ sent'[s][1] = sent[s][1])
  BY <1>1, <1>4
<1> QED
  BY <1>2, <1>3, <1>4, <1>5 DEF Advance, Started, Refused

LEMMA Advances ==
  ASSUME SpokenInv, [Next]_vars
  PROVE  \A s \in Sid : Advance(s)
<1> USE DEF SpokenInv
<1>1. CASE UNCHANGED workerVars
  BY <1>1, AdvanceFrom DEF workerVars
<1>2. ASSUME NEW t \in Term, PortStep(t)
      PROVE  \A s \in Sid : Advance(s)
  <2>1. UNCHANGED <<got, sent>>
    BY <1>2 DEF PortStep, CreateSession, AttachToSession, ForwardInput, DetachPort, workerVars
  <2>2. \A s \in Sid : ws'[s] = ws[s] \/ ws[s] = "none" \/ ws'[s] = "closing"
    <3> DEFINE h == Head(outbox[t])
    <3>1. CASE CreateSession(t)
      <4>1. PICK s \in Sid : s = h.sid
        BY <3>1, TakenIsTyped DEF CreateSession
      <4>2. outbox[t][1] = h /\ h.type = "create" /\ 1 \in DOMAIN outbox[t]
        BY <3>1, OutboxTaken DEF CreateSession
      <4>3. ws[s] = "none"
        BY <4>1, <4>2 DEF MintInv
      <4>4. ws' = ws \/ ws' = [ws EXCEPT ![s] = "connecting"]
        BY <3>1, <4>1 DEF CreateSession, SetWs
      <4> QED
        BY <4>3, <4>4 DEF TypeInv, TypeOK, WorkerOK
    <3>2. CASE DetachPort(t)
      <4>1. ws' = ws \/ ws' = [ws EXCEPT ![h.sid] = "closing"]
        BY <3>2 DEF DetachPort, SetWs
      <4> QED
        BY <4>1 DEF TypeInv, TypeOK, WorkerOK
    <3> QED
      BY <1>2, <3>1, <3>2 DEF PortStep, AttachToSession, ForwardInput, workerVars
  <2> QED
    BY <2>1, <2>2, AdvanceFrom
<1>3. ASSUME NEW s \in Sid, SocketStep(s)
      PROVE  \A r \in Sid : Advance(r)
  <2>1. SentOK /\ Talk(s)
    BY SentIsTyped DEF SocketsInv
  <2>2. sent' = sent
    BY <1>3, <2>1, Turns DEF SocketStep, WsOpen, WsFailed, WsMessage, WsClosing, WsLost, WsGone
  <2>3. \A r \in Sid : got'[r] \in {got[r], got[r] + 1}
    BY <1>3 DEF SocketStep, WsOpen, WsFailed, WsMessage, WsClosing, WsLost, WsGone, TypeInv, TypeOK, WorkerOK
  <2>4. \E state \in {"open", "closing", "closed"} : ws' = ws \/ ws' = [ws EXCEPT ![s] = state]
    BY <1>3 DEF SocketStep, WsOpen, WsFailed, WsMessage, WsClosing, WsLost, WsGone, Closing, SetWs
  <2>5. \A r \in Sid : ws'[r] = ws[r] \/ ws'[r] \in {"open", "closing", "closed"}
    BY <2>4 DEF TypeInv, TypeOK, WorkerOK
  <2> QED
    BY <2>2, <2>3, <2>5, AdvanceFrom
<1>4. ASSUME NEW s \in Sid, GatewayStep(s)
      PROVE  \A r \in Sid : Advance(r)
  <2>1. SentOK /\ Talk(s)
    BY SentIsTyped DEF SocketsInv
  <2>2. UNCHANGED <<got, ws>>
    BY <1>4 DEF GatewayStep, GatewayTakesInit, GatewaySends
  <2>3. CASE GatewayTakesInit(s)
    BY <2>1, <2>2, <2>3, Turns, AdvanceFrom DEF GatewayTakesInit
  <2>4. ASSUME NEW m \in Peer!ServerMsg, Peer!Emit(s, m)
        PROVE  \A r \in Sid : Advance(r)
    BY <2>1, <2>2, <2>4, Emits, AdvanceFrom
  <2> QED
    BY <1>4, <2>3, <2>4 DEF GatewayStep, GatewaySends
<1> QED
  BY <1>1, <1>2, <1>3, <1>4 DEF Next, UserStep, ElementStep, vars

Shape(t) ==
  /\ phase[t] = "connected" <=> xterm[t]
  /\ xterm[t] => active[t] \in Sid /\ Started(active[t])
  /\ xterm[t] => queued[t] = <<>>
  /\ ~xterm[t] => screen[t] = <<>>

Posted(t) == \A i \in 1..Len(outbox[t]) :
               /\ outbox[t][i].type # "create" => Opened(outbox[t][i].sid)
               /\ outbox[t][i].type = "attach" => t \in Popup

Vouched(m) == /\ ws[m.sid] # "none"
              /\ m.type \in {"ready", "output"} => Started(m.sid)
              /\ m.type = "needs-credentials" => Refused(m.sid)

Told(t) == \A i \in 1..Len(inbox[t]) : Vouched(inbox[t][i])

Filled(s) == buffer[s] # <<>> => Started(s)

NamesInv == /\ \A t \in Term : Shape(t) /\ Posted(t) /\ Told(t)
            /\ \A s \in Sid : Filled(s)

(* What holds of an element holds on, as long as nothing happens to it.    *)
LEMMA ShapeKept ==
  ASSUME TypeInv, \A s \in Sid : Advance(s), NEW t \in Term, Shape(t),
         phase'[t] = phase[t], active'[t] = active[t], xterm'[t] = xterm[t],
         screen'[t] = screen[t], queued'[t] = queued[t]
  PROVE  Shape(t)'
  BY DEF Shape, Advance

LEMMA PostedKept ==
  ASSUME TypeInv, \A s \in Sid : Advance(s), NEW t \in Term, Posted(t),
         \A i \in 1..Len(outbox'[t]) : \E j \in 1..Len(outbox[t]) : outbox'[t][i] = outbox[t][j]
  PROVE  Posted(t)'
<1>1. \A j \in 1..Len(outbox[t]) : outbox[t][j].sid \in Sid
  <2>1. \A j \in 1..Len(outbox[t]) : outbox[t][j] \in Inbound
    BY DEF TypeInv, TypeOK, PortsOK
  <2> QED
    BY <2>1 DEF Inbound
<1> QED
  BY <1>1 DEF Posted, Advance

LEMMA VouchedKept ==
  ASSUME \A s \in Sid : Advance(s), NEW m \in Outbound, Vouched(m)
  PROVE  \A n : n = m => Vouched(n)'
<1>1. m.sid \in Sid
  BY DEF Outbound
<1> QED
  BY <1>1 DEF Vouched, Advance

LEMMA ToldKept ==
  ASSUME TypeInv, \A s \in Sid : Advance(s), NEW t \in Term, Told(t),
         \A i \in 1..Len(inbox'[t]) :
           \/ \E j \in 1..Len(inbox[t]) : inbox'[t][i] = inbox[t][j]
           \/ Vouched(inbox[t][i])'
  PROVE  Told(t)'
<1>1. \A j \in 1..Len(inbox[t]) : inbox[t][j] \in Outbound
  BY DEF TypeInv, TypeOK, PortsOK
<1>2. \A j \in 1..Len(inbox[t]) : \A n : n = inbox[t][j] => Vouched(n)'
  BY <1>1, VouchedKept DEF Told
<1> QED
  BY <1>2 DEF Told

LEMMA FilledKept ==
  ASSUME \A s \in Sid : Advance(s), NEW s \in Sid, Filled(s), buffer'[s] = buffer[s]
  PROVE  Filled(s)'
  BY DEF Filled, Advance

LEMMA PostedGrows ==
  ASSUME TypeInv, \A s \in Sid : Advance(s), NEW t \in Term, Posted(t),
         NEW m \in Inbound, PostToWorker(t, m),
         m.type # "create" => Opened(m.sid)',
         m.type = "attach" => t \in Popup
  PROVE  Posted(t)'
<1>1. /\ DOMAIN outbox[t] = 1..Len(outbox[t]) /\ Len(outbox[t]) \in Nat
      /\ DOMAIN outbox'[t] = 1..(Len(outbox[t]) + 1)
      /\ outbox'[t][Len(outbox[t]) + 1] = m
      /\ \A i \in DOMAIN outbox[t] : outbox'[t][i] = outbox[t][i]
  BY OutboxGrows
<1>2. \A j \in 1..Len(outbox[t]) : outbox[t][j].sid \in Sid
  <2>1. \A j \in 1..Len(outbox[t]) : outbox[t][j] \in Inbound
    BY DEF TypeInv, TypeOK, PortsOK
  <2> QED
    BY <2>1 DEF Inbound
<1>3. Len(outbox'[t]) = Len(outbox[t]) + 1
  BY <1>1, Outboxes DEF TypeInv, TypeOK, PortsOK
<1> QED
  BY <1>1, <1>2, <1>3, SMTT(30) DEF Posted, Advance

LEMMA AskIsInbound ==
  ASSUME NEW s \in Sid, NEW type \in {"attach", "input", "resize", "detach"}
  PROVE  \E m \in Inbound : m = Ask(type, s) /\ m.type = type /\ m.sid = s
<1>1. Ask(type, s).type = type /\ Ask(type, s).sid = s
  BY DEF Ask
<1>2. Ask(type, s) \in Inbound
  BY Letters
<1> QED
  BY <1>1, <1>2

LEMMA OtherElements ==
  ASSUME SpokenInv, [Next]_vars, NamesInv, UNCHANGED workerVars, NEW u \in Term,
         phase'[u] = phase[u], active'[u] = active[u], xterm'[u] = xterm[u],
         screen'[u] = screen[u], queued'[u] = queued[u], inbox'[u] = inbox[u], outbox'[u] = outbox[u]
  PROVE  Shape(u)' /\ Posted(u)' /\ Told(u)'
  BY Advances, ShapeKept, PostedKept, ToldKept DEF SpokenInv, NamesInv

LEMMA NamesUser ==
  ASSUME SpokenInv, NamesInv, NEW t \in Term, UserStep(t)
  PROVE  NamesInv'
<1>1. /\ UNCHANGED workerVars /\ TypeInv /\ [Next]_vars
      /\ \A s \in Sid : Advance(s)
      /\ Shape(t) /\ Posted(t) /\ Told(t)
  <2>1. UNCHANGED workerVars /\ TypeInv /\ [Next]_vars
    BY DEF UserStep, SpokenInv, Next
  <2> QED
    BY <2>1, Advances DEF NamesInv
<1>2. \A s \in Sid : Filled(s)'
  BY <1>1, FilledKept DEF NamesInv, workerVars
<1>3. ASSUME NEW v \in Term, Shape(v)', Posted(v)', Told(v)',
             \A u \in Term \ {v} :
               /\ phase'[u] = phase[u] /\ active'[u] = active[u] /\ xterm'[u] = xterm[u]
               /\ screen'[u] = screen[u] /\ queued'[u] = queued[u]
               /\ inbox'[u] = inbox[u] /\ outbox'[u] = outbox[u]
      PROVE  NamesInv'
  BY <1>1, <1>2, <1>3, OtherElements DEF NamesInv
<1> USE DEF TypeInv, TypeOK, PortsOK, TerminalOK
<1>4. CASE Open(t) \/ Connect(t)
  <2>1. PICK s \in Sid \ minted :
          /\ active' = [active EXCEPT ![t] = s]
          /\ phase' = [phase EXCEPT ![t] = "connecting"]
          /\ PostToWorker(t, Create(s, t \in Inline))
    BY <1>1, <1>4, StartsAreTyped DEF Open, Connect
  <2>2. UNCHANGED <<inbox, xterm, screen, queued>> /\ phase[t] = "credentials"
    BY <1>4 DEF Open, Connect
  <2>3. Create(s, t \in Inline) \in Inbound /\ Create(s, t \in Inline).type = "create"
    BY DEF Create, Inbound
  <2>4. Posted(t)' /\ \A u \in Term \ {t} : outbox'[u] = outbox[u]
    BY <1>1, <2>1, <2>3, PostedGrows, Outboxes
  <2>5. Told(t)'
    BY <1>1, <2>2, ToldKept
  <2>6. Shape(t)'
    BY <1>1, <2>1, <2>2 DEF Shape
  <2> QED
    BY <1>3, <2>1, <2>2, <2>4, <2>5, <2>6
<1>5. CASE Disconnect(t)
  <2>1. active[t] \in Sid /\ Opened(active[t])
    BY <1>1, <1>5 DEF Disconnect, Shape, Started
  <2>2. PICK m \in Inbound : /\ m = Ask("detach", active[t])
                             /\ m.type = "detach" /\ m.sid = active[t]
    BY <2>1, AskIsInbound
  <2>3. Opened(m.sid)'
    BY <1>1, <2>1, <2>2 DEF Opened, workerVars
  <2>4. Posted(t)' /\ \A u \in Term \ {t} : outbox'[u] = outbox[u]
    BY <1>1, <1>5, <2>2, <2>3, PostedGrows, Outboxes DEF Disconnect
  <2>5. Told(t)'
    BY <1>1, <1>5, ToldKept DEF Disconnect
  <2>6. Shape(t)'
    BY <1>1, <1>5 DEF Disconnect, Shape, Enter, Cleanup
  <2>7. \A u \in Term \ {t} :
          /\ phase'[u] = phase[u] /\ active'[u] = active[u] /\ xterm'[u] = xterm[u]
          /\ screen'[u] = screen[u] /\ queued'[u] = queued[u] /\ inbox'[u] = inbox[u]
    BY <1>5 DEF Disconnect, Enter, Cleanup
  <2> QED
    BY <1>3, <2>4, <2>5, <2>6, <2>7
<1>6. CASE Retry(t)
  <2>1. Shape(t)'
    BY <1>1, <1>6 DEF Retry, Shape, Enter
  <2>2. Posted(t)' /\ Told(t)'
    BY <1>1, <1>6, PostedKept, ToldKept DEF Retry, portVars
  <2> QED
    BY <1>3, <1>6, <2>1, <2>2 DEF Retry, Enter, portVars
<1>7. ASSUME NEW p \in Popup, PopOut(t, p)
      PROVE  NamesInv'
  <2>1. active[t] \in Sid /\ Opened(active[t]) /\ p \in Term /\ p # t
    BY <1>1, <1>7 DEF PopOut, Shape, Started, Term
  <2>2. PICK m \in Inbound : /\ m = Ask("attach", active[t])
                             /\ m.type = "attach" /\ m.sid = active[t]
    BY <2>1, AskIsInbound
  <2>3. Opened(m.sid)'
    BY <1>1, <2>1, <2>2 DEF Opened, workerVars
  <2>4. Posted(p)' /\ \A u \in Term \ {p} : outbox'[u] = outbox[u]
    BY <1>1, <1>7, <2>1, <2>2, <2>3, PostedGrows, Outboxes DEF PopOut, NamesInv
  <2>5. Told(p)' /\ p \notin alive
    BY <1>1, <1>7, <2>1, ToldKept DEF PopOut, NamesInv
  <2>6. Shape(p)'
    BY <1>1, <1>7, <2>1, <2>5 DEF PopOut, Shape, Enter, Handles
  <2> QED
    BY <1>3, <1>7, <2>1, <2>4, <2>5, <2>6 DEF PopOut, Enter
<1>8. ASSUME NEW type \in {"input", "resize"}, Key(t, type)
      PROVE  NamesInv'
  <2>1. active[t] \in Sid /\ Opened(active[t])
    BY <1>1, <1>8 DEF Key, Shape, Started
  <2>2. PICK m \in Inbound : /\ m = Ask(type, active[t])
                             /\ m.type = type /\ m.sid = active[t]
    BY <2>1, AskIsInbound
  <2>3. Opened(m.sid)'
    BY <1>1, <2>1, <2>2 DEF Opened, workerVars
  <2>4. Posted(t)' /\ \A u \in Term \ {t} : outbox'[u] = outbox[u]
    BY <1>1, <1>8, <2>2, <2>3, PostedGrows, Outboxes DEF Key
  <2>5. Told(t)' /\ Shape(t)'
    BY <1>1, <1>8, ToldKept, ShapeKept DEF Key, termVars
  <2> QED
    BY <1>3, <1>8, <2>4, <2>5 DEF Key, termVars
<1>9. CASE Leave(t)
  <2>1. Shape(t)'
    BY <1>1, <1>9 DEF Leave, Shape, Enter, Cleanup
  <2>2. Told(t)'
    <3>1. inbox'[t] = <<>>
      BY <1>1, <1>9 DEF Leave
    <3>2. \A i \in 1..Len(inbox'[t]) : FALSE
      BY <3>1
    <3> QED
      BY <3>2 DEF Told
  <2>3. Posted(t)'
    BY <1>1, <1>9, PostedKept DEF Leave
  <2>4. \A u \in Term \ {t} :
          /\ phase'[u] = phase[u] /\ active'[u] = active[u] /\ xterm'[u] = xterm[u]
          /\ screen'[u] = screen[u] /\ queued'[u] = queued[u]
          /\ inbox'[u] = inbox[u] /\ outbox'[u] = outbox[u]
    BY <1>9 DEF Leave, Enter, Cleanup
  <2> QED
    BY <1>3, <2>1, <2>2, <2>3, <2>4
<1> QED
  BY <1>4, <1>5, <1>6, <1>7, <1>8, <1>9 DEF UserStep

LEMMA InboxTaken ==
  ASSUME TypeInv, NEW t \in Term, inbox[t] # <<>>, inbox' = [inbox EXCEPT ![t] = Tail(@)]
  PROVE  /\ Head(inbox[t]) = inbox[t][1] /\ inbox[t][1] \in Outbound
         /\ Len(inbox[t]) \in Nat \ {0} /\ Len(inbox'[t]) = Len(inbox[t]) - 1
         /\ \A i \in 1..Len(inbox'[t]) : i + 1 \in 1..Len(inbox[t]) /\ inbox'[t][i] = inbox[t][i + 1]
         /\ \A u \in Term \ {t} : inbox'[u] = inbox[u]
<1>1. inbox[t] \in Seq(Outbound)
  BY DEF TypeInv, TypeOK, PortsOK
<1>2. inbox'[t] = Tail(inbox[t]) /\ \A u \in Term \ {t} : inbox'[u] = inbox[u]
  BY DEF TypeInv, TypeOK, PortsOK
<1>3. Len(inbox[t]) \in Nat \ {0} /\ Head(inbox[t]) = inbox[t][1] /\ inbox[t][1] \in Outbound
  BY <1>1
<1>4. /\ Len(Tail(inbox[t])) = Len(inbox[t]) - 1
      /\ \A i \in 1..Len(Tail(inbox[t])) : Tail(inbox[t])[i] = inbox[t][i + 1]
  BY <1>1, HeadTailProperties
<1>5. Len(inbox'[t]) = Len(inbox[t]) - 1
  BY <1>2, <1>4
<1>6. \A i \in 1..(Len(inbox[t]) - 1) : i + 1 \in 1..Len(inbox[t])
  BY <1>3
<1>7. \A i \in 1..(Len(inbox[t]) - 1) : inbox'[t][i] = inbox[t][i + 1]
  BY <1>2, <1>4
<1> QED
  BY <1>2, <1>3, <1>5, <1>6, <1>7

(* The step of an element, with the message named. *)
LEMMA Handling ==
  ASSUME TypeInv, NEW t \in Term, ElementStep(t)
  PROVE  \E m \in Outbound :
           /\ m = inbox[t][1] /\ 1 \in 1..Len(inbox[t])
           /\ t \in alive
           /\ inbox[t] # <<>> /\ inbox' = [inbox EXCEPT ![t] = Tail(@)]
           /\ UNCHANGED <<alive, outbox, active, minted>> /\ UNCHANGED workerVars
           /\ \/ m.sid # active[t] /\ UNCHANGED <<phase, xterm, screen, queued>>
              \/ m.sid = active[t] /\ OnReady(t, m)
              \/ m.sid = active[t] /\ OnOutput(t, m)
              \/ m.sid = active[t] /\ OnEnd(t, m)
              \/ m.sid = active[t] /\ OnNeedsCredentials(t, m)
<1>1. inbox[t] # <<>> /\ inbox' = [inbox EXCEPT ![t] = Tail(@)]
  BY DEF ElementStep, OnWorkerMessage
<1>2. Head(inbox[t]) = inbox[t][1] /\ inbox[t][1] \in Outbound /\ 1 \in 1..Len(inbox[t])
  <2>1. Len(inbox[t]) \in Nat \ {0}
    BY <1>1, InboxTaken
  <2>2. Head(inbox[t]) = inbox[t][1] /\ inbox[t][1] \in Outbound
    BY <1>1, InboxTaken
  <2> QED
    BY <2>1, <2>2
<1> QED
  BY <1>1, <1>2 DEF ElementStep, OnWorkerMessage

LEMMA NamesElement ==
  ASSUME SpokenInv, NamesInv, NEW t \in Term, ElementStep(t)
  PROVE  NamesInv'
<1>1. /\ UNCHANGED workerVars /\ TypeInv /\ [Next]_vars
      /\ \A s \in Sid : Advance(s)
      /\ Shape(t) /\ Posted(t) /\ Told(t)
  <2>1. UNCHANGED workerVars /\ TypeInv /\ [Next]_vars
    BY DEF ElementStep, SpokenInv, Next
  <2> QED
    BY <2>1, Advances DEF NamesInv
<1>2. \A s \in Sid : Filled(s)'
  BY <1>1, FilledKept DEF NamesInv, workerVars
<1>3. PICK m \in Outbound :
         /\ m = inbox[t][1] /\ 1 \in 1..Len(inbox[t])
         /\ t \in alive
         /\ inbox[t] # <<>> /\ inbox' = [inbox EXCEPT ![t] = Tail(@)]
         /\ UNCHANGED <<alive, outbox, active, minted>> /\ UNCHANGED workerVars
         /\ \/ m.sid # active[t] /\ UNCHANGED <<phase, xterm, screen, queued>>
            \/ m.sid = active[t] /\ OnReady(t, m)
            \/ m.sid = active[t] /\ OnOutput(t, m)
            \/ m.sid = active[t] /\ OnEnd(t, m)
            \/ m.sid = active[t] /\ OnNeedsCredentials(t, m)
  BY <1>1, Handling
<1>4. m.sid \in Sid /\ m.data \in Seq(Chunk) /\ Vouched(m)
  BY <1>1, <1>3 DEF Outbound, Told
<1>5. Told(t)' /\ \A u \in Term \ {t} : inbox'[u] = inbox[u]
  BY <1>1, <1>3, InboxTaken, ToldKept
<1>6. Posted(t)'
  BY <1>1, <1>3, PostedKept
<1>7. \A s \in Sid : Started(s) => Started(s)'
  BY <1>1 DEF Advance
<1>8. active[t] \in Sid => active'[t] = active[t]
  BY <1>3
<1>9. /\ Shape(t)'
      /\ \A u \in Term \ {t} : /\ phase'[u] = phase[u] /\ xterm'[u] = xterm[u]
                               /\ screen'[u] = screen[u] /\ queued'[u] = queued[u]
  <2> USE DEF TypeInv, TypeOK, TerminalOK
  <2>1. CASE UNCHANGED <<phase, xterm, screen, queued>>
    BY <1>1, <1>3, <2>1, ShapeKept
  <2>2. CASE m.sid = active[t] /\ OnReady(t, m)
    <3>1. Started(active[t])' /\ active'[t] = active[t]
      BY <1>3, <1>4, <1>7, <2>2 DEF OnReady, Vouched
    <3> QED
      BY <1>1, <1>3, <1>4, <2>2, <3>1 DEF OnReady, Enter, Shape
  <2>3. CASE m.sid = active[t] /\ OnOutput(t, m)
    <3>1. Started(active[t])' /\ active'[t] = active[t]
      BY <1>3, <1>4, <1>7, <2>3 DEF OnOutput, Vouched
    <3> QED
      BY <1>1, <1>3, <1>4, <2>3, <3>1 DEF OnOutput, Shape
  <2>4. CASE m.sid = active[t] /\ OnEnd(t, m)
    BY <1>1, <1>3, <1>4, <1>7, <2>4 DEF OnEnd, Enter, Cleanup, Shape
  <2>5. CASE m.sid = active[t] /\ OnNeedsCredentials(t, m)
    <3>1. ~Started(active[t])
      BY <1>4, <2>5 DEF OnNeedsCredentials, Vouched, Started, Refused
    <3> QED
      BY <1>1, <1>3, <1>4, <2>5, <3>1 DEF OnNeedsCredentials, Enter, Shape
  <2> QED
    BY <1>3, <2>1, <2>2, <2>3, <2>4, <2>5
<1> QED
  BY <1>1, <1>2, <1>3, <1>5, <1>6, <1>9, OtherElements DEF NamesInv

LEMMA InboxGrows ==
  ASSUME TypeInv, NEW P, NEW ms \in Seq(Outbound), Post(P, ms), NEW u \in Term
  PROVE  /\ u \notin P \cap alive => inbox'[u] = inbox[u]
         /\ Len(inbox[u]) \in Nat
         /\ u \in P \cap alive =>
              /\ inbox'[u] = inbox[u] \o ms
              /\ Len(inbox'[u]) = Len(inbox[u]) + Len(ms)
              /\ \A i \in 1..Len(inbox[u]) : inbox'[u][i] = inbox[u][i]
              /\ \A i \in 1..Len(inbox'[u]) :
                   i \in 1..Len(inbox[u]) \/
                     (i - Len(inbox[u]) \in 1..Len(ms) /\ inbox'[u][i] = ms[i - Len(inbox[u])])
<1>1. inbox[u] \in Seq(Outbound) /\ Len(inbox[u]) \in Nat /\ Len(ms) \in Nat
  BY DEF TypeInv, TypeOK, PortsOK
<1>2. inbox'[u] = IF u \in P \cap alive THEN inbox[u] \o ms ELSE inbox[u]
  BY Inboxes DEF TypeInv, TypeOK, PortsOK
<1>3. /\ Len(inbox[u] \o ms) = Len(inbox[u]) + Len(ms)
      /\ \A i \in 1..(Len(inbox[u]) + Len(ms)) :
           (inbox[u] \o ms)[i] = IF i <= Len(inbox[u]) THEN inbox[u][i] ELSE ms[i - Len(inbox[u])]
  BY <1>1, ConcatProperties
<1>4. CASE u \in P \cap alive
  <2>1. inbox'[u] = inbox[u] \o ms
    BY <1>2, <1>4
  <2>2. Len(inbox'[u]) = Len(inbox[u]) + Len(ms)
    BY <2>1, <1>3
  <2>3. \A i \in 1..Len(inbox[u]) : inbox'[u][i] = inbox[u][i]
    BY <1>1, <1>3, <2>1
  <2>4. \A i \in 1..Len(inbox'[u]) :
          i \in 1..Len(inbox[u]) \/
            (i - Len(inbox[u]) \in 1..Len(ms) /\ inbox'[u][i] = ms[i - Len(inbox[u])])
    BY <1>1, <1>3, <2>1, <2>2
  <2> QED
    BY <1>1, <1>4, <2>1, <2>2, <2>3, <2>4
<1> QED
  BY <1>1, <1>2, <1>4

LEMMA ToldByPost ==
  ASSUME TypeInv, \A s \in Sid : Advance(s), NEW P, NEW ms \in Seq(Outbound), Post(P, ms),
         \A k \in 1..Len(ms) : Vouched(ms[k])',
         NEW u \in Term, Told(u)
  PROVE  Told(u)'
<1>1. CASE u \in P \cap alive
  <2>1. \A i \in 1..Len(inbox'[u]) :
          \/ i \in 1..Len(inbox[u]) /\ inbox'[u][i] = inbox[u][i]
          \/ \E k \in 1..Len(ms) : inbox'[u][i] = ms[k]
    BY <1>1, InboxGrows
  <2>2. \A i \in 1..Len(inbox'[u]) :
          \/ \E j \in 1..Len(inbox[u]) : inbox'[u][i] = inbox[u][j]
          \/ Vouched(inbox[u][i])'
    BY <2>1
  <2> QED
    BY <2>2, ToldKept
<1>2. CASE u \notin P \cap alive
  <2>1. inbox'[u] = inbox[u]
    BY <1>2, InboxGrows
  <2> QED
    BY <2>1, ToldKept
<1> QED
  BY <1>1, <1>2

LEMMA PostedTaken ==
  ASSUME TypeInv, \A s \in Sid : Advance(s), NEW t \in Term, NEW type, Take(t, type),
         NEW u \in Term, Posted(u)
  PROVE  Posted(u)'
<1>1. outbox[u] \in Seq(Inbound) /\ outbox'[u] \in Seq(Inbound)
  BY TakenIsTyped DEF TypeInv, TypeOK, PortsOK
<1>2. /\ \A i \in DOMAIN outbox'[t] : i + 1 \in DOMAIN outbox[t] /\ outbox'[t][i] = outbox[t][i + 1]
      /\ u # t => outbox'[u] = outbox[u]
  BY OutboxTaken
<1>3. \A i \in 1..Len(outbox'[u]) : \E j \in 1..Len(outbox[u]) : outbox'[u][i] = outbox[u][j]
  BY <1>1, <1>2, SMTT(30)
<1> QED
  BY <1>3, PostedKept

LEMMA TellIs ==
  ASSUME NEW s \in Sid, NEW type \in {"ready", "output", "error", "closed", "needs-credentials"}
  PROVE  /\ Tell(type, s) \in Outbound /\ Tell(type, s).type = type
         /\ Tell(type, s).sid = s /\ Tell(type, s).data = <<>>
<1>1. Tell(type, s) \in Outbound
  BY Letters
<1> QED
  BY <1>1 DEF Tell

LEMMA ShowIs ==
  ASSUME NEW s \in Sid, NEW d \in Seq(Chunk)
  PROVE  /\ Show(s, d) \in Outbound /\ Show(s, d).type = "output"
         /\ Show(s, d).sid = s /\ Show(s, d).data = d
<1>1. Show(s, d) \in Outbound
  BY Letters
<1> QED
  BY <1>1 DEF Show

(* What attachToSession does, with the messages named. *)
LEMMA Attaching ==
  ASSUME TypeInv, NEW t \in Term, NEW s \in Sid, AttachTo(t, s)
  PROVE  /\ s \notin sessions => ports' = ports
         /\ s \in sessions => ports' = [ports EXCEPT ![s] = @ \cup {t}]
         /\ s \in sessions /\ buffer[s] = <<>> => inbox' = inbox
         /\ ~(s \in sessions /\ buffer[s] = <<>>) =>
              \E P \in SUBSET Term, ms \in Seq(Outbound) :
                /\ P = {t} /\ Post(P, ms)
                /\ \A k \in 1..Len(ms) : ms[k].sid = s
                /\ s \notin sessions =>
                     Len(ms) = 1 /\ ms[1].type = "error" /\ ms[1].data = <<>>
                /\ s \in sessions =>
                     /\ Len(ms) = 2
                     /\ ms[1].type = "ready" /\ ms[1].data = <<>>
                     /\ ms[2].type = "output" /\ ms[2].data = buffer[s]
<1>1. buffer[s] \in Seq(Chunk)
  BY DEF TypeInv, TypeOK, WorkerOK
<1>2. CASE s \notin sessions
  <2> DEFINE e == Tell("error", s)
  <2>1. e \in Outbound /\ e.type = "error" /\ e.sid = s /\ e.data = <<>>
    BY TellIs
  <2>2. ports' = ports /\ Post({t}, <<e>>)
    BY <1>2 DEF AttachTo
  <2> HIDE DEF e
  <2>3. /\ <<e>> \in Seq(Outbound) /\ Len(<<e>>) = 1 /\ <<e>>[1] = e
        /\ \A k \in 1..Len(<<e>>) : <<e>>[k] = e
    BY <2>1
  <2> QED
    BY <1>2, <2>1, <2>2, <2>3
<1>3. CASE s \in sessions
  <2> DEFINE r == Tell("ready", s)
             o == Show(s, buffer[s])
  <2>1. /\ ports' = [ports EXCEPT ![s] = @ \cup {t}]
        /\ IF buffer[s] = <<>> THEN inbox' = inbox ELSE Post({t}, <<r, o>>)
    BY <1>3 DEF AttachTo
  <2>2. /\ r \in Outbound /\ r.type = "ready" /\ r.sid = s /\ r.data = <<>>
        /\ o \in Outbound /\ o.type = "output" /\ o.sid = s /\ o.data = buffer[s]
    BY <1>1, TellIs, ShowIs
  <2> HIDE DEF r, o
  <2>3. /\ <<r, o>> \in Seq(Outbound) /\ Len(<<r, o>>) = 2 /\ <<r, o>>[1] = r /\ <<r, o>>[2] = o
        /\ \A k \in 1..Len(<<r, o>>) : <<r, o>>[k] \in {r, o}
    BY <2>2
  <2> QED
    BY <1>3, <2>1, <2>2, <2>3
<1> QED
  BY <1>2, <1>3

LEMMA NamesAttach ==
  ASSUME SpokenInv, NamesInv, NEW t \in Term, NEW s \in Sid, AttachTo(t, s), Opened(s),
         \A r \in Sid : Advance(r), NEW u \in Term, UNCHANGED <<ws, got, sent>>
  PROVE  Told(u)'
<1> USE DEF SpokenInv
<1>1. CASE s \in sessions /\ buffer[s] = <<>>
  <2>1. inbox' = inbox
    BY <1>1, Attaching
  <2> QED
    BY <2>1, ToldKept DEF NamesInv
<1>2. CASE ~(s \in sessions /\ buffer[s] = <<>>)
  <2>1. PICK P \in SUBSET Term, ms \in Seq(Outbound) :
          /\ P = {t} /\ Post(P, ms)
          /\ \A k \in 1..Len(ms) : ms[k].sid = s
          /\ s \notin sessions =>
               Len(ms) = 1 /\ ms[1].type = "error" /\ ms[1].data = <<>>
          /\ s \in sessions =>
               /\ Len(ms) = 2
               /\ ms[1].type = "ready" /\ ms[1].data = <<>>
               /\ ms[2].type = "output" /\ ms[2].data = buffer[s]
    BY <1>2, Attaching
  <2>2. s \in sessions => Started(s)
    BY <1>2 DEF NamesInv, Filled
  <2>3. /\ ws'[s] # "none"
        /\ s \in sessions => Started(s)'
    BY <2>2 DEF Started, Opened
  <2>4. \A k \in 1..Len(ms) : Vouched(ms[k])'
    BY <2>1, <2>3 DEF Vouched
  <2> QED
    BY <2>1, <2>4, ToldByPost DEF NamesInv
<1> QED
  BY <1>1, <1>2

LEMMA NamesPort ==
  ASSUME SpokenInv, NamesInv, NEW t \in Term, PortStep(t)
  PROVE  NamesInv'
<1>1. UNCHANGED termVars /\ TypeInv /\ [Next]_vars /\ \A s \in Sid : Advance(s)
  <2>1. UNCHANGED termVars /\ TypeInv /\ [Next]_vars
    BY DEF PortStep, SpokenInv, Next
  <2> QED
    BY <2>1, Advances
<1>2. \A u \in Term : Shape(u)'
  BY <1>1, ShapeKept DEF NamesInv, termVars
<1>3. UNCHANGED <<buffer, got, sent, alive>>
  BY DEF PortStep, CreateSession, AttachToSession, ForwardInput, DetachPort, workerVars, Take
<1>4. \A s \in Sid : Filled(s)'
  BY <1>1, <1>3, FilledKept DEF NamesInv
<1>5. \A u \in Term : Posted(u)'
  BY <1>1, PostedTaken DEF PortStep, CreateSession, AttachToSession, ForwardInput, DetachPort, NamesInv
<1> DEFINE h == Head(outbox[t])
<1>6. \A u \in Term : Told(u)'
  <2>1. CASE inbox' = inbox
    BY <1>1, <2>1, ToldKept DEF NamesInv
  <2>2. CASE CreateSession(t)
    <3>1. 1 \in DOMAIN outbox[t] /\ outbox[t][1] = h /\ h.type = "create" /\ h.sid \in Sid
      BY <1>1, <2>2, OutboxTaken DEF CreateSession
    <3>2. h.sid \notin sessions
      BY <3>1 DEF SpokenInv, MintInv
    <3> QED
      BY <2>1, <2>2, <3>2 DEF CreateSession
  <2>3. CASE AttachToSession(t)
    <3>1. 1 \in DOMAIN outbox[t] /\ outbox[t][1] = h /\ h.type = "attach" /\ h.sid \in Sid
      BY <1>1, <2>3, OutboxTaken DEF AttachToSession
    <3>2. Opened(h.sid)
      BY <1>1, <3>1 DEF NamesInv, Posted, TypeInv, TypeOK, PortsOK
    <3> QED
      BY <1>1, <2>3, <3>1, <3>2, NamesAttach DEF AttachToSession
  <2> QED
    BY <2>1, <2>2, <2>3 DEF PortStep, ForwardInput, DetachPort
<1> QED
  BY <1>2, <1>4, <1>5, <1>6 DEF NamesInv

LEMMA ClosingPosts ==
  ASSUME TypeInv, NEW s \in Sid, NEW errors \in {<<>>, <<Tell("error", s)>>}, Closing(s, errors)
  PROVE  \E ms \in Seq(Outbound) :
           /\ Post(ports[s], ms)
           /\ \A k \in 1..Len(ms) : ms[k].sid = s /\ ms[k].type \in Ends /\ ms[k].data = <<>>
           /\ s \in sessions => \E k \in 1..Len(ms) : ms[k].type = "closed"
<1> DEFINE e == Tell("error", s)
           c == Tell("closed", s)
<1>1. /\ e \in Outbound /\ e.sid = s /\ e.type \in Ends /\ e.data = <<>>
      /\ c \in Outbound /\ c.sid = s /\ c.type = "closed" /\ c.type \in Ends /\ c.data = <<>>
  BY TellIs DEF Ends
<1>2. Post(ports[s], errors \o (IF s \in sessions THEN <<c>> ELSE <<>>))
  BY DEF Closing
<1> HIDE DEF e, c
<1>3. errors = <<>> \/ errors = <<e>>
  BY DEF e
<1>4. PICK rest \in {<<>>, <<c>>} : Post(ports[s], errors \o rest) /\ (s \in sessions => rest = <<c>>)
  BY <1>2
<1>5. /\ errors \in Seq(Outbound) /\ Len(errors) \in Nat
      /\ \A k \in 1..Len(errors) : errors[k] = e
  <2>1. <<e>> \in Seq(Outbound) /\ Len(<<e>>) = 1 /\ <<e>>[1] = e
    BY <1>1
  <2>2. CASE errors = <<>>
    BY <2>2
  <2>3. CASE errors = <<e>>
    BY <2>1, <2>3
  <2> QED
    BY <1>3, <2>2, <2>3
<1>6. /\ rest \in Seq(Outbound) /\ Len(rest) \in Nat
      /\ \A k \in 1..Len(rest) : rest[k] = c
      /\ rest = <<c>> => Len(rest) = 1
  <2>1. <<c>> \in Seq(Outbound) /\ Len(<<c>>) = 1 /\ <<c>>[1] = c
    BY <1>1
  <2>2. CASE rest = <<>>
    BY <2>2
  <2>3. CASE rest = <<c>>
    BY <2>1, <2>3
  <2> QED
    BY <2>2, <2>3
<1> DEFINE ms == errors \o rest
<1>7. /\ ms \in Seq(Outbound) /\ Len(ms) = Len(errors) + Len(rest)
      /\ \A k \in 1..Len(errors) + Len(rest) :
           ms[k] = IF k <= Len(errors) THEN errors[k] ELSE rest[k - Len(errors)]
  BY <1>5, <1>6, ConcatProperties
<1> HIDE DEF ms
<1>8. \A k \in 1..Len(ms) : ms[k] \in {e, c}
  BY <1>5, <1>6, <1>7
<1>9. s \in sessions => \E k \in 1..Len(ms) : ms[k].type = "closed"
  <2> SUFFICES ASSUME s \in sessions
               PROVE  \E k \in 1..Len(ms) : ms[k].type = "closed"
    OBVIOUS
  <2>1. Len(rest) = 1 /\ rest[1] = c
    BY <1>4, <1>6
  <2>2. Len(errors) + 1 \in 1..Len(ms) /\ ms[Len(errors) + 1] = c
    BY <1>5, <1>7, <2>1
  <2> QED
    BY <1>1, <2>2
<1> QED
  BY <1>1, <1>4, <1>7, <1>8, <1>9 DEF ms

LEMMA NamesMessage ==
  ASSUME SpokenInv, NamesInv, NEW s \in Sid, WsMessage(s), \A r \in Sid : Advance(r)
  PROVE  (\A u \in Term : Told(u)') /\ (\A r \in Sid : Filled(r)')
<1> USE DEF SpokenInv
<1> DEFINE m == sent[s][got[s] + 1]
<1>1. /\ got[s] \in Nat /\ got[s] + 1 \in 1..Len(sent[s]) /\ got'[s] = got[s] + 1
      /\ ws[s] = "open" /\ UNCHANGED <<ws, dialog, sent, ports>>
      /\ m \in Peer!ServerMsg
      /\ \A i \in 1..got[s] : sent[s][i].type \notin Ends \cup {"needs-credentials"}
  BY Arriving
<1>2. Talk(s)
  BY DEF SocketsInv
<1>3. /\ m.type \in {"ready", "output"} => Started(s)'
      /\ m.type = "needs-credentials" => Refused(s)'
  BY <1>1, <1>2 DEF Talk, Started, Refused, Opened
<1>4. ASSUME NEW n \in Outbound, n.sid = s, n.type = m.type, Post(ports[s], <<n>>)
      PROVE  \A u \in Term : Told(u)'
  <2>1. Vouched(n)'
    BY <1>1, <1>3, <1>4 DEF Vouched
  <2>2. \A k \in 1..Len(<<n>>) : Vouched(<<n>>[k])'
    BY <2>1
  <2>3. <<n>> \in Seq(Outbound)
    OBVIOUS
  <2> QED
    BY <1>4, <2>2, <2>3, ToldByPost DEF NamesInv
<1>5. CASE OnServerOutput(s, m)
  <2> DEFINE c == [sid |-> s, pos |-> got[s] + 1]
  <2>1. <<c>> \in Seq(Chunk) /\ m.type = "output"
    BY <1>1, <1>5 DEF Chunk, OnServerOutput
  <2>2. Show(s, <<c>>) \in Outbound /\ Show(s, <<c>>).sid = s /\ Show(s, <<c>>).type = m.type
    BY <2>1, ShowIs
  <2>3. \A u \in Term : Told(u)'
    BY <1>4, <1>5, <2>2 DEF OnServerOutput
  <2>4. \A r \in Sid \ {s} : buffer'[r] = buffer[r]
    BY <1>5 DEF OnServerOutput, AppendBuffer, TypeInv, TypeOK, WorkerOK
  <2>5. Filled(s)'
    BY <1>3, <2>1 DEF Filled
  <2> QED
    BY <2>3, <2>4, <2>5, FilledKept DEF NamesInv
<1>6. CASE OnServerNews(s, m) \/ OnServerClosed(s, m)
  <2>1. m.type \in {"ready", "error", "needs-credentials", "closed"} /\ Post(ports[s], <<Tell(m.type, s)>>)
        /\ buffer' = buffer
    BY <1>6 DEF OnServerNews, OnServerClosed
  <2>2. Tell(m.type, s) \in Outbound /\ Tell(m.type, s).sid = s /\ Tell(m.type, s).type = m.type
    BY <2>1, TellIs
  <2>3. \A u \in Term : Told(u)'
    BY <1>4, <2>1, <2>2
  <2> QED
    BY <2>1, <2>3, FilledKept DEF NamesInv
<1> QED
  BY <1>5, <1>6 DEF WsMessage

LEMMA NamesSocket ==
  ASSUME SpokenInv, NamesInv, NEW s \in Sid, SocketStep(s) \/ GatewayStep(s)
  PROVE  NamesInv'
<1>1. UNCHANGED termVars /\ TypeInv /\ [Next]_vars /\ \A r \in Sid : Advance(r)
  <2>1. UNCHANGED termVars /\ TypeInv /\ [Next]_vars
    BY DEF SocketStep, GatewayStep, SpokenInv, Next
  <2> QED
    BY <2>1, Advances
<1>2. \A u \in Term : Shape(u)'
  BY <1>1, ShapeKept DEF NamesInv, termVars
<1>3. UNCHANGED <<alive, outbox>>
  BY DEF SocketStep, GatewayStep, WsOpen, WsFailed, WsMessage, WsClosing, WsLost, WsGone,
         GatewayTakesInit, GatewaySends, portVars
<1>4. \A u \in Term : Posted(u)'
  BY <1>1, <1>3, PostedKept DEF NamesInv
<1>5. CASE UNCHANGED <<inbox, buffer>>
  <2>1. \A u \in Term : Told(u)'
    BY <1>1, <1>5, ToldKept DEF NamesInv
  <2> QED
    BY <1>1, <1>2, <1>4, <1>5, <2>1, FilledKept DEF NamesInv
<1>6. ASSUME NEW errors \in {<<>>, <<Tell("error", s)>>}, Closing(s, errors), buffer' = buffer
      PROVE  NamesInv'
  <2>1. PICK ms \in Seq(Outbound) :
          /\ Post(ports[s], ms)
          /\ \A k \in 1..Len(ms) : ms[k].sid = s /\ ms[k].type \in Ends /\ ms[k].data = <<>>
    BY <1>1, <1>6, ClosingPosts
  <2>2. ws'[s] = "closed"
    BY <1>1, <1>6, ClosingTypes DEF TypeInv, TypeOK, WorkerOK
  <2>3. \A k \in 1..Len(ms) : Vouched(ms[k])'
    BY <2>1, <2>2 DEF Vouched, Ends
  <2>4. \A u \in Term : Told(u)'
    BY <1>1, <2>1, <2>3, ToldByPost DEF NamesInv
  <2> QED
    BY <1>1, <1>2, <1>4, <1>6, <2>4, FilledKept DEF NamesInv
<1>7. CASE WsOpen(s) \/ WsClosing(s) \/ GatewayStep(s)
  BY <1>5, <1>7 DEF WsOpen, WsClosing, GatewayStep, GatewayTakesInit, GatewaySends, portVars
<1>8. CASE WsMessage(s)
  BY <1>1, <1>2, <1>4, <1>8, NamesMessage DEF NamesInv
<1>9. CASE WsFailed(s) \/ WsLost(s) \/ WsGone(s)
  BY <1>6, <1>9 DEF WsFailed, WsLost, WsGone
<1> QED
  BY <1>7, <1>8, <1>9 DEF SocketStep

LEMMA NamesStep ==
  ASSUME SpokenInv, NamesInv, [Next]_vars
  PROVE  NamesInv'
<1>1. CASE UNCHANGED vars
  <2>1. UNCHANGED <<portVars, termVars, workerVars>> /\ [Next]_vars
    BY <1>1 DEF vars
  <2>2. \A u \in Term : Shape(u)' /\ Posted(u)' /\ Told(u)'
    BY <2>1, OtherElements DEF portVars, termVars
  <2> QED
    BY <2>1, <2>2, Advances, FilledKept DEF NamesInv, workerVars
<1> QED
  BY <1>1, NamesUser, NamesElement, NamesPort, NamesSocket DEF Next

LEMMA NamesInit == Init => NamesInv
  BY DEF Init, PortsInit, TerminalInit, WorkerInit, NamesInv, Shape, Posted, Told, Filled

NamedInv == SpokenInv /\ NamesInv

LEMMA NamesHold == Spec => []NamedInv
<1>1. NamedInv /\ [Next]_vars => NamedInv'
  BY TypesStep, MintStep, SocketsStep, NamesStep DEF NamedInv, SpokenInv
<1>2. Init => NamedInv
  BY SpokenInit, NamesInit DEF NamedInv
<1> QED
  BY <1>1, <1>2, PTL DEF Spec

(* What is typed into a terminal of a session that exists meets an open    *)
(* socket, or one at whose far end nobody listens any more.                *)
THEOREM KeysAreHeard == Spec => []KeysFindOpenSocket
<1>1. NamedInv => KeysFindOpenSocket
  <2> SUFFICES ASSUME NamedInv, NEW t \in Term, NEW i \in DOMAIN outbox[t],
                      outbox[t][i].type \in {"input", "resize"}, outbox[t][i].sid \in sessions
               PROVE  ws[outbox[t][i].sid] = "open" \/ Ending(outbox[t][i].sid)
    BY DEF KeysFindOpenSocket
  <2>1. i \in 1..Len(outbox[t])
    BY DEF NamedInv, SpokenInv, TypeInv, TypeOK, PortsOK
  <2>2. Opened(outbox[t][i].sid)
    BY <2>1 DEF NamedInv, NamesInv, Posted
  <2>3. outbox[t][i].sid \in Sid
    BY DEF NamedInv, SpokenInv, TypeInv, TypeOK, WorkerOK
  <2> QED
    BY <2>2, <2>3 DEF NamedInv, SpokenInv, SocketsInv, Socket, Opened
<1> QED
  BY <1>1, NamesHold, PTL

-----------------------------------------------------------------------------
(* Who waits, who watches and who has been told.                           *)
Farewells == Ends \cup {"needs-credentials"}
News      == {"ready", "output"}
Asks      == {"create", "attach"}
Live      == {"connecting", "connected"}

(* No more than news of its end comes from s. *)
Over(s) == s \notin sessions \/ \E i \in 1..got[s] : sent[s][i].type \in Farewells

(* Nothing is queued for a session that has not started, or under a form.  *)
Queue(t) == /\ queued[t] # <<>> => active[t] \in Sid /\ Started(active[t])
            /\ phase[t] = "credentials" => queued[t] = <<>>

(* An element that was never on screen has been in touch with no one.      *)
Unheard(t) == phase[t] = "credentials" =>
                active[t] = None /\ outbox[t] = <<>> /\ \A s \in Sid : t \notin ports[s]

Heard(t) == \A i \in 1..Len(inbox[t]) :
  inbox[t][i].sid = active[t] /\ inbox[t][i].type \in News =>
    /\ phase[t] \in Live
    /\ \A j \in 1..(i - 1) : inbox[t][j].sid = active[t] => inbox[t][j].type \notin Farewells

Asked(t) == \A i \in 1..Len(outbox[t]) : outbox[t][i].type \in Asks =>
  /\ outbox[t][i].sid = active[t] /\ phase[t] = "connecting" /\ queued[t] = <<>>
  /\ t \notin ports[active[t]]
  /\ \A j \in 1..Len(inbox[t]) : inbox[t][j].sid # active[t]
  /\ \A j \in 1..Len(outbox[t]) : outbox[t][j].type \in Asks => j = i

Stays(t) == active[t] \in Sid /\ t \in ports[active[t]] /\ ~Over(active[t]) =>
  /\ phase[t] \in Live
  /\ \A j \in 1..Len(inbox[t]) : inbox[t][j].sid = active[t] => inbox[t][j].type \notin Farewells

GivesUp(t) == \A i \in 1..Len(outbox[t]) : outbox[t][i].type = "detach" => outbox[t][i].sid # active[t]

Informed(t) == phase[t] \in Live =>
  \/ \E i \in 1..Len(outbox[t]) : outbox[t][i].type \in Asks /\ outbox[t][i].sid = active[t]
  \/ active[t] \in sessions /\ t \in ports[active[t]]
  \/ \E i \in 1..Len(inbox[t]) : inbox[t][i].type \in Ends /\ inbox[t][i].sid = active[t]

Viewer(t) == Heard(t) /\ Asked(t) /\ Stays(t) /\ GivesUp(t) /\ Informed(t)

ViewersInv == /\ \A t \in Term : Queue(t)
              /\ \A t \in alive : Viewer(t)
              /\ \A t \in Term \ alive : Unheard(t)

LEMMA OutboxSids ==
  ASSUME TypeInv, NEW t \in Term
  PROVE  /\ \A i \in 1..Len(outbox[t]) : outbox[t][i].sid \in Sid
         /\ \A i \in 1..Len(inbox[t]) : inbox[t][i].sid \in Sid
         /\ Len(outbox[t]) \in Nat /\ Len(inbox[t]) \in Nat
<1>1. outbox[t] \in Seq(Inbound) /\ inbox[t] \in Seq(Outbound)
  BY DEF TypeInv, TypeOK, PortsOK
<1>2. /\ \A i \in 1..Len(outbox[t]) : outbox[t][i] \in Inbound
      /\ \A i \in 1..Len(inbox[t]) : inbox[t][i] \in Outbound
      /\ Len(outbox[t]) \in Nat /\ Len(inbox[t]) \in Nat
  BY <1>1
<1> QED
  BY <1>2 DEF Inbound, Outbound

(* What holds of a viewer holds on, as long as nothing happens to it and   *)
(* what it watches does not come back to life.                             *)
LEMMA ViewerKept ==
  ASSUME TypeInv, NEW u \in Term, Viewer(u),
         phase'[u] = phase[u], active'[u] = active[u], queued'[u] = queued[u],
         inbox'[u] = inbox[u], outbox'[u] = outbox[u],
         \A s \in Sid : /\ u \in ports'[s] <=> u \in ports[s]
                        /\ u \in ports[s] /\ Over(s) => Over(s)'
                        /\ u \in ports[s] /\ s \in sessions => s \in sessions'
  PROVE  Viewer(u)'
<1>1. /\ \A i \in 1..Len(outbox[u]) : outbox[u][i].sid \in Sid
      /\ sessions \subseteq Sid
  BY OutboxSids DEF TypeInv, TypeOK, WorkerOK
<1>2. Heard(u)' /\ GivesUp(u)'
  BY DEF Viewer, Heard, GivesUp
<1>3. Asked(u)'
  BY <1>1 DEF Viewer, Asked
<1>4. Stays(u)'
  <2> SUFFICES ASSUME active[u] \in Sid, u \in ports'[active[u]], ~Over(active[u])'
               PROVE  /\ phase[u] \in Live
                      /\ \A j \in 1..Len(inbox[u]) :
                           inbox[u][j].sid = active[u] => inbox[u][j].type \notin Farewells
    BY DEF Stays
  <2>1. PICK s \in Sid : s = active[u]
    OBVIOUS
  <2>2. ~Over(s)'
    BY <2>1 DEF Over
  <2>3. ~Over(s) /\ u \in ports[s]
    BY <2>1, <2>2
  <2> QED
    BY <2>1, <2>3 DEF Viewer, Stays
<1>5. Informed(u)'
  BY <1>1 DEF Viewer, Informed
<1> QED
  BY <1>2, <1>3, <1>4, <1>5 DEF Viewer

LEMMA OverKept ==
  ASSUME NEW s \in Sid, UNCHANGED <<sessions, got, sent>>
  PROVE  Over(s)' = Over(s)
  BY DEF Over

(* The steps of a terminal leave the other terminals as they are.          *)
LEMMA OtherViewers ==
  ASSUME SpokenInv, NamesInv, ViewersInv, [Next]_vars, UNCHANGED workerVars, NEW v \in Term,
         Queue(v)', v \in alive' => Viewer(v)', v \notin alive' => Unheard(v)',
         \A u \in Term \ {v} :
           /\ phase'[u] = phase[u] /\ active'[u] = active[u] /\ queued'[u] = queued[u]
           /\ inbox'[u] = inbox[u] /\ outbox'[u] = outbox[u]
           /\ u \in alive' <=> u \in alive
  PROVE  ViewersInv'
<1>1. TypeInv /\ TypeInv' /\ \A s \in Sid : Advance(s)
  BY TypesStep, Advances DEF SpokenInv
<1>2. \A s \in Sid : ports'[s] = ports[s] /\ (Over(s) => Over(s)') /\ (s \in sessions => s \in sessions')
  BY OverKept DEF workerVars
<1>3. \A u \in Term \ {v} : Queue(u)'
  BY <1>1 DEF ViewersInv, Queue, Advance
<1>4. \A u \in Term \ {v} : u \in alive' => Viewer(u)'
  BY <1>1, <1>2, ViewerKept DEF ViewersInv
<1>5. \A u \in Term \ {v} : u \notin alive' => Unheard(u)'
  BY <1>2 DEF ViewersInv, Unheard
<1>6. alive' \subseteq Term
  BY <1>1 DEF TypeInv, TypeOK, PortsOK
<1> QED
  BY <1>3, <1>4, <1>5, <1>6 DEF ViewersInv

(* A viewer that asks for a session no message of which is on its way.     *)
LEMMA AsksFirst ==
  ASSUME TypeInv, TypeInv', NEW v \in Term, NEW s \in Sid, NEW m \in Inbound,
         m.type \in Asks, m.sid = s, PostToWorker(v, m),
         \A i \in 1..Len(outbox[v]) : outbox[v][i].type \notin Asks /\ outbox[v][i].sid # s,
         \A i \in 1..Len(inbox[v]) : inbox[v][i].sid # s,
         active'[v] = s, phase'[v] = "connecting", queued'[v] = <<>>, inbox'[v] = inbox[v],
         v \notin ports[s], ports' = ports
  PROVE  Viewer(v)'
<1>1. /\ DOMAIN outbox[v] = 1..Len(outbox[v]) /\ Len(outbox[v]) \in Nat
      /\ DOMAIN outbox'[v] = 1..(Len(outbox[v]) + 1)
      /\ outbox'[v][Len(outbox[v]) + 1] = m
      /\ \A i \in DOMAIN outbox[v] : outbox'[v][i] = outbox[v][i]
  BY OutboxGrows
<1>2. Len(outbox'[v]) = Len(outbox[v]) + 1
  BY <1>1 DEF TypeInv, TypeOK, PortsOK
<1>3. \A i \in 1..Len(outbox'[v]) :
        \/ i = Len(outbox'[v]) /\ outbox'[v][i] = m
        \/ outbox'[v][i].type \notin Asks /\ outbox'[v][i].sid # s
  BY <1>1, <1>2, SMTT(30)
<1>4. Len(outbox'[v]) \in 1..Len(outbox'[v]) /\ outbox'[v][Len(outbox'[v])] = m
  BY <1>1, <1>2
<1>5. Heard(v)' /\ Stays(v)'
  BY DEF Heard, Stays
<1>6. GivesUp(v)'
  BY <1>3 DEF GivesUp, Asks
<1>7. Asked(v)'
  BY <1>3 DEF Asked
<1>8. Informed(v)'
  BY <1>4 DEF Informed
<1> QED
  BY <1>5, <1>6, <1>7, <1>8 DEF Viewer

LEMMA FirstHeard ==
  ASSUME TypeInv, NEW v \in Term, v \notin alive, Unheard(v), phase[v] = "credentials"
  PROVE  /\ \A i \in 1..Len(outbox[v]) : FALSE
         /\ \A i \in 1..Len(inbox[v]) : FALSE
         /\ queued[v] = <<>> /\ \A s \in Sid : v \notin ports[s]
<1>1. inbox[v] = <<>> /\ queued[v] = <<>>
  BY DEF TypeInv, Handles
<1>2. outbox[v] = <<>>
  BY DEF Unheard
<1> QED
  BY <1>1, <1>2 DEF Unheard

LEMMA ViewersUser ==
  ASSUME SpokenInv, NamesInv, ViewersInv, NEW t \in Term, UserStep(t)
  PROVE  ViewersInv'
<1>1. /\ UNCHANGED workerVars /\ TypeInv /\ TypeInv' /\ [Next]_vars
      /\ \A s \in Sid : Advance(s)
      /\ Shape(t) /\ Posted(t) /\ Told(t) /\ Queue(t)
      /\ t \in alive => Viewer(t)
  <2>1. UNCHANGED workerVars /\ TypeInv /\ [Next]_vars
    BY DEF UserStep, SpokenInv, Next
  <2> QED
    BY <2>1, TypesStep, Advances DEF NamesInv, ViewersInv
<1>2. ports' = ports
  BY <1>1 DEF workerVars
<1>3. /\ \A i \in 1..Len(outbox[t]) : outbox[t][i].sid \in Sid
      /\ \A i \in 1..Len(inbox[t]) : inbox[t][i].sid \in Sid
  BY <1>1, OutboxSids
<1> USE DEF TypeInv, TypeOK, PortsOK, TerminalOK
<1>4. CASE Open(t) \/ Connect(t)
  <2>1. PICK s \in Sid \ minted :
          /\ active' = [active EXCEPT ![t] = s]
          /\ phase' = [phase EXCEPT ![t] = "connecting"]
          /\ PostToWorker(t, Create(s, t \in Inline))
    BY <1>1, <1>4, StartsAreTyped DEF Open, Connect
  <2>2. UNCHANGED <<inbox, xterm, screen, queued>> /\ phase[t] = "credentials" /\ t \in alive'
        /\ alive' = alive \cup {t}
    BY <1>1, <1>4 DEF Open, Connect
  <2>3. PICK m \in Inbound : m = Create(s, t \in Inline) /\ m.type = "create" /\ m.sid = s
    <3>1. Create(s, t \in Inline) \in Inbound
      BY DEF Create, Inbound
    <3>2. Create(s, t \in Inline).type = "create" /\ Create(s, t \in Inline).sid = s
      BY DEF Create
    <3> QED
      BY <3>1, <3>2
  <2>4. ws[s] = "none" /\ t \notin ports[s] /\ queued[t] = <<>>
    BY <1>1, <2>2 DEF SpokenInv, MintInv, SocketsInv, Socket, Queue
  <2>5. \A i \in 1..Len(inbox[t]) : inbox[t][i].sid # s
    BY <1>1, <2>4 DEF Told, Vouched
  <2>6. \A i \in 1..Len(outbox[t]) : outbox[t][i].type \notin Asks /\ outbox[t][i].sid # s
    <3>1. \A i \in 1..Len(outbox[t]) : outbox[t][i].sid # s
      BY <1>1 DEF SpokenInv, MintInv
    <3>2. CASE t \in alive
      BY <1>1, <2>2, <3>1, <3>2 DEF Viewer, Asked
    <3>3. CASE t \notin alive
      BY <1>1, <2>2, <3>3, FirstHeard DEF ViewersInv
    <3> QED
      BY <3>1, <3>2, <3>3
  <2>7. active'[t] = s /\ phase'[t] = "connecting" /\ queued'[t] = <<>> /\ inbox'[t] = inbox[t]
    BY <1>1, <2>1, <2>2, <2>4
  <2>8. Viewer(t)'
    BY <1>1, <1>2, <2>1, <2>3, <2>4, <2>5, <2>6, <2>7, AsksFirst DEF Asks
  <2>9. Queue(t)'
    BY <2>7 DEF Queue
  <2>10. \A u \in Term \ {t} : outbox'[u] = outbox[u]
    BY <1>1, <2>1, <2>3, Outboxes
  <2> QED
    BY <1>1, <2>1, <2>2, <2>8, <2>9, <2>10, OtherViewers
<1>5. CASE Disconnect(t)
  <2>1. active[t] \in Sid /\ t \in alive /\ phase[t] = "connected" /\ queued[t] = <<>>
    BY <1>1, <1>5 DEF Disconnect, Shape
  <2>2. PICK m \in Inbound : /\ m = Ask("detach", active[t])
                             /\ m.type = "detach" /\ m.sid = active[t]
    BY <2>1, AskIsInbound
  <2>3. /\ active'[t] = None /\ phase'[t] = "credentials" /\ queued'[t] = <<>>
        /\ UNCHANGED <<inbox, alive>>
    BY <1>1, <1>5, <2>1 DEF Disconnect, Enter
  <2>4. /\ Len(outbox'[t]) = Len(outbox[t]) + 1 /\ Len(outbox[t]) \in Nat
        /\ \A i \in 1..Len(outbox'[t]) : i \in 1..Len(outbox[t]) \/ outbox'[t][i] = m
        /\ \A i \in 1..Len(outbox[t]) : outbox'[t][i] = outbox[t][i]
        /\ \A u \in Term \ {t} : outbox'[u] = outbox[u]
    <3>1. PostToWorker(t, m)
      BY <1>5, <2>2 DEF Disconnect
    <3>2. DOMAIN outbox'[t] = 1..(Len(outbox[t]) + 1) /\ DOMAIN outbox[t] = 1..Len(outbox[t])
      BY <1>1, <3>1, OutboxGrows
    <3>3. Len(outbox'[t]) = Len(outbox[t]) + 1
      BY <1>1, <3>2
    <3> QED
      BY <1>1, <3>1, <3>3, OutboxGrows
  <2>5. \A i \in 1..Len(outbox[t]) : outbox[t][i].type \notin Asks
    BY <1>1, <2>1 DEF Viewer, Asked
  <2>6. Viewer(t)'
    <3>1. Heard(t)'
      BY <1>3, <2>3, NoneIsNoSession DEF Heard
    <3>2. Asked(t)'
      BY <2>2, <2>4, <2>5 DEF Asked, Asks
    <3>3. Stays(t)' /\ Informed(t)'
      BY <2>3, NoneIsNoSession DEF Stays, Informed, Live
    <3>4. GivesUp(t)'
      BY <1>3, <2>1, <2>2, <2>3, <2>4, NoneIsNoSession DEF GivesUp
    <3> QED
      BY <3>1, <3>2, <3>3, <3>4 DEF Viewer
  <2>7. Queue(t)'
    BY <2>3 DEF Queue
  <2>8. \A u \in Term \ {t} : /\ phase'[u] = phase[u] /\ active'[u] = active[u] /\ queued'[u] = queued[u]
    BY <1>5 DEF Disconnect, Enter
  <2> QED
    BY <1>1, <2>1, <2>3, <2>4, <2>6, <2>7, <2>8, OtherViewers
<1>6. CASE Retry(t)
  <2>1. /\ t \in alive /\ phase[t] \notin Live /\ phase'[t] = "credentials" /\ queued'[t] = <<>>
        /\ UNCHANGED <<inbox, outbox, alive, active>>
    BY <1>1, <1>6 DEF Retry, Enter, portVars, Live
  <2>2. Viewer(t)'
    <3>1. Heard(t)'
      BY <1>1, <2>1 DEF Viewer, Heard
    <3>2. Asked(t)'
      BY <1>1, <2>1 DEF Viewer, Asked, Live
    <3>3. Stays(t)'
      <4>1. ~(active[t] \in Sid /\ t \in ports[active[t]] /\ ~Over(active[t]))
        BY <1>1, <2>1 DEF Viewer, Stays
      <4>2. active[t] \in Sid => Over(active[t])' = Over(active[t])
        BY <1>1, <2>1 DEF Over, workerVars
      <4> QED
        BY <1>2, <2>1, <4>1, <4>2 DEF Stays
    <3>4. GivesUp(t)' /\ Informed(t)'
      BY <1>1, <2>1 DEF Viewer, GivesUp, Informed, Live
    <3> QED
      BY <3>1, <3>2, <3>3, <3>4 DEF Viewer
  <2>3. Queue(t)'
    BY <2>1 DEF Queue
  <2> QED
    BY <1>1, <1>6, <2>1, <2>2, <2>3, OtherViewers DEF Retry, Enter, portVars
<1>7. ASSUME NEW p \in Popup, PopOut(t, p)
      PROVE  ViewersInv'
  <2>1. active[t] \in Sid /\ p \in Term /\ p # t /\ p \notin alive /\ phase[p] = "credentials"
    BY <1>1, <1>7 DEF PopOut, Shape, Term
  <2>2. PICK s \in Sid : s = active[t]
    BY <2>1
  <2>3. PICK m \in Inbound : m = Ask("attach", s) /\ m.type = "attach" /\ m.sid = s
    BY AskIsInbound
  <2>4. /\ \A i \in 1..Len(outbox[p]) : FALSE
        /\ \A i \in 1..Len(inbox[p]) : FALSE
        /\ queued[p] = <<>> /\ p \notin ports[s]
    <3>1. TypeInv /\ Unheard(p)
      BY <1>1, <2>1 DEF ViewersInv
    <3> QED
      BY <2>1, <3>1, FirstHeard
  <2>5. /\ active'[p] = s /\ phase'[p] = "connecting" /\ queued'[p] = <<>> /\ inbox'[p] = inbox[p]
        /\ alive' = alive \cup {p} /\ PostToWorker(p, m)
    BY <1>1, <1>7, <2>1, <2>2, <2>3, <2>4 DEF PopOut, Enter
  <2>6. Viewer(p)'
    BY <1>1, <1>2, <2>1, <2>3, <2>4, <2>5, AsksFirst DEF Asks
  <2>7. Queue(p)'
    BY <2>5 DEF Queue
  <2>8. \A u \in Term \ {p} : /\ outbox'[u] = outbox[u]
                              /\ phase'[u] = phase[u] /\ active'[u] = active[u] /\ queued'[u] = queued[u]
                              /\ inbox'[u] = inbox[u]
    <3>1. \A u \in Term \ {p} : outbox'[u] = outbox[u]
      BY <1>1, <2>1, <2>3, <2>5, Outboxes
    <3> QED
      BY <1>7, <3>1 DEF PopOut, Enter
  <2> QED
    BY <1>1, <2>1, <2>5, <2>6, <2>7, <2>8, OtherViewers
<1>8. ASSUME NEW type \in {"input", "resize"}, Key(t, type)
      PROVE  ViewersInv'
  <2>1. active[t] \in Sid /\ t \in alive /\ UNCHANGED <<alive, inbox, phase, active, queued>>
    BY <1>1, <1>8 DEF Key, Shape, termVars
  <2>2. PICK m \in Inbound : m = Ask(type, active[t]) /\ m.type = type /\ m.sid = active[t]
    BY <2>1, AskIsInbound
  <2>3. /\ Len(outbox'[t]) = Len(outbox[t]) + 1 /\ Len(outbox[t]) \in Nat
        /\ \A i \in 1..Len(outbox'[t]) : i \in 1..Len(outbox[t]) \/ outbox'[t][i] = m
        /\ \A i \in 1..Len(outbox[t]) : outbox'[t][i] = outbox[t][i]
        /\ \A u \in Term \ {t} : outbox'[u] = outbox[u]
    <3>1. PostToWorker(t, m)
      BY <1>8, <2>2 DEF Key
    <3>2. DOMAIN outbox'[t] = 1..(Len(outbox[t]) + 1) /\ DOMAIN outbox[t] = 1..Len(outbox[t])
      BY <1>1, <3>1, OutboxGrows
    <3>3. Len(outbox'[t]) = Len(outbox[t]) + 1
      BY <1>1, <3>2
    <3> QED
      BY <1>1, <3>1, <3>3, OutboxGrows
  <2>4. Viewer(t)'
    <3>1. Heard(t)'
      BY <1>1, <2>1 DEF Viewer, Heard
    <3>2. Asked(t)'
      BY <1>1, <1>2, <2>1, <2>2, <2>3 DEF Viewer, Asked, Asks
    <3>3. Stays(t)'
      <4>1. Over(active[t])' = Over(active[t])
        BY <1>1, <2>1 DEF Over, workerVars
      <4> QED
        BY <1>1, <1>2, <2>1, <4>1 DEF Viewer, Stays
    <3>4. GivesUp(t)'
      BY <1>1, <2>1, <2>2, <2>3 DEF Viewer, GivesUp
    <3>5. Informed(t)'
      <4>1. sessions' = sessions
        BY <1>1 DEF workerVars
      <4>2. \A i \in 1..Len(outbox[t]) : i \in 1..Len(outbox'[t])
        BY <2>3
      <4> QED
        BY <1>1, <1>2, <2>1, <2>3, <4>1, <4>2 DEF Viewer, Informed
    <3> QED
      BY <3>1, <3>2, <3>3, <3>4, <3>5 DEF Viewer
  <2>5. Queue(t)'
    BY <1>1, <2>1 DEF Queue, Advance
  <2> QED
    BY <1>1, <2>1, <2>3, <2>4, <2>5, OtherViewers
<1>9. CASE Leave(t)
  <2>1. alive' = alive \ {t} /\ phase'[t] = "closed" /\ queued'[t] = <<>>
    BY <1>1, <1>9 DEF Leave, Enter
  <2>2. Queue(t)' /\ Unheard(t)'
    BY <2>1 DEF Queue, Unheard
  <2>3. \A u \in Term \ {t} :
          /\ phase'[u] = phase[u] /\ active'[u] = active[u] /\ queued'[u] = queued[u]
          /\ inbox'[u] = inbox[u] /\ outbox'[u] = outbox[u]
    BY <1>9 DEF Leave, Enter
  <2> QED
    BY <1>1, <2>1, <2>2, <2>3, OtherViewers
<1> QED
  BY <1>4, <1>5, <1>6, <1>7, <1>8, <1>9 DEF UserStep

LEMMA ViewersElement ==
  ASSUME SpokenInv, NamesInv, ViewersInv, NEW t \in Term, ElementStep(t)
  PROVE  ViewersInv'
<1>1. /\ UNCHANGED workerVars /\ TypeInv /\ TypeInv' /\ [Next]_vars
      /\ \A s \in Sid : Advance(s)
      /\ Shape(t) /\ Told(t) /\ Queue(t)
  <2>1. UNCHANGED workerVars /\ TypeInv /\ [Next]_vars
    BY DEF ElementStep, SpokenInv, Next
  <2> QED
    BY <2>1, TypesStep, Advances DEF NamesInv, ViewersInv
<1>2. PICK m \in Outbound :
         /\ m = inbox[t][1] /\ 1 \in 1..Len(inbox[t])
         /\ t \in alive
         /\ inbox[t] # <<>> /\ inbox' = [inbox EXCEPT ![t] = Tail(@)]
         /\ UNCHANGED <<alive, outbox, active, minted>> /\ UNCHANGED workerVars
         /\ \/ m.sid # active[t] /\ UNCHANGED <<phase, xterm, screen, queued>>
            \/ m.sid = active[t] /\ OnReady(t, m)
            \/ m.sid = active[t] /\ OnOutput(t, m)
            \/ m.sid = active[t] /\ OnEnd(t, m)
            \/ m.sid = active[t] /\ OnNeedsCredentials(t, m)
  BY <1>1, Handling
<1>3. /\ Len(inbox[t]) \in Nat \ {0} /\ Len(inbox'[t]) = Len(inbox[t]) - 1
      /\ \A i \in 1..Len(inbox'[t]) : i + 1 \in 1..Len(inbox[t]) /\ inbox'[t][i] = inbox[t][i + 1]
      /\ \A u \in Term \ {t} : inbox'[u] = inbox[u]
  BY <1>1, <1>2, InboxTaken
<1>4. m.sid \in Sid /\ Vouched(m)
  BY <1>1, <1>2 DEF Outbound, Told
<1>5. /\ Viewer(t) /\ ports' = ports /\ active' = active /\ outbox' = outbox /\ sessions' = sessions
  BY <1>2 DEF ViewersInv, workerVars
<1>6. \A s \in Sid : Over(s)' = Over(s)
  BY <1>1, OverKept DEF workerVars
(* The phase, as far as it matters who still watches. *)
<1>7. \/ m.sid # active[t] /\ phase'[t] = phase[t] /\ queued'[t] = queued[t]
      \/ /\ m.sid = active[t] /\ m.type \in News
         /\ phase'[t] \in {phase[t], "connected"} /\ phase[t] \in Live
         /\ \A i \in 1..Len(outbox[t]) : outbox[t][i].type \notin Asks
      \/ /\ m.sid = active[t] /\ m.type \in Farewells
         /\ phase'[t] \notin Live /\ queued'[t] = queued[t]
         /\ \A i \in 1..Len(outbox[t]) : outbox[t][i].type \notin Asks
  <2>1. m.sid = active[t] => \A i \in 1..Len(outbox[t]) : outbox[t][i].type \notin Asks
    BY <1>2, <1>5 DEF Viewer, Asked
  <2>2. m.sid = active[t] /\ m.type \in News => phase[t] \in Live
    BY <1>2, <1>5 DEF Viewer, Heard
  <2> USE DEF TypeInv, TypeOK, TerminalOK
  <2>3. CASE m.sid # active[t] /\ UNCHANGED <<phase, xterm, screen, queued>>
    BY <2>3
  <2>4. CASE m.sid = active[t] /\ OnReady(t, m)
    BY <1>1, <2>1, <2>2, <2>4 DEF OnReady, Enter, News
  <2>5. CASE m.sid = active[t] /\ OnOutput(t, m)
    BY <1>1, <2>1, <2>2, <2>5 DEF OnOutput, News
  <2>6. CASE m.sid = active[t] /\ (OnEnd(t, m) \/ OnNeedsCredentials(t, m))
    BY <1>1, <2>1, <2>6 DEF OnEnd, OnNeedsCredentials, Enter, Farewells, Ends, Live
  <2> QED
    BY <1>2, <2>3, <2>4, <2>5, <2>6
<1>8. GivesUp(t)'
  BY <1>5 DEF Viewer, GivesUp
<1>9. Heard(t)'
  <2> SUFFICES ASSUME NEW i \in 1..Len(inbox'[t]), inbox'[t][i].sid = active[t], inbox'[t][i].type \in News
               PROVE  /\ phase'[t] \in Live
                      /\ \A j \in 1..(i - 1) : inbox'[t][j].sid = active[t] => inbox'[t][j].type \notin Farewells
    BY <1>5 DEF Heard
  <2>1. i + 1 \in 1..Len(inbox[t]) /\ inbox'[t][i] = inbox[t][i + 1] /\ i \in Nat \ {0}
    BY <1>3
  <2>2. /\ phase[t] \in Live
        /\ \A j \in 1..i : inbox[t][j].sid = active[t] => inbox[t][j].type \notin Farewells
    BY <1>5, <2>1 DEF Viewer, Heard
  <2>3. ~(m.sid = active[t] /\ m.type \in Farewells)
    BY <1>2, <2>1, <2>2
  <2>4. phase'[t] \in Live
    BY <1>7, <2>2, <2>3 DEF Live
  <2>5. \A j \in 1..(i - 1) : j + 1 \in 1..i /\ inbox'[t][j] = inbox[t][j + 1]
    BY <1>3, <2>1
  <2> QED
    BY <2>2, <2>4, <2>5
<1>10. Asked(t)'
  BY <1>3, <1>5, <1>7, SMTT(30) DEF Viewer, Asked
<1>11. Stays(t)'
  <2> SUFFICES ASSUME active[t] \in Sid, t \in ports[active[t]], ~Over(active[t])
               PROVE  /\ phase'[t] \in Live
                      /\ \A j \in 1..Len(inbox'[t]) :
                           inbox'[t][j].sid = active[t] => inbox'[t][j].type \notin Farewells
    <3>1. active[t] \in Sid => (Over(active[t])' <=> Over(active[t]))
      BY <1>1, <1>5 DEF Over, workerVars
    <3> QED
      BY <1>5, <3>1 DEF Stays
  <2>1. /\ phase[t] \in Live
        /\ \A j \in 1..Len(inbox[t]) : inbox[t][j].sid = active[t] => inbox[t][j].type \notin Farewells
    BY <1>5 DEF Viewer, Stays
  <2> QED
    BY <1>2, <1>3, <1>7, <2>1 DEF Live
<1>12. Informed(t)'
  <2> SUFFICES ASSUME phase'[t] \in Live
               PROVE  \/ \E i \in 1..Len(outbox[t]) : outbox[t][i].type \in Asks /\ outbox[t][i].sid = active[t]
                      \/ active[t] \in sessions /\ t \in ports[active[t]]
                      \/ \E i \in 1..Len(inbox'[t]) : inbox'[t][i].type \in Ends /\ inbox'[t][i].sid = active[t]
    BY <1>5 DEF Informed
  <2>1. phase[t] \in Live /\ ~(m.sid = active[t] /\ m.type \in Farewells)
    BY <1>7 DEF News, Farewells, Ends
  <2>2. \A i \in 1..Len(inbox[t]) :
          inbox[t][i].type \in Ends /\ inbox[t][i].sid = active[t] =>
            i - 1 \in 1..Len(inbox'[t]) /\ inbox'[t][i - 1] = inbox[t][i]
    BY <1>2, <1>3, <2>1 DEF Farewells
  <2> QED
    BY <1>5, <2>1, <2>2 DEF Viewer, Informed
<1>13. Viewer(t)'
  BY <1>8, <1>9, <1>10, <1>11, <1>12 DEF Viewer
<1>14. Queue(t)'
  <2>1. \A s \in Sid : Started(s) => Started(s)'
    BY <1>1 DEF Advance
  <2>2. \A s \in Sid : m.sid = s /\ active[t] = s /\ m.type \in News => Started(s)'
    BY <1>4, <2>1 DEF Vouched, News
  <2>3. /\ active'[t] = active[t]
        /\ active[t] \in Sid /\ Started(active[t]) => Started(active[t])'
    <3>1. \A s \in Sid : s = active[t] => (Started(active[t])' <=> Started(s)')
      BY <1>5 DEF Started, Opened
    <3> QED
      BY <1>5, <2>1, <3>1
  <2>4. CASE m.type \in News /\ m.sid = active[t]
    <3>1. Started(active[t])' /\ active'[t] \in Sid
      <4>1. PICK s \in Sid : s = m.sid
        BY <1>4
      <4>2. Started(s)'
        BY <2>2, <2>4, <4>1
      <4> QED
        BY <1>5, <2>4, <4>1, <4>2 DEF Started, Opened
    <3>2. phase'[t] # "credentials"
      BY <1>7, <2>4 DEF Live, Farewells, News, Ends
    <3> QED
      BY <1>5, <3>1, <3>2 DEF Queue, Started, Opened
  <2>5. CASE ~(m.type \in News /\ m.sid = active[t])
    <3>1. queued'[t] = queued[t]
      BY <1>7, <2>5
    <3>2. queued[t] # <<>> => active'[t] \in Sid /\ Started(active[t])'
      BY <1>1, <1>5, <2>3, <3>1 DEF Queue
    <3>3. phase'[t] = "credentials" => queued[t] = <<>>
      <4>1. CASE m.sid # active[t]
        BY <1>1, <1>7, <4>1 DEF Queue
      <4>2. CASE m.sid = active[t] /\ OnNeedsCredentials(t, m)
        BY <1>1, <1>4, <4>2 DEF OnNeedsCredentials, Vouched, Refused, Started, Queue
      <4>3. CASE m.sid = active[t] /\ OnEnd(t, m)
        BY <1>1, <4>3 DEF OnEnd, Enter, TypeInv, TypeOK, TerminalOK
      <4> QED
        BY <1>2, <2>5, <4>1, <4>2, <4>3 DEF OnReady, OnOutput, News
    <3> QED
      BY <3>1, <3>2, <3>3 DEF Queue
  <2> QED
    BY <2>4, <2>5
<1>15. \A u \in Term \ {t} :
         /\ phase'[u] = phase[u] /\ active'[u] = active[u] /\ queued'[u] = queued[u]
         /\ inbox'[u] = inbox[u] /\ outbox'[u] = outbox[u]
         /\ u \in alive' <=> u \in alive
  BY <1>1, <1>2, <1>3 DEF OnReady, OnOutput, OnEnd, OnNeedsCredentials, Enter, Cleanup,
                      TypeInv, TypeOK, TerminalOK
<1> QED
  BY <1>1, <1>2, <1>13, <1>14, <1>15, OtherViewers

LEMMA OutboxTail ==
  ASSUME TypeInv, NEW t \in Term, NEW type, Take(t, type)
  PROVE  /\ 1 \in 1..Len(outbox[t]) /\ outbox[t][1] = Head(outbox[t])
         /\ \A i \in 1..Len(outbox'[t]) : /\ i + 1 \in 1..Len(outbox[t]) /\ i + 1 # 1
                                          /\ outbox'[t][i] = outbox[t][i + 1]
         /\ \A i \in 1..Len(outbox[t]) : i # 1 =>
              i - 1 \in 1..Len(outbox'[t]) /\ outbox'[t][i - 1] = outbox[t][i]
<1>1. outbox[t] \in Seq(Inbound) /\ outbox[t] # <<>> /\ outbox'[t] = Tail(outbox[t])
  BY DEF TypeInv, TypeOK, PortsOK, Take
<1>2. Len(outbox[t]) \in Nat \ {0} /\ Len(Tail(outbox[t])) = Len(outbox[t]) - 1
  BY <1>1
<1>3. \A i \in 1..Len(Tail(outbox[t])) : Tail(outbox[t])[i] = outbox[t][i + 1]
  BY <1>1, HeadTailProperties
<1>4. \A i \in 1..Len(outbox'[t]) : /\ i + 1 \in 1..Len(outbox[t]) /\ i + 1 # 1
                                    /\ outbox'[t][i] = outbox[t][i + 1]
  BY <1>1, <1>2, <1>3
<1>5. \A i \in 1..Len(outbox[t]) : i # 1 => i - 1 \in 1..Len(outbox'[t]) /\ i = (i - 1) + 1
  BY <1>1, <1>2
<1> QED
  BY <1>1, <1>2, <1>4, <1>5

(* The answer to a viewer that asked: it is let in, or told that it is not. *)
LEMMA AskAnswered ==
  ASSUME TypeInv, NEW t \in Term, Viewer(t), NEW type \in Asks, Take(t, type), UNCHANGED termVars,
         NEW s \in Sid, s = Head(outbox[t]).sid,
         \/ /\ s \in sessions' /\ t \in ports'[s]
            /\ \A i \in 1..Len(inbox'[t]) : inbox'[t][i].sid = s => inbox'[t][i].type \in News
         \/ /\ s \notin sessions'
            /\ \A i \in 1..Len(inbox'[t]) : inbox'[t][i].sid = s => inbox'[t][i].type \in Ends
            /\ \E i \in 1..Len(inbox'[t]) : inbox'[t][i].sid = s /\ inbox'[t][i].type \in Ends
  PROVE  Viewer(t)'
<1>1. Head(outbox[t]).type = type
  BY DEF Take
<1>2. /\ 1 \in 1..Len(outbox[t]) /\ outbox[t][1].type = type /\ outbox[t][1].sid = s
      /\ \A i \in 1..Len(outbox'[t]) : /\ i + 1 \in 1..Len(outbox[t]) /\ i + 1 # 1
                                       /\ outbox'[t][i] = outbox[t][i + 1]
  BY <1>1, OutboxTail
<1>3. /\ active[t] = s /\ phase[t] \in Live
      /\ \A j \in 1..Len(outbox[t]) : outbox[t][j].type \in Asks => j = 1
  BY <1>2 DEF Viewer, Asked, Live
<1>4. active'[t] = s /\ phase'[t] \in Live
  BY <1>3 DEF termVars
<1>5. \A i \in 1..Len(outbox'[t]) : outbox'[t][i].type \notin Asks
  BY <1>2, <1>3
<1>6. Asked(t)'
  BY <1>5 DEF Asked
<1>7. GivesUp(t)'
  BY <1>2, <1>3, <1>4 DEF Viewer, GivesUp
<1>8. News \cap Farewells = {}
  BY DEF News, Farewells, Ends
<1>9. CASE s \in sessions'
  <2>1. \A i \in 1..Len(inbox'[t]) : inbox'[t][i].sid = s => inbox'[t][i].type \notin Farewells
    BY <1>8, <1>9
  <2>2. Heard(t)'
    <3> SUFFICES ASSUME NEW i \in 1..Len(inbox'[t])
                 PROVE  \A j \in 1..(i - 1) : inbox'[t][j].sid = s => inbox'[t][j].type \notin Farewells
      BY <1>4 DEF Heard
    <3>1. Len(inbox'[t]) \in Nat \/ Len(inbox'[t]) \notin Nat
      OBVIOUS
    <3>2. \A j \in 1..(i - 1) : j \in 1..Len(inbox'[t])
      OBVIOUS
    <3> QED
      BY <2>1, <3>2
  <2>3. Stays(t)' /\ Informed(t)'
    BY <1>4, <1>9, <2>1 DEF Stays, Informed
  <2> QED
    BY <1>6, <1>7, <2>2, <2>3 DEF Viewer
<1>10. CASE s \notin sessions'
  <2>1. Heard(t)'
    BY <1>4, <1>8, <1>10 DEF Heard, Farewells
  <2>2. Stays(t)' /\ Informed(t)'
    BY <1>4, <1>10 DEF Stays, Informed, Over
  <2> QED
    BY <1>6, <1>7, <2>1, <2>2 DEF Viewer
<1> QED
  BY <1>9, <1>10

(* The worker takes another message than the one that asks.                *)
LEMMA ViewerSpoke ==
  ASSUME TypeInv, NEW t \in Term, Viewer(t), NEW type, type \notin Asks, Take(t, type),
         UNCHANGED termVars, inbox' = inbox,
         \A s \in Sid : s = active[t] =>
           /\ t \in ports'[s] <=> t \in ports[s]
           /\ t \in ports[s] /\ Over(s) => Over(s)'
           /\ t \in ports[s] /\ s \in sessions => s \in sessions'
  PROVE  Viewer(t)'
<1>1. /\ \A i \in 1..Len(outbox'[t]) : /\ i + 1 \in 1..Len(outbox[t]) /\ i + 1 # 1
                                       /\ outbox'[t][i] = outbox[t][i + 1]
      /\ \A i \in 1..Len(outbox[t]) : i # 1 =>
           i - 1 \in 1..Len(outbox'[t]) /\ outbox'[t][i - 1] = outbox[t][i]
      /\ 1 \in 1..Len(outbox[t]) /\ outbox[t][1].type = type
  BY OutboxTail DEF Take
<1>2. /\ \A i \in 1..Len(outbox[t]) : outbox[t][i].sid \in Sid
      /\ sessions \subseteq Sid
      /\ \A i \in 1..Len(outbox'[t]) : i \in Nat
  BY OutboxSids DEF TypeInv, TypeOK, WorkerOK
<1>3. phase' = phase /\ active' = active /\ queued' = queued
  BY DEF termVars
<1>4. Heard(t)' /\ GivesUp(t)'
  BY <1>1, <1>3 DEF Viewer, Heard, GivesUp
<1>5. Asked(t)'
  <2> SUFFICES ASSUME NEW i \in 1..Len(outbox'[t]), outbox'[t][i].type \in Asks
               PROVE  /\ outbox'[t][i].sid = active[t] /\ phase[t] = "connecting" /\ queued[t] = <<>>
                      /\ t \notin ports'[active[t]]
                      /\ \A j \in 1..Len(inbox[t]) : inbox[t][j].sid # active[t]
                      /\ \A j \in 1..Len(outbox'[t]) : outbox'[t][j].type \in Asks => j = i
    BY <1>3 DEF Asked
  <2>1. i + 1 \in 1..Len(outbox[t]) /\ outbox[t][i + 1].type \in Asks /\ outbox'[t][i].sid = outbox[t][i + 1].sid
    BY <1>1
  <2>2. /\ outbox[t][i + 1].sid = active[t] /\ phase[t] = "connecting" /\ queued[t] = <<>>
        /\ t \notin ports[active[t]]
        /\ \A j \in 1..Len(inbox[t]) : inbox[t][j].sid # active[t]
        /\ \A j \in 1..Len(outbox[t]) : outbox[t][j].type \in Asks => j = i + 1
    BY <2>1 DEF Viewer, Asked
  <2>3. \A j \in 1..Len(outbox'[t]) : outbox'[t][j].type \in Asks => j = i
    <3> SUFFICES ASSUME NEW j \in 1..Len(outbox'[t]), outbox'[t][j].type \in Asks
                 PROVE  j = i
      OBVIOUS
    <3>1. j + 1 = i + 1
      BY <1>1, <2>2
    <3> QED
      BY <1>2, <3>1
  <2> QED
    BY <1>2, <2>1, <2>2, <2>3
<1>6. Stays(t)'
  <2> SUFFICES ASSUME active'[t] \in Sid, t \in ports'[active'[t]], ~Over(active[t])'
               PROVE  /\ phase[t] \in Live
                      /\ \A j \in 1..Len(inbox[t]) :
                           inbox[t][j].sid = active[t] => inbox[t][j].type \notin Farewells
    BY <1>3 DEF Stays
  <2>1. PICK s \in Sid : s = active[t]
    BY <1>3
  <2>2. ~Over(s)'
    BY <1>3, <2>1 DEF Over
  <2>3. ~Over(s) /\ t \in ports[s]
    BY <1>3, <2>1, <2>2
  <2> QED
    BY <2>1, <2>3 DEF Viewer, Stays
<1>7. Informed(t)'
  <2> SUFFICES ASSUME phase[t] \in Live
               PROVE  \/ \E i \in 1..Len(outbox'[t]) : outbox'[t][i].type \in Asks /\ outbox'[t][i].sid = active[t]
                      \/ active[t] \in sessions' /\ t \in ports'[active[t]]
                      \/ \E i \in 1..Len(inbox[t]) : inbox[t][i].type \in Ends /\ inbox[t][i].sid = active[t]
    BY <1>3 DEF Informed
  <2>1. CASE \E i \in 1..Len(outbox[t]) : outbox[t][i].type \in Asks /\ outbox[t][i].sid = active[t]
    BY <1>1, <2>1
  <2>2. CASE active[t] \in sessions /\ t \in ports[active[t]]
    BY <1>2, <2>2
  <2> QED
    BY <2>1, <2>2 DEF Viewer, Informed
<1> QED
  BY <1>4, <1>5, <1>6, <1>7 DEF Viewer

LEMMA OverIsKept ==
  ASSUME NEW s \in Sid, UNCHANGED <<got, sent>>, s \in sessions' => s \in sessions
  PROVE  Over(s) => Over(s)'
  BY DEF Over

LEMMA AfterPort ==
  ASSUME SpokenInv, NamesInv, ViewersInv, NEW t \in Term, PortStep(t), UNCHANGED <<got, sent>>,
         t \in alive => Viewer(t)',
         NEW type, Take(t, type),
         \A u \in Term \ {t} : inbox'[u] = inbox[u],
         \A u \in Term \ {t}, s \in Sid :
           /\ u \in ports'[s] <=> u \in ports[s]
           /\ u \in ports[s] /\ Over(s) => Over(s)'
           /\ u \in ports[s] /\ s \in sessions => s \in sessions'
  PROVE  ViewersInv'
<1>1. TypeInv /\ UNCHANGED termVars /\ UNCHANGED alive /\ \A s \in Sid : Advance(s)
  <2>1. TypeInv /\ UNCHANGED termVars /\ [Next]_vars
    BY DEF SpokenInv, PortStep, Next
  <2> QED
    BY <2>1, Advances DEF Take
<1>2. /\ \A u \in Term \ {t} : outbox'[u] = outbox[u]
      /\ outbox[t] # <<>>
  BY <1>1, OutboxTaken DEF Take
<1>3. \A u \in Term : Queue(u)'
  BY <1>1 DEF ViewersInv, Queue, termVars, Advance
<1>4. \A u \in alive \ {t} : Viewer(u)'
  <2>1. alive \subseteq Term
    BY <1>1 DEF TypeInv, TypeOK, PortsOK
  <2> QED
    BY <1>1, <1>2, <2>1, ViewerKept DEF ViewersInv, termVars
<1>5. \A u \in Term \ alive : Unheard(u)'
  BY <1>1, <1>2 DEF ViewersInv, Unheard, termVars
<1> QED
  BY <1>1, <1>3, <1>4, <1>5 DEF ViewersInv

(* attachToSession lets the viewer in, or says that there is no session.   *)
LEMMA AttachAnswers ==
  ASSUME SpokenInv, NEW t \in alive, Viewer(t), NEW type \in Asks, Take(t, type),
         NEW s \in Sid, s = Head(outbox[t]).sid, AttachTo(t, s), UNCHANGED <<termVars, sessions>>
  PROVE  Viewer(t)'
<1>1. TypeInv /\ t \in Term
  BY DEF SpokenInv, TypeInv, TypeOK, PortsOK
<1>2. \A i \in 1..Len(inbox[t]) : inbox[t][i].sid # s
  <2>1. 1 \in 1..Len(outbox[t]) /\ outbox[t][1].type = type /\ outbox[t][1].sid = s
    BY <1>1, OutboxTail DEF Take
  <2> QED
    BY <2>1 DEF Viewer, Asked
<1>3. /\ s \in sessions => t \in ports'[s]
      /\ \A i \in 1..Len(inbox'[t]) : inbox'[t][i].sid = s =>
           inbox'[t][i].type \in (IF s \in sessions THEN News ELSE Ends)
      /\ s \notin sessions => \E i \in 1..Len(inbox'[t]) : inbox'[t][i].sid = s /\ inbox'[t][i].type \in Ends
  <2>1. s \in sessions => t \in ports'[s]
    BY <1>1, Attaching DEF TypeInv, TypeOK, WorkerOK
  <2>2. CASE s \in sessions /\ buffer[s] = <<>>
    <3>1. inbox' = inbox
      BY <1>1, <2>2, Attaching
    <3> QED
      BY <1>2, <2>1, <2>2, <3>1
  <2>3. CASE ~(s \in sessions /\ buffer[s] = <<>>)
    <3>1. PICK P \in SUBSET Term, ms \in Seq(Outbound) :
            /\ P = {t} /\ Post(P, ms)
            /\ \A k \in 1..Len(ms) : ms[k].sid = s
            /\ s \notin sessions =>
                 Len(ms) = 1 /\ ms[1].type = "error" /\ ms[1].data = <<>>
            /\ s \in sessions =>
                 /\ Len(ms) = 2
                 /\ ms[1].type = "ready" /\ ms[1].data = <<>>
                 /\ ms[2].type = "output" /\ ms[2].data = buffer[s]
      BY <1>1, <2>3, Attaching
    <3>2. /\ Len(inbox[t]) \in Nat
          /\ Len(inbox'[t]) = Len(inbox[t]) + Len(ms)
          /\ \A i \in 1..Len(inbox[t]) : inbox'[t][i] = inbox[t][i]
          /\ \A i \in 1..Len(inbox'[t]) :
               i \in 1..Len(inbox[t]) \/
                 (i - Len(inbox[t]) \in 1..Len(ms) /\ inbox'[t][i] = ms[i - Len(inbox[t])])
      BY <1>1, <3>1, InboxGrows
    <3>3. \A k \in 1..Len(ms) : ms[k].type \in (IF s \in sessions THEN News ELSE Ends)
      BY <3>1 DEF News, Ends
    <3>4. \A i \in 1..Len(inbox'[t]) : inbox'[t][i].sid = s =>
            inbox'[t][i].type \in (IF s \in sessions THEN News ELSE Ends)
      BY <1>2, <3>2, <3>3
    <3>5. s \notin sessions =>
            \E i \in 1..Len(inbox'[t]) : inbox'[t][i].sid = s /\ inbox'[t][i].type \in Ends
      <4> SUFFICES ASSUME s \notin sessions
                   PROVE  \E i \in 1..Len(inbox'[t]) : inbox'[t][i].sid = s /\ inbox'[t][i].type \in Ends
        OBVIOUS
      <4>1. Len(ms) = 1 /\ ms[1].sid = s /\ ms[1].type \in Ends
        <5>1. Len(ms) = 1 /\ ms[1].type = "error"
          BY <3>1
        <5>2. \A k \in 1..1 : ms[k].sid = s
          BY <3>1, <5>1
        <5> QED
          BY <5>1, <5>2 DEF Ends
      <4>2. Len(inbox[t]) + 1 \in 1..Len(inbox'[t]) /\ ~(Len(inbox[t]) + 1 \in 1..Len(inbox[t]))
        BY <3>2, <4>1
      <4>3. inbox'[t][Len(inbox[t]) + 1] = ms[1]
        BY <3>2, <4>1, <4>2
      <4> QED
        BY <4>1, <4>2, <4>3
    <3> QED
      BY <2>1, <3>4, <3>5
  <2> QED
    BY <2>2, <2>3
<1> QED
  BY <1>1, <1>3, AskAnswered

LEMMA ViewersPort ==
  ASSUME SpokenInv, NamesInv, ViewersInv, NEW t \in Term, PortStep(t)
  PROVE  ViewersInv'
<1>1. TypeInv /\ UNCHANGED termVars /\ (t \in alive => Viewer(t)) /\ UNCHANGED <<got, sent>>
  BY DEF SpokenInv, PortStep, ViewersInv, CreateSession, AttachToSession, ForwardInput, DetachPort, workerVars
<1> USE DEF TypeInv, TypeOK, PortsOK, WorkerOK
<1>2. ASSUME NEW s \in Sid, NEW type \in Asks, Take(t, type), s = Head(outbox[t]).sid, AttachTo(t, s),
             UNCHANGED sessions
      PROVE  ViewersInv'
  <2>1. t \in alive => Viewer(t)'
    BY <1>1, <1>2, AttachAnswers
  <2>2. \A u \in Term \ {t} : inbox'[u] = inbox[u]
    BY <1>2 DEF AttachTo, Post
  <2>3. \A u \in Term \ {t}, r \in Sid : u \in ports'[r] <=> u \in ports[r]
    <3>1. UNCHANGED ports \/ ports' = [ports EXCEPT ![s] = ports[s] \cup {t}]
      BY <1>2 DEF AttachTo
    <3> QED
      BY <1>1, <3>1
  <2>4. \A r \in Sid : Over(r) => Over(r)'
    BY <1>1, <1>2, OverIsKept
  <2> QED
    BY <1>1, <1>2, <2>1, <2>2, <2>3, <2>4, AfterPort
<1>3. CASE CreateSession(t)
  <2>1. PICK s \in Sid : s = Head(outbox[t]).sid /\ Take(t, "create")
    BY <1>1, <1>3, TakenIsTyped DEF CreateSession
  <2>2. 1 \in DOMAIN outbox[t] /\ outbox[t][1] = Head(outbox[t]) /\ Head(outbox[t]).type = "create"
    BY <1>1, <2>1, OutboxTaken
  <2>3. ws[s] = "none" /\ s \notin sessions /\ ports[s] = {}
    BY <2>1, <2>2 DEF SpokenInv, MintInv, SocketsInv, Socket
  <2>4. /\ sessions' = sessions \cup {s}
        /\ ports' = [ports EXCEPT ![s] = {t}]
        /\ inbox' = inbox
    BY <1>3, <2>1, <2>3 DEF CreateSession
  <2>5. /\ ports'[s] = {t} /\ \A r \in Sid \ {s} : ports'[r] = ports[r]
    BY <1>1, <2>4
  <2>6. t \in alive => Viewer(t)'
    <3> SUFFICES ASSUME t \in alive
                 PROVE  Viewer(t)'
      OBVIOUS
    <3>1. 1 \in 1..Len(outbox[t]) /\ outbox[t][1].type = "create" /\ outbox[t][1].sid = s
      BY <1>1, <2>1, OutboxTail DEF Take
    <3>2. \A i \in 1..Len(inbox'[t]) : inbox'[t][i].sid # s
      BY <1>1, <2>4, <3>1 DEF Viewer, Asked, Asks
    <3> QED
      BY <1>1, <2>1, <2>4, <2>5, <3>2, AskAnswered DEF Asks
  <2>7. \A u \in Term \ {t}, r \in Sid : u \in ports'[r] <=> u \in ports[r]
    BY <2>3, <2>5
  <2>8. \A u \in Term \ {t}, r \in Sid : u \in ports[r] /\ Over(r) => Over(r)'
    <3>1. \A r \in Sid \ {s} : Over(r) => Over(r)'
      BY <1>1, <2>4, OverIsKept
    <3> QED
      BY <2>3, <3>1
  <2> QED
    BY <1>1, <2>1, <2>4, <2>6, <2>7, <2>8, AfterPort
<1>4. CASE AttachToSession(t)
  <2>1. PICK s \in Sid : s = Head(outbox[t]).sid /\ Take(t, "attach")
    BY <1>1, <1>4, TakenIsTyped DEF AttachToSession
  <2> QED
    BY <1>2, <1>4, <2>1 DEF AttachToSession, Asks
<1>5. CASE ForwardInput(t)
  <2>1. UNCHANGED <<inbox, sessions, ports>>
    BY <1>5 DEF ForwardInput, workerVars
  <2>2. PICK type \in {"input", "resize"} : Take(t, type)
    BY <1>5 DEF ForwardInput
  <2>3. \A r \in Sid : Over(r) => Over(r)'
    BY <1>1, <2>1, OverIsKept
  <2>4. t \in alive => Viewer(t)'
    BY <1>1, <2>1, <2>2, <2>3, ViewerSpoke DEF Asks
  <2> QED
    BY <1>1, <2>1, <2>2, <2>3, <2>4, AfterPort
<1>6. CASE DetachPort(t)
  <2>1. PICK s \in Sid : s = Head(outbox[t]).sid /\ Take(t, "detach")
    BY <1>1, <1>6, TakenIsTyped DEF DetachPort
  <2>2. /\ inbox' = inbox /\ sessions' \subseteq sessions
        /\ \A u \in Term, r \in Sid : u # t \/ r # s => (u \in ports'[r] <=> u \in ports[r])
        /\ \A u \in Term, r \in Sid : (u # t \/ r # s) /\ u \in ports[r] /\ r \in sessions => r \in sessions'
    <3>1. inbox' = inbox
      BY <1>6 DEF DetachPort
    <3>2. CASE s \notin sessions
      <4>1. UNCHANGED <<sessions, ports>>
        BY <1>6, <2>1, <3>2 DEF DetachPort
      <4> QED
        BY <3>1, <4>1
    <3>3. CASE s \in sessions
      <4>1. /\ ports' = [ports EXCEPT ![s] = ports[s] \ {t}]
            /\ sessions' = sessions \/ (sessions' = sessions \ {s} /\ ports[s] \ {t} = {})
        BY <1>6, <2>1, <3>3 DEF DetachPort
      <4> QED
        BY <1>1, <3>1, <4>1
    <3> QED
      BY <3>2, <3>3
  <2>3. \A r \in Sid : Over(r) => Over(r)'
    BY <1>1, <2>2, OverIsKept
  <2>4. t \in alive => Viewer(t)'
    <3> SUFFICES ASSUME t \in alive
                 PROVE  Viewer(t)'
      OBVIOUS
    <3>1. 1 \in 1..Len(outbox[t]) /\ outbox[t][1].type = "detach" /\ outbox[t][1].sid = s
      BY <1>1, <2>1, OutboxTail DEF Take
    <3>2. active[t] # s
      BY <1>1, <3>1 DEF Viewer, GivesUp
    <3> QED
      BY <1>1, <2>1, <2>2, <2>3, <3>2, ViewerSpoke DEF Asks
  <2> QED
    BY <1>1, <2>1, <2>2, <2>3, <2>4, AfterPort
<1> QED
  BY <1>3, <1>4, <1>5, <1>6 DEF PortStep

(* What a socket's event posts to the session's viewers. *)
LEMMA ViewerTold ==
  ASSUME TypeInv, NEW u \in alive, Viewer(u), NEW s \in Sid, NEW ms \in Seq(Outbound),
         Post(ports[s], ms), UNCHANGED <<termVars, alive, outbox, ports>>,
         \A k \in 1..Len(ms) : ms[k].sid = s /\ (ms[k].type \in News \/ ms[k].type \in Farewells),
         \A k \in 1..Len(ms) : ms[k].type \in News => ~Over(s) /\ Len(ms) = 1,
         \A k \in 1..Len(ms) : ms[k].type \in Farewells => Over(s)',
         s \in sessions /\ s \notin sessions' => \E k \in 1..Len(ms) : ms[k].type \in Ends,
         \A r \in Sid : Over(r) => Over(r)',
         \A r \in Sid \ {s} : r \in sessions => r \in sessions'
  PROVE  Viewer(u)'
<1>1. /\ u \in Term /\ phase' = phase /\ active' = active /\ queued' = queued
      /\ outbox' = outbox /\ ports' = ports
      /\ sessions \subseteq Sid
      /\ \A i \in 1..Len(outbox[u]) : outbox[u][i].sid \in Sid
  BY OutboxSids DEF termVars, TypeInv, TypeOK, PortsOK, WorkerOK
<1>2. CASE u \notin ports[s]
  <2>1. inbox'[u] = inbox[u]
    BY <1>1, <1>2, InboxGrows
  <2>2. \A r \in Sid : u \in ports[r] /\ r \in sessions => r \in sessions'
    BY <1>2
  <2> QED
    BY <1>1, <2>1, <2>2, ViewerKept
<1>3. CASE u \in ports[s]
  <2>1. /\ Len(inbox[u]) \in Nat /\ Len(ms) \in Nat
        /\ Len(inbox'[u]) = Len(inbox[u]) + Len(ms)
        /\ \A i \in 1..Len(inbox[u]) : inbox'[u][i] = inbox[u][i]
        /\ \A i \in 1..Len(inbox'[u]) :
             i \in 1..Len(inbox[u]) \/
               (i - Len(inbox[u]) \in 1..Len(ms) /\ inbox'[u][i] = ms[i - Len(inbox[u])])
    BY <1>1, <1>3, InboxGrows
  <2>2. \A k \in 1..Len(ms) : Len(inbox[u]) + k \in 1..Len(inbox'[u]) /\ inbox'[u][Len(inbox[u]) + k] = ms[k]
    <3> SUFFICES ASSUME NEW k \in 1..Len(ms)
                 PROVE  Len(inbox[u]) + k \in 1..Len(inbox'[u]) /\ inbox'[u][Len(inbox[u]) + k] = ms[k]
      OBVIOUS
    <3>1. /\ Len(inbox[u]) + k \in 1..Len(inbox'[u]) /\ ~(Len(inbox[u]) + k \in 1..Len(inbox[u]))
          /\ (Len(inbox[u]) + k) - Len(inbox[u]) = k
      BY <2>1
    <3> QED
      BY <2>1, <3>1
  <2>3. GivesUp(u)'
    BY <1>1 DEF Viewer, GivesUp
  <2>4. Asked(u)'
    <3> SUFFICES ASSUME NEW i \in 1..Len(outbox[u]), outbox[u][i].type \in Asks
                 PROVE  /\ outbox[u][i].sid = active[u] /\ phase[u] = "connecting" /\ queued[u] = <<>>
                        /\ u \notin ports[active[u]]
                        /\ \A j \in 1..Len(inbox'[u]) : inbox'[u][j].sid # active[u]
                        /\ \A j \in 1..Len(outbox[u]) : outbox[u][j].type \in Asks => j = i
      BY <1>1 DEF Asked
    <3>1. /\ outbox[u][i].sid = active[u] /\ phase[u] = "connecting" /\ queued[u] = <<>>
          /\ u \notin ports[active[u]]
          /\ \A j \in 1..Len(inbox[u]) : inbox[u][j].sid # active[u]
          /\ \A j \in 1..Len(outbox[u]) : outbox[u][j].type \in Asks => j = i
      BY DEF Viewer, Asked
    <3>2. active[u] # s
      BY <1>3, <3>1
    <3> QED
      BY <2>1, <3>1, <3>2
  <2>5. Heard(u)'
    <3> SUFFICES ASSUME NEW i \in 1..Len(inbox'[u]),
                        inbox'[u][i].sid = active[u], inbox'[u][i].type \in News
                 PROVE  /\ phase[u] \in Live
                        /\ \A j \in 1..(i - 1) :
                             inbox'[u][j].sid = active[u] => inbox'[u][j].type \notin Farewells
      BY <1>1 DEF Heard
    <3>1. CASE i \in 1..Len(inbox[u])
      <4>1. \A j \in 1..(i - 1) : inbox'[u][j] = inbox[u][j]
        <5>1. \A j \in 1..(i - 1) : j \in 1..Len(inbox[u])
          BY <2>1, <3>1
        <5> QED
          BY <2>1, <5>1
      <4>2. inbox[u][i].sid = active[u] /\ inbox[u][i].type \in News
        BY <2>1, <3>1
      <4> QED
        BY <3>1, <4>1, <4>2 DEF Viewer, Heard
    <3>2. CASE i \notin 1..Len(inbox[u])
      <4>1. i - Len(inbox[u]) \in 1..Len(ms) /\ inbox'[u][i] = ms[i - Len(inbox[u])]
        BY <2>1, <3>2
      <4>2. active[u] = s /\ ~Over(s) /\ Len(ms) = 1
        BY <4>1
      <4>3. i = Len(inbox[u]) + 1
        BY <2>1, <4>1, <4>2
      <4>4. \A j \in 1..(i - 1) : j \in 1..Len(inbox[u]) /\ inbox'[u][j] = inbox[u][j]
        BY <2>1, <4>3
      <4> QED
        BY <1>3, <4>2, <4>4 DEF Viewer, Stays
    <3> QED
      BY <3>1, <3>2
  <2>6. Stays(u)'
    <3> SUFFICES ASSUME active[u] \in Sid, u \in ports[active[u]], ~Over(active[u])'
                 PROVE  /\ phase[u] \in Live
                        /\ \A j \in 1..Len(inbox'[u]) :
                             inbox'[u][j].sid = active[u] => inbox'[u][j].type \notin Farewells
      BY <1>1 DEF Stays
    <3>1. PICK a \in Sid : a = active[u]
      OBVIOUS
    <3>2. ~Over(a)'
      BY <1>1, <3>1 DEF Over
    <3>3. ~Over(a)
      BY <3>2
    <3>4. /\ phase[u] \in Live
          /\ \A j \in 1..Len(inbox[u]) : inbox[u][j].sid = a => inbox[u][j].type \notin Farewells
      BY <3>1, <3>3 DEF Viewer, Stays
    <3>5. \A k \in 1..Len(ms) : ms[k].sid = a => ms[k].type \notin Farewells
      BY <3>2
    <3> QED
      BY <2>1, <3>1, <3>4, <3>5
  <2>7. Informed(u)'
    <3> SUFFICES ASSUME phase[u] \in Live
                 PROVE  \/ \E i \in 1..Len(outbox[u]) : outbox[u][i].type \in Asks /\ outbox[u][i].sid = active[u]
                        \/ active[u] \in sessions' /\ u \in ports[active[u]]
                        \/ \E i \in 1..Len(inbox'[u]) : inbox'[u][i].type \in Ends /\ inbox'[u][i].sid = active[u]
      BY <1>1 DEF Informed
    <3>1. CASE active[u] \in sessions /\ u \in ports[active[u]]
      <4>1. CASE active[u] \in sessions'
        BY <3>1, <4>1
      <4>2. CASE active[u] \notin sessions'
        <5>1. active[u] = s
          BY <1>1, <3>1, <4>2
        <5>2. PICK k \in 1..Len(ms) : ms[k].type \in Ends
          BY <3>1, <4>2, <5>1
        <5> QED
          BY <2>2, <5>1, <5>2
      <4> QED
        BY <4>1, <4>2
    <3>2. CASE \E i \in 1..Len(inbox[u]) : inbox[u][i].type \in Ends /\ inbox[u][i].sid = active[u]
      <4>1. \A i \in 1..Len(inbox[u]) : i \in 1..Len(inbox'[u]) /\ inbox'[u][i] = inbox[u][i]
        BY <2>1
      <4> QED
        BY <3>2, <4>1
    <3> QED
      BY <3>1, <3>2 DEF Viewer, Informed
  <2> QED
    BY <2>3, <2>4, <2>5, <2>6, <2>7 DEF Viewer
<1> QED
  BY <1>2, <1>3

LEMMA AfterSocket ==
  ASSUME SpokenInv, NamesInv, ViewersInv, [Next]_vars, UNCHANGED <<termVars, alive, outbox, ports>>,
         \A u \in alive : Viewer(u)'
  PROVE  ViewersInv'
<1>1. TypeInv /\ \A s \in Sid : Advance(s)
  BY Advances DEF SpokenInv
<1>2. \A u \in Term : Queue(u)'
  BY <1>1 DEF ViewersInv, Queue, termVars, Advance
<1>3. \A u \in Term \ alive : Unheard(u)'
  BY DEF ViewersInv, Unheard, termVars
<1> QED
  BY <1>2, <1>3 DEF ViewersInv

LEMMA ViewersSocket ==
  ASSUME SpokenInv, NamesInv, ViewersInv, NEW s \in Sid, SocketStep(s) \/ GatewayStep(s)
  PROVE  ViewersInv'
<1>1. UNCHANGED termVars /\ TypeInv /\ [Next]_vars /\ \A r \in Sid : Advance(r)
  <2>1. UNCHANGED termVars /\ TypeInv /\ [Next]_vars
    BY DEF SocketStep, GatewayStep, SpokenInv, Next
  <2> QED
    BY <2>1, Advances
<1>2. UNCHANGED <<alive, outbox, ports>>
  BY DEF SocketStep, GatewayStep, WsOpen, WsFailed, WsMessage, WsClosing, WsLost, WsGone,
         GatewayTakesInit, GatewaySends, portVars
<1>3. alive \subseteq Term /\ \A u \in alive : Viewer(u)
  BY <1>1 DEF TypeInv, TypeOK, PortsOK, ViewersInv
<1>4. /\ \A r \in Sid : got[r] \in Nat /\ got[r] <= Len(sent[r]) /\ Len(sent[r]) \in Nat
      /\ \A r \in Sid : \A i \in 1..got[r] : sent'[r][i] = sent[r][i]
  BY <1>1 DEF SpokenInv, SocketsInv, Socket, TypeInv, TypeOK, WorkerOK, Peer!TypeOK, Advance
<1>5. CASE UNCHANGED <<inbox, sessions, got>>
  <2>1. \A r \in Sid : Over(r) => Over(r)'
    BY <1>4, <1>5 DEF Over
  <2>2. \A u \in alive : Viewer(u)'
    BY <1>1, <1>2, <1>3, <1>5, <2>1, ViewerKept DEF termVars
  <2> QED
    BY <1>1, <1>2, <2>2, AfterSocket
<1>6. ASSUME NEW errors \in {<<>>, <<Tell("error", s)>>}, Closing(s, errors), got' = got
      PROVE  ViewersInv'
  <2>1. PICK ms \in Seq(Outbound) :
          /\ Post(ports[s], ms)
          /\ \A k \in 1..Len(ms) : ms[k].sid = s /\ ms[k].type \in Ends /\ ms[k].data = <<>>
          /\ s \in sessions => \E k \in 1..Len(ms) : ms[k].type = "closed"
    BY <1>1, <1>6, ClosingPosts
  <2>2. sessions' = sessions \ {s}
    BY <1>6 DEF Closing
  <2>3. Over(s)' /\ \A r \in Sid : Over(r) => Over(r)'
    BY <1>4, <1>6, <2>2 DEF Over
  <2>4. /\ \A k \in 1..Len(ms) : ms[k].type \in Farewells /\ ms[k].type \notin News
        /\ s \in sessions => \E k \in 1..Len(ms) : ms[k].type \in Ends
    BY <2>1 DEF Farewells, News, Ends
  <2>5. \A u \in alive : Viewer(u)'
    BY <1>1, <1>2, <1>3, <2>1, <2>2, <2>3, <2>4, ViewerTold
  <2> QED
    BY <1>1, <1>2, <2>5, AfterSocket
<1>7. CASE WsOpen(s) \/ WsClosing(s) \/ GatewayStep(s)
  BY <1>5, <1>7 DEF WsOpen, WsClosing, GatewayStep, GatewayTakesInit, GatewaySends, portVars
<1>8. CASE WsMessage(s)
  <2> DEFINE m == sent[s][got[s] + 1]
  <2>1. /\ got[s] \in Nat /\ got[s] + 1 \in 1..Len(sent[s]) /\ got'[s] = got[s] + 1
        /\ \A r \in Sid \ {s} : got'[r] = got[r]
        /\ s \in sessions /\ sent' = sent
        /\ m \in Peer!ServerMsg
        /\ \A i \in 1..got[s] : sent[s][i].type \notin Farewells
    <3>1. TypeInv /\ SocketsInv
      BY DEF SpokenInv
    <3> QED
      BY <1>8, <3>1, Arriving DEF Farewells
  <2>2. ~Over(s)
    BY <2>1 DEF Over
  <2>3. PICK n \in Outbound : /\ n.sid = s /\ n.type = m.type /\ Post(ports[s], <<n>>)
                              /\ n.type \in News \/ n.type \in Farewells
                              /\ n.type \in News => n.type \notin Farewells
                              /\ sessions' = IF n.type = "closed" THEN sessions \ {s} ELSE sessions
    <3>1. CASE OnServerOutput(s, m)
      <4> DEFINE c == [sid |-> s, pos |-> got[s] + 1]
      <4>1. <<c>> \in Seq(Chunk) /\ m.type = "output"
        BY <2>1, <3>1 DEF Chunk, OnServerOutput
      <4>2. Show(s, <<c>>) \in Outbound /\ Show(s, <<c>>).sid = s /\ Show(s, <<c>>).type = m.type
        BY <4>1, ShowIs
      <4> QED
        BY <3>1, <4>1, <4>2 DEF OnServerOutput, News, Farewells, Ends
    <3>2. CASE OnServerNews(s, m) \/ OnServerClosed(s, m)
      <4>1. /\ m.type \in {"ready", "error", "needs-credentials", "closed"} /\ Post(ports[s], <<Tell(m.type, s)>>)
            /\ sessions' = IF m.type = "closed" THEN sessions \ {s} ELSE sessions
        BY <3>2 DEF OnServerNews, OnServerClosed
      <4>2. Tell(m.type, s) \in Outbound /\ Tell(m.type, s).sid = s /\ Tell(m.type, s).type = m.type
        BY <4>1, TellIs
      <4>3. m.type \in News \cup Farewells /\ (m.type \in News => m.type \notin Farewells)
        BY <4>1 DEF News, Farewells, Ends
      <4> QED
        BY <4>1, <4>2, <4>3
    <3> QED
      BY <1>8, <3>1, <3>2 DEF WsMessage
  <2> HIDE DEF m
  <2>4. n.type \in Farewells => Over(s)'
    <3>1. got[s] + 1 \in 1..(got[s] + 1) /\ sent'[s][got[s] + 1].type = n.type
      BY <2>1, <2>3 DEF m
    <3> QED
      BY <2>1, <3>1 DEF Over
  <2>5. \A r \in Sid : Over(r) => Over(r)'
    BY <2>1, <2>2, <2>3 DEF Over
  <2>6. s \in sessions /\ s \notin sessions' => n.type \in Ends
    BY <2>3 DEF Ends
  <2>7. /\ <<n>> \in Seq(Outbound) /\ Len(<<n>>) = 1
        /\ \A k \in 1..Len(<<n>>) : <<n>>[k] = n
        /\ 1 \in 1..Len(<<n>>)
    OBVIOUS
  <2>8. \A r \in Sid \ {s} : r \in sessions => r \in sessions'
    BY <2>3
  <2> DEFINE ms == <<n>>
  <2> HIDE DEF ms
  <2>9. /\ ms \in Seq(Outbound) /\ Post(ports[s], ms)
        /\ \A k \in 1..Len(ms) : ms[k].sid = s /\ (ms[k].type \in News \/ ms[k].type \in Farewells)
        /\ \A k \in 1..Len(ms) : ms[k].type \in News => ~Over(s) /\ Len(ms) = 1
        /\ \A k \in 1..Len(ms) : ms[k].type \in Farewells => Over(s)'
        /\ s \in sessions /\ s \notin sessions' => \E k \in 1..Len(ms) : ms[k].type \in Ends
    BY <2>2, <2>3, <2>4, <2>6, <2>7 DEF ms
  <2>10. \A u \in alive : Viewer(u)'
    BY <1>1, <1>2, <1>3, <2>5, <2>8, <2>9, ViewerTold
  <2> QED
    BY <1>1, <1>2, <2>10, AfterSocket
<1>9. CASE WsFailed(s) \/ WsLost(s) \/ WsGone(s)
  BY <1>6, <1>9 DEF WsFailed, WsLost, WsGone
<1> QED
  BY <1>7, <1>8, <1>9 DEF SocketStep

LEMMA ViewersStep ==
  ASSUME SpokenInv, NamesInv, ViewersInv, [Next]_vars
  PROVE  ViewersInv'
<1>1. CASE UNCHANGED vars
  <2>1. UNCHANGED <<portVars, termVars, workerVars>> /\ TypeInv /\ \A s \in Sid : Advance(s)
    <3>1. UNCHANGED <<portVars, termVars, workerVars>> /\ TypeInv /\ [Next]_vars
      BY <1>1 DEF vars, SpokenInv
    <3> QED
      BY <3>1, Advances
  <2>2. alive' = alive /\ alive \subseteq Term /\ \A s \in Sid : Over(s) => Over(s)'
    BY <2>1, OverKept DEF portVars, workerVars, TypeInv, TypeOK, PortsOK
  <2>3. \A u \in alive : Viewer(u)'
    BY <2>1, <2>2, ViewerKept DEF ViewersInv, portVars, termVars, workerVars
  <2> QED
    BY <2>1, <2>3, AfterSocket DEF portVars, workerVars
<1> QED
  BY <1>1, ViewersUser, ViewersElement, ViewersPort, ViewersSocket DEF Next

LEMMA ViewersInit == Init => ViewersInv
  BY DEF Init, PortsInit, TerminalInit, WorkerInit, ViewersInv, Queue, Unheard

SeenInv == NamedInv /\ ViewersInv

LEMMA SeenHolds == Spec => []SeenInv
<1>1. SeenInv /\ [Next]_vars => SeenInv'
  BY TypesStep, MintStep, SocketsStep, NamesStep, ViewersStep DEF SeenInv, NamedInv, SpokenInv
<1>2. Init => SeenInv
  BY SpokenInit, NamesInit, ViewersInit DEF SeenInv, NamedInv
<1> QED
  BY <1>1, <1>2, PTL DEF Spec

(* Whoever waits for a session or shows it as connected has asked for it,  *)
(* watches it, or has the news of its end on the way.                      *)
THEOREM ViewersRemembered == Spec => []NoViewerForgotten
<1>1. SeenInv => NoViewerForgotten
  <2> SUFFICES ASSUME SeenInv, NEW t \in alive, Watching(t)
               PROVE  Asking(t) \/ Attached(t) \/ Dismissed(t)
    BY DEF NoViewerForgotten
  <2>1. Informed(t) /\ t \in Term /\ phase[t] \in Live
    BY DEF SeenInv, NamedInv, SpokenInv, TypeInv, TypeOK, PortsOK, ViewersInv, Viewer, Watching, Live
  <2>2. DOMAIN outbox[t] = 1..Len(outbox[t]) /\ DOMAIN inbox[t] = 1..Len(inbox[t])
    BY <2>1 DEF SeenInv, NamedInv, SpokenInv, TypeInv, TypeOK, PortsOK
  <2> QED
    BY <2>1, <2>2 DEF Informed, Asking, Attached, Dismissed, Asks, Ends
<1> QED
  BY <1>1, SeenHolds, PTL

-----------------------------------------------------------------------------
(***************************************************************************)
(* What the viewers of a session see: the replay buffer of the SharedWorker *)
(* keeps the latest output, and what an element is given is an unbroken run *)
(* of it.                                                                  *)
(***************************************************************************)

-----------------------------------------------------------------------------
(* Sums.                                                                   *)
LEMMA SumExists ==
  ASSUME NEW d \in Seq(Nat)
  PROVE  \E f \in [0..Len(d) -> Nat] : f = [i \in 0..Len(d) |-> IF i = 0 THEN 0 ELSE f[i - 1] + d[i]]
<1> DEFINE T == {n \in Nat : n <= Len(d) =>
                   \E f \in [0..n -> Nat] : f = [i \in 0..n |-> IF i = 0 THEN 0 ELSE f[i - 1] + d[i]]}
<1>1. 0 \in T
  <2> DEFINE z == [i \in 0..0 |-> 0]
  <2>1. z \in [0..0 -> Nat] /\ z = [i \in 0..0 |-> IF i = 0 THEN 0 ELSE z[i - 1] + d[i]]
    OBVIOUS
  <2> QED
    BY <2>1
<1>2. ASSUME NEW n \in T
      PROVE  n + 1 \in T
  <2>1. n \in Nat /\ n + 1 \in Nat
    OBVIOUS
  <2> SUFFICES ASSUME n + 1 <= Len(d)
               PROVE  \E f \in [0..(n + 1) -> Nat] :
                        f = [i \in 0..(n + 1) |-> IF i = 0 THEN 0 ELSE f[i - 1] + d[i]]
    BY <2>1
  <2>2. Len(d) \in Nat /\ n \in Nat /\ n + 1 \in 1..Len(d)
    BY <2>1
  <2>3. PICK f \in [0..n -> Nat] : f = [i \in 0..n |-> IF i = 0 THEN 0 ELSE f[i - 1] + d[i]]
    BY <2>2
  <2>4. \A i \in 0..n : f[i] = IF i = 0 THEN 0 ELSE f[i - 1] + d[i]
    BY <2>3
  <2> DEFINE g == [i \in 0..(n + 1) |-> IF i <= n THEN f[i] ELSE f[n] + d[n + 1]]
  <2>5. g \in [0..(n + 1) -> Nat]
    BY <2>2
  <2>6. \A i \in 0..(n + 1) : g[i] = IF i = 0 THEN 0 ELSE g[i - 1] + d[i]
    <3> SUFFICES ASSUME NEW i \in 0..(n + 1)
                 PROVE  g[i] = IF i = 0 THEN 0 ELSE g[i - 1] + d[i]
      OBVIOUS
    <3>1. CASE i = 0
      BY <2>2, <2>3, <3>1
    <3>2. CASE i \in 1..n
      <4>1. i \in 0..n /\ i - 1 \in 0..n /\ i # 0
        BY <2>2, <3>2
      <4>2. g[i] = f[i] /\ g[i - 1] = f[i - 1] /\ f[i] = f[i - 1] + d[i]
        BY <2>2, <2>4, <4>1
      <4> QED
        BY <4>1, <4>2
    <3>3. CASE i = n + 1
      BY <2>2, <3>3
    <3> QED
      BY <2>2, <3>1, <3>2, <3>3
  <2> QED
    BY <2>5, <2>6
<1>3. T \subseteq Nat
  OBVIOUS
<1> HIDE DEF T
<1>4. T = Nat
  BY <1>1, <1>2, <1>3, Reaches
<1> USE DEF T
<1>5. Len(d) \in T /\ Len(d) <= Len(d)
  BY <1>4
<1> QED
  BY <1>5

LEMMA Sums ==
  ASSUME NEW d \in Seq(Nat)
  PROVE  /\ RunningSum(d) \in [0..Len(d) -> Nat]
         /\ RunningSum(d)[0] = 0
         /\ \A i \in 1..Len(d) : RunningSum(d)[i] = RunningSum(d)[i - 1] + d[i]
<1> DEFINE F == CHOOSE f : f = [i \in 0..Len(d) |-> IF i = 0 THEN 0 ELSE f[i - 1] + d[i]]
<1>1. F = [i \in 0..Len(d) |-> IF i = 0 THEN 0 ELSE F[i - 1] + d[i]]
  BY SumExists
<1>2. RunningSum(d) = F
  BY DEF RunningSum
<1> HIDE DEF F
<1>3. Len(d) \in Nat /\ \A i \in 1..Len(d) : d[i] \in Nat
  OBVIOUS
<1>4. F[0] = 0
  <2>1. 0 \in 0..Len(d)
    BY <1>3
  <2> QED
    BY <1>1, <2>1
<1>5. ASSUME NEW i \in 1..Len(d)
      PROVE  F[i] = F[i - 1] + d[i]
  <2>1. i \in 0..Len(d) /\ i # 0
    BY <1>3
  <2> QED
    BY <1>1, <2>1
<1> DEFINE T == {n \in Nat : n <= Len(d) => F[n] \in Nat}
<1>6. 0 \in T
  BY <1>4
<1>7. ASSUME NEW n \in T
      PROVE  n + 1 \in T
  <2>1. n \in Nat /\ n + 1 \in Nat
    OBVIOUS
  <2> SUFFICES ASSUME n + 1 <= Len(d)
               PROVE  F[n + 1] \in Nat
    BY <2>1
  <2>2. n + 1 \in 1..Len(d) /\ n <= Len(d) /\ (n + 1) - 1 = n
    BY <1>3, <2>1
  <2>3. F[n] \in Nat
    BY <2>2
  <2>4. F[n + 1] = F[n] + d[n + 1]
    BY <1>5, <2>2
  <2>5. d[n + 1] \in Nat
    BY <1>3, <2>2
  <2> HIDE DEF T
  <2> QED
    BY <2>3, <2>4, <2>5
<1>8. T \subseteq Nat
  OBVIOUS
<1> HIDE DEF T
<1>9. T = Nat
  BY <1>6, <1>7, <1>8, Reaches
<1>10. \A i \in 0..Len(d) : i \in Nat /\ i <= Len(d)
  BY <1>3
<1>11. \A i \in 0..Len(d) : F[i] \in Nat
  BY <1>9, <1>10 DEF T
<1>12. F \in [0..Len(d) -> Nat]
  BY <1>1, <1>11
<1> QED
  BY <1>2, <1>4, <1>5, <1>12

LEMMA SumOfPrefix ==
  ASSUME NEW d \in Seq(Nat), NEW e \in Seq(Nat), Len(d) <= Len(e), \A i \in 1..Len(d) : e[i] = d[i]
  PROVE  \A i \in 0..Len(d) : RunningSum(e)[i] = RunningSum(d)[i]
<1> DEFINE f == RunningSum(d)
           g == RunningSum(e)
<1>1. /\ Len(d) \in Nat /\ Len(e) \in Nat /\ f[0] = 0 /\ g[0] = 0
      /\ \A i \in 1..Len(d) : f[i] = f[i - 1] + d[i]
      /\ \A i \in 1..Len(e) : g[i] = g[i - 1] + e[i]
  BY Sums
<1> HIDE DEF f, g
<1> DEFINE T == {n \in Nat : n <= Len(d) => g[n] = f[n]}
<1>2. 0 \in T
  BY <1>1
<1>3. ASSUME NEW n \in T
      PROVE  n + 1 \in T
  <2>1. n \in Nat /\ n + 1 \in Nat
    OBVIOUS
  <2> SUFFICES ASSUME n + 1 <= Len(d)
               PROVE  g[n + 1] = f[n + 1]
    BY <2>1
  <2>2. n + 1 \in 1..Len(d) /\ n + 1 \in 1..Len(e) /\ n <= Len(d) /\ (n + 1) - 1 = n
    BY <1>1, <2>1
  <2>3. g[n] = f[n]
    BY <2>2
  <2> QED
    BY <1>1, <2>2, <2>3
<1>4. T \subseteq Nat
  OBVIOUS
<1> HIDE DEF T
<1>5. T = Nat
  BY <1>2, <1>3, <1>4, Reaches
<1>6. \A i \in 0..Len(d) : i \in Nat /\ i <= Len(d)
  BY <1>1
<1>7. \A i \in 0..Len(d) : g[i] = f[i]
  BY <1>5, <1>6 DEF T
<1> QED
  BY <1>7 DEF f, g

LEMMA SumOfRest ==
  ASSUME NEW d \in Seq(Nat), NEW e \in Seq(Nat), NEW k \in 0..Len(d),
         Len(e) = Len(d) - k, \A i \in 1..Len(e) : e[i] = d[i + k]
  PROVE  \A i \in 0..Len(e) : RunningSum(e)[i] = RunningSum(d)[i + k] - RunningSum(d)[k]
<1> DEFINE f == RunningSum(d)
           g == RunningSum(e)
<1>1. /\ Len(d) \in Nat /\ Len(e) \in Nat /\ k \in Nat
      /\ f \in [0..Len(d) -> Nat] /\ \A i \in 1..Len(d) : f[i] = f[i - 1] + d[i]
      /\ g \in [0..Len(e) -> Nat] /\ \A i \in 1..Len(e) : g[i] = g[i - 1] + e[i]
      /\ g[0] = 0
  <2>1. Len(d) \in Nat /\ Len(e) \in Nat /\ k \in Nat
    OBVIOUS
  <2>2. f \in [0..Len(d) -> Nat] /\ \A i \in 1..Len(d) : f[i] = f[i - 1] + d[i]
    BY Sums
  <2>3. g \in [0..Len(e) -> Nat] /\ g[0] = 0 /\ \A i \in 1..Len(e) : g[i] = g[i - 1] + e[i]
    BY Sums
  <2> QED
    BY <2>1, <2>2, <2>3
<1> HIDE DEF f, g
<1> DEFINE T == {n \in Nat : n <= Len(e) => g[n] = f[n + k] - f[k]}
<1>2. 0 \in T
  <2>1. 0 + k = k /\ k \in 0..Len(d) /\ f[k] \in Nat
    BY <1>1
  <2>2. f[0 + k] - f[k] = 0
    BY <2>1
  <2> QED
    BY <1>1, <2>2
<1>3. ASSUME NEW n \in T
      PROVE  n + 1 \in T
  <2>1. n \in Nat /\ n + 1 \in Nat
    OBVIOUS
  <2> SUFFICES ASSUME n + 1 <= Len(e)
               PROVE  g[n + 1] = f[(n + 1) + k] - f[k]
    BY <2>1
  <2>2. /\ n + 1 \in 1..Len(e) /\ n <= Len(e) /\ (n + 1) - 1 = n
        /\ (n + 1) + k \in 1..Len(d) /\ ((n + 1) + k) - 1 = n + k /\ n + k \in 0..Len(d) /\ k \in 0..Len(d)
    BY <1>1, <2>1
  <2>3. g[n] = f[n + k] - f[k] /\ f[n + k] \in Nat /\ f[k] \in Nat /\ f[(n + 1) + k] \in Nat
    <3>1. g[n] = f[n + k] - f[k]
      BY <2>2
    <3>2. (n + 1) + k \in 0..Len(d)
      BY <1>1, <2>2
    <3> QED
      BY <1>1, <2>2, <3>1, <3>2
  <2>4. g[n + 1] = g[n] + e[n + 1] /\ f[(n + 1) + k] = f[n + k] + d[(n + 1) + k]
    BY <1>1, <2>2
  <2>5. e[n + 1] = d[(n + 1) + k] /\ e[n + 1] \in Nat
    BY <2>2, SMTT(30)
  <2>6. PICK x \in Nat, y \in Nat, z \in Nat : x = f[n + k] /\ y = f[k] /\ z = e[n + 1]
    BY <2>3, <2>5
  <2>7. g[n + 1] = (x - y) + z
    BY <2>3, <2>4, <2>6
  <2>8. f[(n + 1) + k] = x + z
    BY <2>4, <2>5, <2>6
  <2>9. (x - y) + z = (x + z) - y
    OBVIOUS
  <2> QED
    BY <2>6, <2>7, <2>8, <2>9
<1>4. T \subseteq Nat
  OBVIOUS
<1> HIDE DEF T
<1>5. T = Nat
  BY <1>2, <1>3, <1>4, Reaches
<1>6. \A i \in 0..Len(e) : i \in Nat /\ i <= Len(e)
  BY <1>1
<1>7. \A i \in 0..Len(e) : g[i] = f[i + k] - f[k]
  BY <1>5, <1>6 DEF T
<1> QED
  BY <1>7 DEF f, g

(* The pieces of a buffer have lengths. *)
Sized(b) == \A i \in 1..Len(b) : SizeOf(b[i]) \in Nat

Sizes(b) == [j \in 1..Len(b) |-> SizeOf(b[j])]

LEMMA SizesAreNat ==
  ASSUME NEW b \in Seq(Chunk), Sized(b)
  PROVE  Sizes(b) \in Seq(Nat) /\ Len(Sizes(b)) = Len(b) /\ \A i \in 1..Len(b) : Sizes(b)[i] = SizeOf(b[i])
<1>1. Len(b) \in Nat
  OBVIOUS
<1>2. Sizes(b) \in [1..Len(b) -> Nat]
  BY DEF Sized, Sizes
<1> QED
  BY <1>1, <1>2 DEF Sizes

LEMMA LengthIs ==
  ASSUME NEW b \in Seq(Chunk), Sized(b)
  PROVE  /\ \A i \in 0..Len(b) : Length(b, i) \in Nat
         /\ Length(b, 0) = 0
         /\ \A i \in 1..Len(b) : Length(b, i) = Length(b, i - 1) + SizeOf(b[i])
<1>1. \A i : Length(b, i) = RunningSum(Sizes(b))[i]
  BY DEF Length, Sizes
<1> QED
  BY <1>1, SizesAreNat, Sums

(* Pushing a chunk adds its length; shifting the first k takes theirs off. *)
LEMMA LengthPushed ==
  ASSUME NEW b \in Seq(Chunk), NEW c \in Chunk, Sized(b), SizeOf(c) \in Nat
  PROVE  /\ Sized(Append(b, c))
         /\ Length(Append(b, c), Len(b) + 1) = Length(b, Len(b)) + SizeOf(c)
<1> DEFINE p == Append(b, c)
<1>1. /\ p \in Seq(Chunk) /\ Len(p) = Len(b) + 1 /\ Len(b) \in Nat
      /\ p[Len(b) + 1] = c /\ \A i \in 1..Len(b) : p[i] = b[i]
  OBVIOUS
<1> HIDE DEF p
<1>2. Sized(p)
  BY <1>1 DEF Sized
<1>3. \A i : Length(b, i) = RunningSum(Sizes(b))[i] /\ Length(p, i) = RunningSum(Sizes(p))[i]
  BY DEF Length, Sizes
<1>4. /\ Sizes(b) \in Seq(Nat) /\ Len(Sizes(b)) = Len(b) /\ \A i \in 1..Len(b) : Sizes(b)[i] = SizeOf(b[i])
      /\ Sizes(p) \in Seq(Nat) /\ Len(Sizes(p)) = Len(p) /\ \A i \in 1..Len(p) : Sizes(p)[i] = SizeOf(p[i])
  BY <1>1, <1>2, SizesAreNat
<1>5. \A i \in 1..Len(b) : Sizes(p)[i] = Sizes(b)[i]
  BY <1>1, <1>4
<1>6. Length(p, Len(b)) = Length(b, Len(b))
  <2>1. Len(Sizes(b)) <= Len(Sizes(p)) /\ Len(b) \in 0..Len(Sizes(b))
        /\ \A i \in 1..Len(Sizes(b)) : Sizes(p)[i] = Sizes(b)[i]
    BY <1>1, <1>4, <1>5
  <2>2. \A i \in 0..Len(Sizes(b)) : RunningSum(Sizes(p))[i] = RunningSum(Sizes(b))[i]
    BY <1>4, <2>1, SumOfPrefix
  <2> QED
    BY <1>3, <2>1, <2>2
<1>7. Length(p, Len(b) + 1) = Length(p, Len(b)) + SizeOf(c)
  <2>1. Len(b) + 1 \in 1..Len(p) /\ (Len(b) + 1) - 1 = Len(b)
    BY <1>1
  <2> QED
    BY <1>1, <1>2, <2>1, LengthIs
<1> QED
  BY <1>2, <1>6, <1>7 DEF p

LEMMA LengthOfRest ==
  ASSUME NEW b \in Seq(Chunk), Sized(b), NEW k \in 0..(Len(b) - 1), NEW e \in Seq(Chunk),
         Len(e) = Len(b) - k, \A i \in 1..Len(e) : e[i] = b[i + k]
  PROVE  Sized(e) /\ Length(e, Len(e)) = Length(b, Len(b)) - Length(b, k)
<1>1. Len(b) \in Nat /\ Len(e) \in Nat /\ k \in Nat /\ k \in 0..Len(b)
  OBVIOUS
<1>2. \A i \in 1..Len(e) : i + k \in 1..Len(b)
  BY <1>1
<1>3. Sized(e)
  BY <1>2 DEF Sized
<1>4. \A i : Length(b, i) = RunningSum(Sizes(b))[i] /\ Length(e, i) = RunningSum(Sizes(e))[i]
  BY DEF Length, Sizes
<1>5. /\ Sizes(b) \in Seq(Nat) /\ Len(Sizes(b)) = Len(b) /\ \A i \in 1..Len(b) : Sizes(b)[i] = SizeOf(b[i])
      /\ Sizes(e) \in Seq(Nat) /\ Len(Sizes(e)) = Len(e) /\ \A i \in 1..Len(e) : Sizes(e)[i] = SizeOf(e[i])
  BY <1>3, SizesAreNat
<1>6. \A i \in 1..Len(e) : Sizes(e)[i] = Sizes(b)[i + k]
  BY <1>2, <1>5
<1>7. \A i \in 0..Len(e) : RunningSum(Sizes(e))[i] = RunningSum(Sizes(b))[i + k] - RunningSum(Sizes(b))[k]
  <2> DEFINE f == Sizes(b)
             g == Sizes(e)
  <2>1. f \in Seq(Nat) /\ g \in Seq(Nat) /\ k \in 0..Len(f) /\ Len(g) = Len(f) - k
        /\ \A i \in 1..Len(g) : g[i] = f[i + k]
    BY <1>1, <1>5, <1>6
  <2> HIDE DEF f, g
  <2>2. \A i \in 0..Len(g) : RunningSum(g)[i] = RunningSum(f)[i + k] - RunningSum(f)[k]
    BY <2>1, SumOfRest
  <2> QED
    BY <1>5, <2>2 DEF f, g
<1>8. Len(e) \in 0..Len(e) /\ Len(e) + k = Len(b)
  BY <1>1
<1> QED
  BY <1>3, <1>4, <1>7, <1>8

(* What appendBuffer leaves: the shortest cut that brings the buffer below *)
(* its limit, or its last chunk.                                           *)
LEMMA Trimmed ==
  ASSUME NEW b \in Seq(Chunk), b # <<>>, Sized(b), NEW total \in Nat, total = Length(b, Len(b))
  PROVE  \E k \in 0..(Len(b) - 1), e \in Seq(Chunk) :
           /\ k = Excess(b, total)
           /\ e = SubSeq(b, k + 1, Len(b))
           /\ Len(e) = Len(b) - k
           /\ \A i \in 1..Len(e) : e[i] = b[i + k]
           /\ total - Length(b, k) \in Nat
           /\ total - Length(b, k) = Length(e, Len(e))
           /\ total - Length(b, k) <= BufferLimit \/ Len(e) = 1
           /\ k > 0 => (total - Length(b, k)) + SizeOf(b[k]) > BufferLimit
<1> DEFINE k == Excess(b, total)
           e == SubSeq(b, k + 1, Len(b))
<1>1. k \in 0..(Len(b) - 1) /\ Fits(b, total, k) /\ \A j \in 0..(k - 1) : ~Fits(b, total, j)
  BY ExcessIsLeast
<1>2. Len(b) \in Nat \ {0}
  OBVIOUS
<1> HIDE DEF k
<1>3. e \in Seq(Chunk) /\ Len(e) = Len(b) - k /\ \A i \in 1..Len(e) : e[i] = b[i + k]
  <2>1. e \in Seq(Chunk) /\ Len(e) = Len(b) - k
    BY <1>1, <1>2, SubSeqProperties
  <2>2. \A i \in 1..(Len(b) - k) : e[i] = b[(k + 1) + i - 1]
    BY <1>1, <1>2, SubSeqProperties
  <2>3. \A i \in 1..(Len(b) - k) : (k + 1) + i - 1 = i + k
    BY <1>1, <1>2
  <2> QED
    BY <2>1, <2>2, <2>3
<1> HIDE DEF e
<1>4. Sized(e) /\ Length(e, Len(e)) = total - Length(b, k)
  BY <1>1, <1>3, LengthOfRest
<1>5. Length(e, Len(e)) \in Nat
  <2>1. Len(e) \in 0..Len(e)
    BY <1>3
  <2> QED
    BY <1>3, <1>4, <2>1, LengthIs
<1>6. total - Length(b, k) <= BufferLimit \/ Len(e) = 1
  BY <1>1, <1>2, <1>3 DEF Fits
<1>7. k > 0 => (total - Length(b, k)) + SizeOf(b[k]) > BufferLimit
  <2> SUFFICES ASSUME k > 0
               PROVE  (total - Length(b, k)) + SizeOf(b[k]) > BufferLimit
    OBVIOUS
  <2>1. k \in 1..Len(b) /\ k - 1 \in 0..(k - 1) /\ k - 1 \in 0..Len(b) /\ k \in 0..Len(b)
    BY <1>1, <1>2
  <2>2. Length(b, k) = Length(b, k - 1) + SizeOf(b[k]) /\ Length(b, k) \in Nat /\ Length(b, k - 1) \in Nat
    BY <2>1, LengthIs
  <2>3. ~(total - Length(b, k - 1) <= BufferLimit)
    BY <1>1, <2>1 DEF Fits
  <2>4. SizeOf(b[k]) \in Nat /\ BufferLimit \in Nat
    BY <2>1, WorkerConstants DEF Sized
  <2> QED
    BY <2>2, <2>3, <2>4
<1> QED
  BY <1>1, <1>3, <1>4, <1>5, <1>6, <1>7 DEF k, e

-----------------------------------------------------------------------------
(* The last output of a session.                                           *)
Outputs(s) == {i \in 1..got[s] : sent[s][i].type = "output"}

LEMMA Greatest ==
  ASSUME NEW S, NEW n \in Nat, S \subseteq 0..n, S # {}
  PROVE  Max(S) \in S /\ \A y \in S : y <= Max(S)
<1> DEFINE T == {m \in Nat : \A y \in S : y <= m}
<1>1. T \subseteq Nat /\ n \in T
  OBVIOUS
<1>2. PICK m \in T : \A y \in T : m <= y
  <2> HIDE DEF T
  <2> QED
    BY <1>1, Least
<1>3. m \in Nat /\ \A y \in S : y <= m /\ y \in Nat
  OBVIOUS
<1>4. m \in S
  <2> SUFFICES ASSUME m \notin S
               PROVE  FALSE
    OBVIOUS
  <2>1. \A y \in S : y < m
    BY <1>3
  <2>2. m > 0 /\ m - 1 \in Nat
    <3>1. PICK y \in S : TRUE
      OBVIOUS
    <3>2. y \in Nat /\ y < m
      BY <1>3, <2>1, <3>1
    <3> QED
      BY <1>3, <3>2
  <2>3. \A y \in S : y <= m - 1
    BY <1>3, <2>1
  <2>4. m - 1 \in T
    BY <2>2, <2>3
  <2>5. m <= m - 1
    BY <1>2, <2>4
  <2> QED
    BY <1>3, <2>5
<1>5. \E x \in S : \A y \in S : x >= y
  BY <1>3, <1>4
<1>6. Max(S) \in S /\ \A y \in S : Max(S) >= y
  BY <1>5 DEF Max
<1> QED
  BY <1>3, <1>6

LEMMA LastIs ==
  ASSUME NEW s \in Sid, got[s] \in Nat
  PROVE  /\ LastOutput(s) \in {0} \cup Outputs(s)
         /\ \A i \in Outputs(s) : i <= LastOutput(s)
         /\ LastOutput(s) \in 0..got[s]
<1> DEFINE S == {0} \cup Outputs(s)
<1>1. S \subseteq 0..got[s] /\ S # {}
  BY DEF Outputs
<1>2. LastOutput(s) = Max(S)
  BY DEF LastOutput, Outputs
<1> HIDE DEF S
<1>3. Max(S) \in S /\ \A y \in S : y <= Max(S)
  BY <1>1, Greatest
<1> QED
  BY <1>1, <1>2, <1>3 DEF S

LEMMA LastIsKept ==
  ASSUME NEW s \in Sid, got'[s] = got[s], got[s] \in Nat,
         \A i \in 1..got[s] : sent'[s][i] = sent[s][i]
  PROVE  LastOutput(s)' = LastOutput(s)
<1>1. {i \in 1..got'[s] : sent'[s][i].type = "output"} = {i \in 1..got[s] : sent[s][i].type = "output"}
  OBVIOUS
<1> QED
  BY <1>1 DEF LastOutput

(* A message arrives. *)
LEMMA LastArrives ==
  ASSUME NEW s \in Sid, got[s] \in Nat, got'[s] = got[s] + 1, sent' = sent
  PROVE  LastOutput(s)' = IF sent[s][got[s] + 1].type = "output" THEN got[s] + 1 ELSE LastOutput(s)
<1>1. got'[s] \in Nat
  OBVIOUS
<1>2. /\ LastOutput(s)' \in {0} \cup Outputs(s)'
      /\ \A i \in Outputs(s)' : i <= LastOutput(s)'
      /\ LastOutput(s)' \in 0..got'[s]
  <2> DEFINE O == {i \in 1..got'[s] : sent'[s][i].type = "output"}
             S == {0} \cup O
  <2>1. S \subseteq 0..got'[s] /\ S # {}
    BY <1>1
  <2>2. LastOutput(s)' = Max(S) /\ Outputs(s)' = O
    BY DEF LastOutput, Outputs
  <2> HIDE DEF S
  <2>3. Max(S) \in S /\ \A y \in S : y <= Max(S)
    BY <1>1, <2>1, Greatest
  <2> QED
    BY <2>1, <2>2, <2>3 DEF S
<1>3. CASE sent[s][got[s] + 1].type = "output"
  <2>1. got[s] + 1 \in Outputs(s)'
    BY <1>3 DEF Outputs
  <2> QED
    BY <1>2, <1>3, <2>1
<1>4. CASE sent[s][got[s] + 1].type # "output"
  <2>1. {i \in 1..got'[s] : sent'[s][i].type = "output"} = {i \in 1..got[s] : sent[s][i].type = "output"}
    BY <1>4
  <2> QED
    BY <1>4, <2>1 DEF LastOutput
<1> QED
  BY <1>3, <1>4

(* Before a message arrives, all that came after "ready" is output.        *)
LEMMA OutputsSoFar ==
  ASSUME SpokenInv, NEW s \in Sid, WsMessage(s)
  PROVE  /\ got[s] > 1 => LastOutput(s) = got[s]
         /\ got[s] <= 1 => LastOutput(s) = 0
<1>1. TypeInv /\ SocketsInv /\ Talk(s)
  BY DEF SpokenInv, SocketsInv
<1>2. /\ got[s] \in Nat /\ got[s] + 1 \in 1..Len(sent[s])
      /\ \A i \in 1..got[s] : sent[s][i].type \notin Farewells
  BY <1>1, Arriving DEF Farewells
<1>3. /\ LastOutput(s) \in {0} \cup Outputs(s)
      /\ \A i \in Outputs(s) : i <= LastOutput(s)
      /\ LastOutput(s) \in 0..got[s]
  BY <1>2, LastIs
<1>4. sent[s] \in Seq(Peer!ServerMsg) /\ \A i \in 1..got[s] : i \in 1..Len(sent[s])
  BY <1>1, <1>2 DEF TypeInv, TypeOK, WorkerOK, Peer!TypeOK
<1>5. \A i \in 1..got[s] : sent[s][i].type \in {"ready", "output"}
  <2>1. \A m \in Peer!ServerMsg : m.type \in {"ready", "output"} \cup Farewells
    BY DEF Peer!ServerMsg, Peer!Plain, Peer!Output, Farewells, Ends
  <2> QED
    BY <1>2, <1>4, <2>1
<1>6. \A i \in 1..got[s] : /\ sent[s][i].type = "ready" => i = 1
                           /\ sent[s][i].type = "output" => i > 1
  BY <1>1, <1>4 DEF Talk
<1>7. CASE got[s] > 1
  <2>1. got[s] \in Outputs(s)
    BY <1>2, <1>5, <1>6, <1>7 DEF Outputs
  <2> QED
    BY <1>2, <1>3, <1>7, <2>1
<1>8. CASE got[s] <= 1
  <2>1. Outputs(s) = {}
    BY <1>2, <1>6, <1>8 DEF Outputs
  <2> QED
    BY <1>2, <1>3, <1>8, <2>1
<1> QED
  BY <1>2, <1>7, <1>8

-----------------------------------------------------------------------------
(* The replay buffer. *)
Buffered(s) ==
  /\ chars[s] \in Nat
  /\ \A i \in 1..Len(buffer[s]) :
       buffer[s][i].sid = s /\ buffer[s][i].pos \in 2..got[s] /\ sent[s][buffer[s][i].pos].type = "output"
  /\ \A i \in 1..(Len(buffer[s]) - 1) : buffer[s][i + 1].pos = buffer[s][i].pos + 1
  /\ buffer[s] = <<>> => LastOutput(s) = 0
  /\ buffer[s] # <<>> => buffer[s][Len(buffer[s])].pos = LastOutput(s)
  /\ chars[s] = Length(buffer[s], Len(buffer[s]))
  /\ chars[s] <= BufferLimit \/ Len(buffer[s]) = 1
  /\ buffer[s] # <<>> /\ buffer[s][1].pos > 2 =>
       chars[s] + sent[s][buffer[s][1].pos - 1].size > BufferLimit

BufferInv == chars \in [Sid -> Nat] /\ \A s \in Sid : Buffered(s)

LEMMA SizesAreTyped ==
  ASSUME SpokenInv, NEW s \in Sid
  PROVE  /\ \A i \in 1..got[s] : sent[s][i].size \in Nat
         /\ got[s] \in Nat /\ Len(sent[s]) \in Nat /\ got[s] <= Len(sent[s])
         /\ \A i \in 1..got[s] : i \in 1..Len(sent[s])
         /\ \A i \in 1..Len(sent[s]) : sent[s][i].size \in Nat
<1>1. \A m \in Peer!ServerMsg : m.size \in Nat
  BY WorkerConstants DEF Peer!ServerMsg, Peer!Plain, Peer!Output
<1>2. sent[s] \in Seq(Peer!ServerMsg) /\ got[s] \in Nat /\ got[s] <= Len(sent[s])
  BY DEF SpokenInv, TypeInv, TypeOK, WorkerOK, Peer!TypeOK, SocketsInv, Socket
<1>3. \A i \in 1..Len(sent[s]) : sent[s][i] \in Peer!ServerMsg
  BY <1>2
<1>4. \A i \in 1..got[s] : i \in 1..Len(sent[s])
  BY <1>2
<1> QED
  BY <1>1, <1>2, <1>3, <1>4

LEMMA BufferedKept ==
  ASSUME SpokenInv, NEW s \in Sid, Advance(s), Buffered(s),
         got'[s] = got[s], buffer'[s] = buffer[s], chars'[s] = chars[s]
  PROVE  Buffered(s)'
<1>1. got[s] \in Nat /\ \A i \in 1..got[s] : sent'[s][i] = sent[s][i]
  BY SizesAreTyped DEF Advance
<1>2. LastOutput(s)' = LastOutput(s)
  BY <1>1, LastIsKept
<1>3. \A i \in 1..Len(buffer[s]) : SizeOf(buffer[s][i])' = SizeOf(buffer[s][i])
  <2> SUFFICES ASSUME NEW i \in 1..Len(buffer[s])
               PROVE  sent'[buffer'[s][i].sid][buffer'[s][i].pos] = sent[buffer[s][i].sid][buffer[s][i].pos]
    BY DEF SizeOf
  <2>1. buffer[s][i].sid = s /\ buffer[s][i].pos \in 1..got[s]
    BY <1>1 DEF Buffered
  <2> QED
    BY <1>1, <2>1
<1>4. Sizes(buffer[s])' = Sizes(buffer[s])
  BY <1>3 DEF Sizes
<1>5. Length(buffer[s], Len(buffer[s]))' = Length(buffer[s], Len(buffer[s]))
  BY <1>4 DEF Length, Sizes
<1>6. buffer[s] # <<>> /\ buffer[s][1].pos > 2 => buffer[s][1].pos - 1 \in 1..got[s]
  <2> SUFFICES ASSUME buffer[s] # <<>>, buffer[s][1].pos > 2
               PROVE  buffer[s][1].pos - 1 \in 1..got[s]
    OBVIOUS
  <2>1. 1 \in 1..Len(buffer[s])
    <3>1. buffer[s] \in Seq(Chunk)
      BY DEF SpokenInv, TypeInv, TypeOK, WorkerOK
    <3> QED
      BY <3>1
  <2>2. buffer[s][1].pos \in 2..got[s]
    BY <2>1 DEF Buffered
  <2> QED
    BY <1>1, <2>2
<1>7. \A i \in 1..Len(buffer'[s]) :
        buffer'[s][i].sid = s /\ buffer'[s][i].pos \in 2..got'[s] /\ sent'[s][buffer'[s][i].pos].type = "output"
  BY <1>1, SMTT(30) DEF Buffered
<1>8. buffer'[s] # <<>> /\ buffer'[s][1].pos > 2 =>
        chars'[s] + sent'[s][buffer'[s][1].pos - 1].size > BufferLimit
  BY <1>1, <1>6 DEF Buffered
<1>9. chars'[s] = Length(buffer[s], Len(buffer[s]))'
  BY <1>5 DEF Buffered
<1> QED
  BY <1>1, <1>2, <1>7, <1>8, <1>9 DEF Buffered

LEMMA BufferedArrives ==
  ASSUME SpokenInv, BufferInv, NEW s \in Sid, WsMessage(s), OnServerOutput(s, sent[s][got[s] + 1])
  PROVE  /\ Buffered(s)' /\ chars' \in [Sid -> Nat]
         /\ \A r \in Sid \ {s} : buffer'[r] = buffer[r] /\ chars'[r] = chars[r]
<1>1. /\ TypeInv /\ SocketsInv /\ Buffered(s)
      /\ got[s] \in Nat /\ got[s] + 1 \in 1..Len(sent[s]) /\ got'[s] = got[s] + 1 /\ sent' = sent
      /\ sent[s][got[s] + 1].size \in Nat
      /\ sent[s][got[s] + 1].type = "output"
  <2>1. TypeInv /\ SocketsInv /\ Buffered(s)
    BY DEF SpokenInv, BufferInv
  <2>2. got[s] + 1 \in 1..Len(sent[s]) /\ got'[s] = got[s] + 1 /\ sent' = sent
    BY <2>1, Arriving
  <2> QED
    BY <2>1, <2>2, SizesAreTyped DEF OnServerOutput
<1>2. got[s] + 1 > 1
  BY <1>1 DEF SocketsInv, Talk
<1>3. PICK b \in Seq(Chunk) : b = buffer[s]
  BY <1>1 DEF TypeInv, TypeOK, WorkerOK
<1>4. PICK c \in Chunk : c = [sid |-> s, pos |-> got[s] + 1] /\ c.sid = s /\ c.pos = got[s] + 1
  <2>1. [sid |-> s, pos |-> got[s] + 1] \in Chunk
    BY <1>1 DEF Chunk
  <2> QED
    BY <2>1
<1>5. /\ \A i \in 1..Len(b) : b[i].sid = s /\ b[i].pos \in 2..got[s] /\ sent[s][b[i].pos].type = "output"
      /\ \A i \in 1..(Len(b) - 1) : b[i + 1].pos = b[i].pos + 1
      /\ b = <<>> => LastOutput(s) = 0
      /\ b # <<>> => b[Len(b)].pos = LastOutput(s)
      /\ chars[s] \in Nat /\ chars[s] = Length(b, Len(b))
      /\ b # <<>> /\ b[1].pos > 2 => chars[s] + sent[s][b[1].pos - 1].size > BufferLimit
  BY <1>1, <1>3 DEF Buffered
<1>6. Sized(b) /\ SizeOf(c) \in Nat /\ SizeOf(c) = sent[s][got[s] + 1].size
  <2>1. \A i \in 1..got[s] : sent[s][i].size \in Nat
    BY SizesAreTyped
  <2>2. \A i \in 1..Len(b) : b[i].sid = s /\ b[i].pos \in 1..got[s]
    BY <1>1, <1>5
  <2> QED
    BY <1>1, <1>4, <2>1, <2>2 DEF Sized, SizeOf
<1> DEFINE p     == Append(b, c)
           total == chars[s] + SizeOf(c)
<1>7. /\ p \in Seq(Chunk) /\ p # <<>> /\ Len(p) = Len(b) + 1 /\ Len(b) \in Nat
      /\ p[Len(b) + 1] = c /\ \A i \in 1..Len(b) : p[i] = b[i]
  OBVIOUS
<1>8. Sized(p) /\ total \in Nat /\ total = Length(p, Len(p))
  BY <1>5, <1>6, <1>7, LengthPushed
<1>9. /\ buffer' = [buffer EXCEPT ![s] = SubSeq(p, Excess(p, total) + 1, Len(p))]
      /\ chars' = [chars EXCEPT ![s] = total - Length(p, Excess(p, total))]
  BY <1>3, <1>4 DEF OnServerOutput, AppendBuffer
<1> HIDE DEF p
<1>10. PICK tot \in Nat : tot = total /\ tot = Length(p, Len(p))
  BY <1>8
<1> HIDE DEF total
<1>11. PICK k \in 0..(Len(p) - 1), e \in Seq(Chunk) :
         /\ k = Excess(p, tot)
         /\ e = SubSeq(p, k + 1, Len(p))
         /\ Len(e) = Len(p) - k
         /\ \A i \in 1..Len(e) : e[i] = p[i + k]
         /\ tot - Length(p, k) \in Nat
         /\ tot - Length(p, k) = Length(e, Len(e))
         /\ tot - Length(p, k) <= BufferLimit \/ Len(e) = 1
         /\ k > 0 => (tot - Length(p, k)) + SizeOf(p[k]) > BufferLimit
  BY <1>7, <1>8, <1>10, Trimmed
<1>12. /\ buffer'[s] = e /\ chars'[s] = tot - Length(p, k)
       /\ \A r \in Sid \ {s} : buffer'[r] = buffer[r] /\ chars'[r] = chars[r]
       /\ chars' \in [Sid -> Nat]
  BY <1>1, <1>9, <1>10, <1>11 DEF BufferInv, TypeInv, TypeOK, WorkerOK
<1>13. b # <<>> => b[Len(b)].pos = got[s] /\ got[s] > 1 /\ Len(b) \in 1..Len(b) /\ 1 \in 1..Len(b)
  <2> SUFFICES ASSUME b # <<>>
               PROVE  b[Len(b)].pos = got[s] /\ got[s] > 1 /\ Len(b) \in 1..Len(b) /\ 1 \in 1..Len(b)
    OBVIOUS
  <2>1. Len(b) \in 1..Len(b) /\ 1 \in 1..Len(b)
    OBVIOUS
  <2>2. b[Len(b)].pos \in 2..got[s]
    BY <1>5, <2>1
  <2> QED
    BY <1>1, <1>5, <2>1, <2>2, OutputsSoFar
<1>14. b = <<>> => got[s] + 1 = 2
  BY <1>1, <1>2, <1>5, OutputsSoFar
<1>15. /\ \A i \in 1..Len(p) : p[i].sid = s /\ p[i].pos \in 2..(got[s] + 1) /\ sent[s][p[i].pos].type = "output"
       /\ \A i \in 1..(Len(p) - 1) : p[i + 1].pos = p[i].pos + 1
  <2>1. \A i \in 1..Len(p) : p[i].sid = s /\ p[i].pos \in 2..(got[s] + 1) /\ sent[s][p[i].pos].type = "output"
    <3> SUFFICES ASSUME NEW i \in 1..Len(p)
                 PROVE  p[i].sid = s /\ p[i].pos \in 2..(got[s] + 1) /\ sent[s][p[i].pos].type = "output"
      OBVIOUS
    <3>1. CASE i \in 1..Len(b)
      <4>1. p[i] = b[i] /\ b[i].sid = s /\ b[i].pos \in 2..got[s] /\ sent[s][b[i].pos].type = "output"
        BY <1>5, <1>7, <3>1
      <4>2. 2..got[s] \subseteq 2..(got[s] + 1)
        <5>1. \A n \in Nat : 2..n \subseteq 2..(n + 1)
          OBVIOUS
        <5> QED
          BY <1>1, <5>1
      <4> QED
        BY <4>1, <4>2
    <3>2. CASE i = Len(b) + 1
      BY <1>1, <1>2, <1>4, <1>7, <3>2
    <3> QED
      BY <1>7, <3>1, <3>2
  <2>2. \A i \in 1..(Len(p) - 1) : p[i + 1].pos = p[i].pos + 1
    <3> SUFFICES ASSUME NEW i \in 1..(Len(p) - 1)
                 PROVE  p[i + 1].pos = p[i].pos + 1
      OBVIOUS
    <3>1. i \in 1..Len(b) /\ p[i] = b[i]
      BY <1>7
    <3>2. CASE i \in 1..(Len(b) - 1)
      <4>1. i + 1 \in 1..Len(b)
        BY <1>7, <3>2
      <4> QED
        BY <1>5, <1>7, <3>1, <3>2, <4>1
    <3>3. CASE i = Len(b)
      <4>1. b # <<>>
        BY <3>1
      <4> QED
        BY <1>4, <1>7, <1>13, <3>1, <3>3, <4>1
    <3> QED
      BY <1>7, <3>1, <3>2, <3>3
  <2> QED
    BY <2>1, <2>2
<1>16. /\ Len(e) \in Nat \ {0} /\ e # <<>>
       /\ \A i \in 1..Len(e) : i + k \in 1..Len(p) /\ e[i] = p[i + k]
       /\ e[Len(e)] = c
  <2>1. Len(p) \in Nat \ {0} /\ Len(p) = Len(b) + 1
    BY <1>7
  <2>2. k \in Nat /\ k <= Len(p) - 1
    BY <2>1
  <2>3. Len(e) \in Nat \ {0} /\ Len(e) + k = Len(p) /\ Len(e) = Len(p) - k
    <3>1. Len(e) = Len(p) - k
      BY <1>11
    <3> QED
      BY <2>1, <2>2, <3>1
  <2>4. \A i \in 1..Len(e) : i + k \in 1..Len(p)
    BY <2>1, <2>2, <2>3
  <2>5. \A i \in 1..Len(e) : i + k \in 1..Len(p) /\ e[i] = p[i + k]
    BY <1>11, <2>4
  <2>6. e[Len(e)] = p[Len(e) + k]
    BY <2>3, <2>5
  <2> QED
    BY <1>7, <2>1, <2>3, <2>5, <2>6
<1>17. \A i \in 1..Len(e) : e[i].sid = s /\ e[i].pos \in 2..(got[s] + 1) /\ sent[s][e[i].pos].type = "output"
  BY <1>15, <1>16
<1>18. \A i \in 1..(Len(e) - 1) : e[i + 1].pos = e[i].pos + 1
  <2> SUFFICES ASSUME NEW i \in 1..(Len(e) - 1)
               PROVE  e[i + 1].pos = e[i].pos + 1
    OBVIOUS
  <2>1. Len(p) \in Nat \ {0} /\ Len(e) = Len(p) - k
    BY <1>7, <1>11
  <2>2. k \in Nat /\ k <= Len(p) - 1
    BY <2>1
  <2>3. i \in 1..Len(e) /\ i + 1 \in 1..Len(e) /\ i + k \in 1..(Len(p) - 1) /\ (i + 1) + k = (i + k) + 1
    BY <2>1, <2>2
  <2> QED
    BY <1>15, <1>16, <2>3
<1>19. LastOutput(s)' = got[s] + 1
  BY <1>1, LastArrives
<1>20. e[1].pos > 2 => (tot - Length(p, k)) + sent[s][e[1].pos - 1].size > BufferLimit
  <2> SUFFICES ASSUME e[1].pos > 2
               PROVE  (tot - Length(p, k)) + sent[s][e[1].pos - 1].size > BufferLimit
    OBVIOUS
  <2>1. 1 \in 1..Len(e) /\ e[1] = p[1 + k]
    BY <1>16
  <2>2. CASE k = 0
    <3>1. b # <<>>
      BY <1>4, <1>7, <1>14, <2>1, <2>2
    <3>2. e[1] = b[1] /\ 1 \in 1..Len(b)
      BY <1>7, <1>13, <2>1, <2>2, <3>1
    <3>3. chars[s] + sent[s][e[1].pos - 1].size > BufferLimit
      BY <1>5, <3>1, <3>2
    <3>4. Length(p, k) = 0 /\ tot = chars[s] + SizeOf(c)
      BY <1>7, <1>8, <1>10, <2>2, LengthIs DEF total
    <3>5. b[1].pos \in 2..got[s]
      BY <1>5, <3>2
    <3>6. e[1].pos - 1 \in 1..got[s]
      <4>1. \A n \in Nat : \A i \in 2..n : i > 2 => i - 1 \in 1..n
        OBVIOUS
      <4> QED
        BY <1>1, <3>2, <3>5, <4>1
    <3>7. sent[s][e[1].pos - 1].size \in Nat /\ BufferLimit \in Nat
      BY <3>6, SizesAreTyped, WorkerConstants
    <3>8. tot - Length(p, k) = chars[s] + SizeOf(c)
      BY <1>5, <1>6, <2>2, <3>4
    <3>9. PICK x \in Nat, y \in Nat, z \in Nat : x = chars[s] /\ y = SizeOf(c) /\ z = sent[s][e[1].pos - 1].size
      BY <1>5, <1>6, <3>7
    <3>10. x + z > BufferLimit /\ tot - Length(p, k) = x + y
      BY <3>3, <3>8, <3>9
    <3>11. (x + y) + z > BufferLimit
      BY <3>7, <3>10
    <3> QED
      BY <3>9, <3>10, <3>11
  <2>3. CASE k > 0
    <3>1. k \in 1..(Len(p) - 1) /\ 1 + k = k + 1 /\ k \in 1..Len(p)
      BY <1>7, <1>11, <2>3
    <3>2. p[k].pos = e[1].pos - 1 /\ p[k].sid = s
      BY <1>1, <1>15, <2>1, <3>1
    <3>3. SizeOf(p[k]) = sent[s][e[1].pos - 1].size
      BY <3>2 DEF SizeOf
    <3> QED
      BY <1>11, <2>3, <3>3
  <2>4. k \in Nat
    BY <1>7
  <2> QED
    BY <2>2, <2>3, <2>4
<1>21. Buffered(s)'
  <2>1. chars'[s] = Length(buffer[s], Len(buffer[s]))'
    <3>1. [j \in 1..Len(e) |-> sent'[e[j].sid][e[j].pos].size] = [j \in 1..Len(e) |-> sent[e[j].sid][e[j].pos].size]
      BY <1>1
    <3>2. Length(e, Len(e)) = RunningSum([j \in 1..Len(e) |-> sent[e[j].sid][e[j].pos].size])[Len(e)]
      BY DEF Length, SizeOf
    <3>3. Length(buffer[s], Len(buffer[s]))' = RunningSum([j \in 1..Len(e) |-> sent'[e[j].sid][e[j].pos].size])[Len(e)]
      BY <1>12 DEF Length, SizeOf
    <3>4. chars'[s] = Length(e, Len(e))
      BY <1>11, <1>12
    <3> HIDE DEF Length
    <3>5. Length(buffer[s], Len(buffer[s]))' = Length(e, Len(e))
      BY <3>1, <3>2, <3>3
    <3> QED
      BY <3>4, <3>5
  <2>2. chars'[s] \in Nat /\ (chars'[s] <= BufferLimit \/ Len(buffer'[s]) = 1)
    BY <1>11, <1>12
  <2>3. buffer'[s] # <<>> /\ buffer'[s][Len(buffer'[s])].pos = got[s] + 1
    BY <1>4, <1>12, <1>16
  <2>4. \A i \in 1..Len(buffer'[s]) :
          buffer'[s][i].sid = s /\ buffer'[s][i].pos \in 2..got'[s] /\ sent'[s][buffer'[s][i].pos].type = "output"
    BY <1>1, <1>12, <1>17
  <2>5. \A i \in 1..(Len(buffer'[s]) - 1) : buffer'[s][i + 1].pos = buffer'[s][i].pos + 1
    BY <1>12, <1>18
  <2>6. buffer'[s][1].pos > 2 => chars'[s] + sent'[s][buffer'[s][1].pos - 1].size > BufferLimit
    BY <1>1, <1>12, <1>20
  <2> QED
    BY <1>19, <2>1, <2>2, <2>3, <2>4, <2>5, <2>6 DEF Buffered
<1> QED
  BY <1>12, <1>21
(* A message that is no output leaves the buffer as it is.                 *)
LEMMA BufferedPasses ==
  ASSUME SpokenInv, NEW s \in Sid, Buffered(s), WsMessage(s),
         sent[s][got[s] + 1].type # "output", UNCHANGED <<buffer, chars>>
  PROVE  Buffered(s)'
<1>1. TypeInv /\ SocketsInv
  BY DEF SpokenInv
<1>2. got[s] \in Nat /\ got'[s] = got[s] + 1 /\ sent' = sent
  BY <1>1, Arriving
<1>3. LastOutput(s)' = LastOutput(s)
  BY <1>2, LastArrives
<1>4. 2..got[s] \subseteq 2..got'[s]
  <2>1. \A n \in Nat : 2..n \subseteq 2..(n + 1)
    OBVIOUS
  <2> QED
    BY <1>2, <2>1
<1>5. Length(buffer[s], Len(buffer[s]))' = Length(buffer[s], Len(buffer[s]))
  BY <1>2 DEF Length, SizeOf
<1>6. \A i \in 1..Len(buffer'[s]) :
        buffer'[s][i].sid = s /\ buffer'[s][i].pos \in 2..got'[s] /\ sent'[s][buffer'[s][i].pos].type = "output"
  BY <1>2, <1>4 DEF Buffered
<1> QED
  BY <1>2, <1>3, <1>5, <1>6 DEF Buffered

LEMMA BufferStep ==
  ASSUME SpokenInv, BufferInv, [Next]_vars
  PROVE  BufferInv'
<1>1. \A s \in Sid : Advance(s) /\ Buffered(s)
  BY Advances DEF BufferInv
<1>2. CASE UNCHANGED <<buffer, chars, got>>
  BY <1>1, <1>2, BufferedKept DEF BufferInv
<1>3. ASSUME NEW s \in Sid, WsMessage(s)
      PROVE  BufferInv'
  <2>1. TypeInv /\ SocketsInv
    BY DEF SpokenInv
  <2>2. \A r \in Sid \ {s} : got'[r] = got[r]
    BY <1>3, <2>1, Arriving
  <2>3. CASE OnServerOutput(s, sent[s][got[s] + 1])
    <3>1. /\ Buffered(s)' /\ chars' \in [Sid -> Nat]
          /\ \A r \in Sid \ {s} : buffer'[r] = buffer[r] /\ chars'[r] = chars[r]
      BY <1>3, <2>3, BufferedArrives
    <3>2. \A r \in Sid \ {s} : Buffered(r)'
      BY <1>1, <2>2, <3>1, BufferedKept
    <3> QED
      BY <3>1, <3>2 DEF BufferInv
  <2>4. CASE OnServerNews(s, sent[s][got[s] + 1]) \/ OnServerClosed(s, sent[s][got[s] + 1])
    <3>1. UNCHANGED <<buffer, chars>> /\ sent[s][got[s] + 1].type # "output"
      BY <2>4 DEF OnServerNews, OnServerClosed
    <3>2. Buffered(s)'
      BY <1>1, <1>3, <3>1, BufferedPasses
    <3>3. \A r \in Sid \ {s} : Buffered(r)'
      BY <1>1, <2>2, <3>1, BufferedKept
    <3> QED
      BY <3>1, <3>2, <3>3 DEF BufferInv
  <2> QED
    BY <1>3, <2>3, <2>4 DEF WsMessage
<1>4. CASE UNCHANGED vars
  BY <1>2, <1>4 DEF vars, workerVars
<1>5. ASSUME NEW t \in Term, UserStep(t) \/ ElementStep(t) \/ PortStep(t)
      PROVE  UNCHANGED <<buffer, chars, got>>
  BY <1>5 DEF UserStep, ElementStep, PortStep, CreateSession, AttachToSession, ForwardInput, DetachPort, workerVars
<1>6. ASSUME NEW s \in Sid, SocketStep(s) \/ GatewayStep(s)
      PROVE  WsMessage(s) \/ UNCHANGED <<buffer, chars, got>>
  BY <1>6 DEF SocketStep, GatewayStep, WsOpen, WsFailed, WsClosing, WsLost, WsGone, GatewayTakesInit, GatewaySends
<1> QED
  BY <1>2, <1>3, <1>4, <1>5, <1>6 DEF Next

LEMMA BufferInit == Init => BufferInv
<1> SUFFICES ASSUME Init
             PROVE  BufferInv
  OBVIOUS
<1>1. \A s \in Sid : buffer[s] = <<>> /\ chars[s] = 0 /\ got[s] = 0
  BY DEF Init, WorkerInit
<1>2. chars \in [Sid -> Nat]
  BY DEF Init, WorkerInit
<1>3. ASSUME NEW s \in Sid
      PROVE  Buffered(s)
  <2>1. LastOutput(s) = 0
    <3>1. got[s] \in Nat /\ got[s] = 0
      BY <1>1
    <3>2. LastOutput(s) \in 0..got[s]
      BY <3>1, LastIs
    <3> QED
      BY <3>1, <3>2
  <2>2. Length(<<>>, 0) = 0
    <3>1. <<>> \in Seq(Chunk) /\ Sized(<<>>)
      BY DEF Sized
    <3> QED
      BY <3>1, LengthIs
  <2>3. Len(<<>>) = 0 /\ BufferLimit \in Nat
    BY WorkerConstants
  <2> QED
    BY <1>1, <2>1, <2>2, <2>3 DEF Buffered
<1> QED
  BY <1>2, <1>3 DEF BufferInv

HeldInv == SeenInv /\ BufferInv

LEMMA HeldStep == HeldInv /\ [Next]_vars => HeldInv'
  BY TypesStep, MintStep, SocketsStep, NamesStep, ViewersStep, BufferStep DEF HeldInv, SeenInv, NamedInv, SpokenInv

LEMMA HeldInit == Init => HeldInv
  BY SpokenInit, NamesInit, ViewersInit, BufferInit DEF HeldInv, SeenInv, NamedInv

LEMMA HeldHolds == Spec => []HeldInv
  BY HeldStep, HeldInit, PTL DEF Spec

(* The replay buffer is the latest output without a gap, bufferChars its   *)
(* length, and nothing that would still fit has been dropped from it.      *)
THEOREM BufferIsLatest == Spec => []BufferKeepsLatest
<1>1. HeldInv => BufferKeepsLatest
  <2> SUFFICES ASSUME HeldInv, NEW s \in Sid
               PROVE  /\ Unbroken(buffer[s], s)
                      /\ UpTo(buffer[s], LastOutput(s))
                      /\ chars[s] = Length(buffer[s], Len(buffer[s]))
                      /\ chars[s] <= BufferLimit \/ Len(buffer[s]) = 1
                      /\ buffer[s] # <<>> /\ buffer[s][1].pos > 2 =>
                           chars[s] + sent[s][buffer[s][1].pos - 1].size > BufferLimit
    BY DEF BufferKeepsLatest
  <2>1. Buffered(s) /\ buffer[s] \in Seq(Chunk)
    BY DEF HeldInv, BufferInv, SeenInv, NamedInv, SpokenInv, TypeInv, TypeOK, WorkerOK
  <2>2. DOMAIN buffer[s] = 1..Len(buffer[s])
    BY <2>1
  <2>3. Unbroken(buffer[s], s)
    BY <2>1, <2>2 DEF Unbroken, Buffered
  <2>4. UpTo(buffer[s], LastOutput(s))
    <3>1. ~(0 > 0)
      OBVIOUS
    <3> QED
      BY <2>1, <3>1 DEF UpTo, Buffered
  <2> QED
    BY <2>1, <2>3, <2>4 DEF Buffered
<1> QED
  BY <1>1, HeldHolds, PTL

-----------------------------------------------------------------------------
(* Runs: f shows the outputs a to b of s, each once and in their order.    *)
InPieces(f, n, s, a, b) ==
  \A i \in 0..n : \A k \in 1..Len(f[i]) : f[i][k].sid = s /\ f[i][k].pos \in a..b

Shows(f, n, p) == \E i \in 0..n : \E k \in 1..Len(f[i]) : f[i][k].pos = p

Ordered(f, n) ==
  \A i, j \in 0..n : \A k \in 1..Len(f[i]), l \in 1..Len(f[j]) :
    i < j \/ (i = j /\ k < l) => f[i][k].pos < f[j][l].pos

Run(f, n, s, a, b) == /\ InPieces(f, n, s, a, b)
                      /\ \A p \in a..b : Shows(f, n, p)
                      /\ Ordered(f, n)

LEMMA EmptyRun ==
  ASSUME NEW n \in Nat, NEW f \in [0..n -> Seq(Chunk)], NEW s, \A i \in 0..n : f[i] = <<>>
  PROVE  Run(f, n, s, 2, 0)
<1>1. \A i \in 0..n : \A k \in 1..Len(f[i]) : FALSE
  OBVIOUS
<1>2. \A p \in 2..0 : FALSE
  OBVIOUS
<1> QED
  BY <1>1, <1>2 DEF Run, InPieces, Ordered

(* Pieces that are empty add nothing. *)
LEMMA LongerRun ==
  ASSUME NEW n \in Nat, NEW m \in Nat, n <= m,
         NEW f \in [0..n -> Seq(Chunk)], NEW g \in [0..m -> Seq(Chunk)],
         \A i \in 0..n : g[i] = f[i], \A i \in (n + 1)..m : g[i] = <<>>,
         NEW s, NEW a \in Nat, NEW b \in Nat, Run(f, n, s, a, b)
  PROVE  Run(g, m, s, a, b)
<1>1. \A i \in 0..m : \A k \in 1..Len(g[i]) : i \in 0..n /\ g[i] = f[i]
  <2> SUFFICES ASSUME NEW i \in 0..m, NEW k \in 1..Len(g[i])
               PROVE  i \in 0..n /\ g[i] = f[i]
    OBVIOUS
  <2>1. i \notin (n + 1)..m
    OBVIOUS
  <2>2. i \in 0..n
    BY <2>1
  <2> QED
    BY <2>2
<1>2. 0..n \subseteq 0..m
  OBVIOUS
<1>3. InPieces(g, m, s, a, b)
  BY <1>1 DEF InPieces, Run
<1>4. \A p \in a..b : Shows(g, m, p)
  <2> SUFFICES ASSUME NEW p \in a..b
               PROVE  Shows(g, m, p)
    OBVIOUS
  <2>1. PICK i \in 0..n : \E k \in 1..Len(f[i]) : f[i][k].pos = p
    BY DEF Shows, Run
  <2>2. i \in 0..m /\ g[i] = f[i]
    BY <1>2
  <2> QED
    BY <2>1, <2>2 DEF Shows
<1>5. Ordered(g, m)
  BY <1>1 DEF Ordered, Run
<1> QED
  BY <1>3, <1>4, <1>5 DEF Run

(* The next output joins the run. *)
LEMMA NextInRun ==
  ASSUME NEW n \in Nat, NEW f \in [0..n -> Seq(Chunk)], NEW g \in [0..(n + 1) -> Seq(Chunk)],
         NEW c \in Chunk, \A i \in 0..n : g[i] = f[i], g[n + 1] = <<c>>,
         NEW s, NEW a \in Nat, NEW b \in Nat, Run(f, n, s, a, b), a <= b + 1,
         c.sid = s, c.pos = b + 1
  PROVE  Run(g, n + 1, s, a, b + 1)
<1>1. Len(<<c>>) = 1 /\ <<c>>[1] = c /\ n + 1 \in 0..(n + 1)
  OBVIOUS
<1>2. \A i \in 0..(n + 1) : i \in 0..n \/ i = n + 1
  OBVIOUS
<1>3. \A k \in 1..Len(g[n + 1]) : g[n + 1][k] = c /\ k = 1
  BY <1>1
<1>4. a..b \subseteq a..(b + 1) /\ b + 1 \in a..(b + 1) /\ 0..n \subseteq 0..(n + 1)
      /\ \A p \in a..(b + 1) : p \in a..b \/ p = b + 1
  OBVIOUS
<1>5. InPieces(g, n + 1, s, a, b + 1)
  BY <1>2, <1>3, <1>4, SMTT(30) DEF InPieces, Run
<1>6. \A p \in a..(b + 1) : Shows(g, n + 1, p)
  <2>1. Shows(g, n + 1, b + 1)
    <3>1. 1 \in 1..Len(g[n + 1]) /\ g[n + 1][1].pos = b + 1
      BY <1>1
    <3> QED
      BY <1>1, <3>1 DEF Shows
  <2>2. \A p \in a..b : Shows(g, n + 1, p)
    <3> SUFFICES ASSUME NEW p \in a..b
                 PROVE  Shows(g, n + 1, p)
      OBVIOUS
    <3>1. PICK i \in 0..n : \E k \in 1..Len(f[i]) : f[i][k].pos = p
      BY DEF Shows, Run
    <3>2. i \in 0..(n + 1) /\ g[i] = f[i]
      BY <1>4
    <3> QED
      BY <3>1, <3>2 DEF Shows
  <2> QED
    BY <1>4, <2>1, <2>2
<1>7. Ordered(g, n + 1)
  <2> SUFFICES ASSUME NEW i \in 0..(n + 1), NEW j \in 0..(n + 1),
                      NEW k \in 1..Len(g[i]), NEW l \in 1..Len(g[j]),
                      i < j \/ (i = j /\ k < l)
               PROVE  g[i][k].pos < g[j][l].pos
    BY DEF Ordered
  <2>1. CASE i \in 0..n /\ j \in 0..n
    BY <2>1 DEF Ordered, Run
  <2>2. CASE i \in 0..n /\ j = n + 1
    <3>1. g[i][k].pos \in a..b /\ g[j][l].pos = b + 1
      BY <1>3, <2>2 DEF InPieces, Run
    <3> QED
      BY <3>1
  <2>3. CASE i = n + 1
    <3>1. j = n + 1
      BY <2>3
    <3>2. j = n + 1 /\ k = 1
      BY <1>3, <2>3, <3>1
    <3>3. l = 1
      BY <1>3, <3>2
    <3> QED
      BY <2>3, <3>2, <3>3
  <2> QED
    BY <1>2, <2>1, <2>2, <2>3
<1> QED
  BY <1>5, <1>6, <1>7 DEF Run

(* A replay is a run of its own. *)
LEMMA ReplayRun ==
  ASSUME NEW n \in Nat, NEW g \in [0..n -> Seq(Chunk)], NEW d \in Seq(Chunk), d # <<>>, NEW s,
         \A i \in 0..(n - 1) : g[i] = <<>>, g[n] = d,
         \A i \in 1..Len(d) : d[i].sid = s,
         \A i \in 1..(Len(d) - 1) : d[i + 1].pos = d[i].pos + 1
  PROVE  /\ d[1].pos \in Nat /\ d[Len(d)].pos \in Nat /\ d[1].pos <= d[Len(d)].pos
         /\ Run(g, n, s, d[1].pos, d[Len(d)].pos)
<1>1. PICK len \in Nat \ {0} : len = Len(d)
  OBVIOUS
<1>2. \A i \in 1..len : d[i] \in Chunk /\ d[i].pos \in Nat
  <2>1. \A c \in Chunk : c.pos \in Nat
    BY DEF Chunk
  <2>2. \A i \in 1..len : d[i] \in Chunk
    BY <1>1
  <2> QED
    BY <2>1, <2>2
<1>3. PICK a \in Nat : a = d[1].pos
  <2>1. 1 \in 1..len
    OBVIOUS
  <2> QED
    BY <1>2, <2>1
<1>4. \A i \in 1..len : d[i].pos = a + (i - 1)
  <2> DEFINE T == {m \in Nat : m < len => d[m + 1].pos = a + m}
  <2>1. 0 \in T
    BY <1>3
  <2>2. ASSUME NEW m \in T
        PROVE  m + 1 \in T
    <3>1. m \in Nat /\ m + 1 \in Nat
      OBVIOUS
    <3> SUFFICES ASSUME m + 1 < len
                 PROVE  d[(m + 1) + 1].pos = a + (m + 1)
      BY <3>1
    <3>2. m < len /\ m + 1 \in 1..(len - 1)
      BY <3>1
    <3>3. d[m + 1].pos = a + m
      BY <3>2
    <3>4. d[(m + 1) + 1].pos = d[m + 1].pos + 1
      BY <1>1, <3>2
    <3> QED
      BY <3>1, <3>3, <3>4
  <2>3. T \subseteq Nat
    OBVIOUS
  <2> HIDE DEF T
  <2>4. T = Nat
    BY <2>1, <2>2, <2>3, Reaches
  <2> USE DEF T
  <2> SUFFICES ASSUME NEW i \in 1..len
               PROVE  d[i].pos = a + (i - 1)
    OBVIOUS
  <2>5. i - 1 \in Nat /\ i - 1 < len /\ (i - 1) + 1 = i
    OBVIOUS
  <2>6. i - 1 \in T /\ i - 1 < len /\ (i - 1) + 1 = i
    BY <2>4, <2>5
  <2> QED
    BY <2>6
<1>5. d[len].pos = a + (len - 1) /\ a + (len - 1) \in Nat /\ a <= a + (len - 1)
  BY <1>4
<1>6. \A i \in 0..n : \A k \in 1..Len(g[i]) : i = n /\ k \in 1..len /\ g[i][k] = d[k]
  <2> SUFFICES ASSUME NEW i \in 0..n, NEW k \in 1..Len(g[i])
               PROVE  i = n /\ k \in 1..len /\ g[i][k] = d[k]
    OBVIOUS
  <2>1. i \notin 0..(n - 1)
    OBVIOUS
  <2>2. i = n
    BY <2>1
  <2> QED
    BY <1>1, <2>2
<1>7. InPieces(g, n, s, a, a + (len - 1))
  <2>1. \A k \in 1..len : a + (k - 1) \in a..(a + (len - 1))
    OBVIOUS
  <2> QED
    BY <1>1, <1>4, <1>6, <2>1 DEF InPieces
<1>8. \A p \in a..(a + (len - 1)) : Shows(g, n, p)
  <2> SUFFICES ASSUME NEW p \in a..(a + (len - 1))
               PROVE  Shows(g, n, p)
    OBVIOUS
  <2>1. (p - a) + 1 \in 1..len /\ a + (((p - a) + 1) - 1) = p
    OBVIOUS
  <2>2. g[n][(p - a) + 1].pos = p /\ (p - a) + 1 \in 1..Len(g[n])
    BY <1>1, <1>4, <2>1
  <2> QED
    BY <2>2 DEF Shows
<1>9. Ordered(g, n)
  <2> SUFFICES ASSUME NEW i \in 0..n, NEW j \in 0..n,
                      NEW k \in 1..Len(g[i]), NEW l \in 1..Len(g[j]),
                      i < j \/ (i = j /\ k < l)
               PROVE  g[i][k].pos < g[j][l].pos
    BY DEF Ordered
  <2>1. i = n /\ j = n /\ k \in 1..len /\ l \in 1..len /\ g[i][k] = d[k] /\ g[j][l] = d[l]
    BY <1>6
  <2>2. k < l
    BY <2>1
  <2>3. d[k].pos = a + (k - 1) /\ d[l].pos = a + (l - 1)
    BY <1>4, <2>1
  <2> QED
    BY <2>1, <2>2, <2>3
<1> QED
  BY <1>1, <1>3, <1>5, <1>7, <1>8, <1>9 DEF Run

(* The first two pieces become one. *)
LEMMA MergedRun ==
  ASSUME NEW n \in Nat, NEW f \in [0..(n + 1) -> Seq(Chunk)], NEW g \in [0..n -> Seq(Chunk)],
         g[0] = f[0] \o f[1], \A i \in 1..n : g[i] = f[i + 1],
         NEW s, NEW a \in Nat, NEW b \in Nat, Run(f, n + 1, s, a, b)
  PROVE  Run(g, n, s, a, b)
<1>1. PICK d \in Seq(Chunk), e \in Seq(Chunk) : d = f[0] /\ e = f[1]
  <2>1. 0 \in 0..(n + 1) /\ 1 \in 0..(n + 1)
    OBVIOUS
  <2> QED
    BY <2>1
<1>2. PICK x \in Nat, y \in Nat : x = Len(d) /\ y = Len(e)
  OBVIOUS
<1>3. /\ Len(g[0]) = x + y
      /\ \A k \in 1..x : g[0][k] = d[k]
      /\ \A k \in 1..(x + y) : k > x => g[0][k] = e[k - x]
      /\ 0 \in 0..n
  <2>1. g[0] = d \o e
    BY <1>1
  <2>2. \A k \in 1..(x + y) : g[0][k] = IF k <= x THEN d[k] ELSE e[k - x]
    BY <1>2, <2>1, ConcatProperties
  <2>3. Len(g[0]) = x + y
    BY <1>2, <2>1, ConcatProperties
  <2>4. \A k \in 1..x : k \in 1..(x + y) /\ k <= x
    BY <1>2
  <2>5. \A k \in 1..(x + y) : k > x => ~(k <= x)
    BY <1>2
  <2>6. 0 \in 0..n
    OBVIOUS
  <2> QED
    BY <2>2, <2>3, <2>4, <2>5, <2>6
<1> DEFINE A(i, k) == IF i = 0 THEN (IF k <= x THEN 0 ELSE 1) ELSE i + 1
           B(i, k) == IF i = 0 /\ k > x THEN k - x ELSE k
<1>4. \A i \in 0..n : \A k \in 1..Len(g[i]) :
        A(i, k) \in 0..(n + 1) /\ B(i, k) \in 1..Len(f[A(i, k)]) /\ g[i][k] = f[A(i, k)][B(i, k)]
  <2> SUFFICES ASSUME NEW i \in 0..n, NEW k \in 1..Len(g[i])
               PROVE  /\ A(i, k) \in 0..(n + 1) /\ B(i, k) \in 1..Len(f[A(i, k)])
                      /\ g[i][k] = f[A(i, k)][B(i, k)]
    OBVIOUS
  <2>1. CASE i = 0 /\ k <= x
    <3>1. A(i, k) = 0 /\ B(i, k) = k /\ k \in 1..x
      BY <1>3, <2>1
    <3> QED
      BY <1>1, <1>2, <1>3, <2>1, <3>1
  <2>2. CASE i = 0 /\ k > x
    <3>1. k \in 1..(x + y)
      BY <1>3, <2>2
    <3>2. A(i, k) = 1 /\ B(i, k) = k - x /\ k \in 1..(x + y) /\ k - x \in 1..y
      BY <1>2, <2>2, <3>1
    <3> QED
      BY <1>1, <1>2, <1>3, <2>2, <3>2
  <2>3. CASE i # 0
    <3>1. A(i, k) = i + 1 /\ B(i, k) = k /\ i \in 1..n /\ i + 1 \in 0..(n + 1)
      BY <2>3
    <3>2. g[i] = f[i + 1]
      BY <3>1
    <3> QED
      BY <3>1, <3>2
  <2>4. k <= x \/ k > x
    BY <1>2
  <2> QED
    BY <2>1, <2>2, <2>3, <2>4
<1>5. ASSUME NEW i \in 0..n, NEW j \in 0..n, NEW k \in 1..Len(g[i]), NEW l \in 1..Len(g[j]),
             i < j \/ (i = j /\ k < l)
      PROVE  A(i, k) < A(j, l) \/ (A(i, k) = A(j, l) /\ B(i, k) < B(j, l))
  <2>1. k \in Nat /\ l \in Nat /\ i \in Nat /\ j \in Nat
    OBVIOUS
  <2>2. CASE i < j
    <3>1. A(j, l) = j + 1 /\ j > 0 /\ (i = 0 => A(i, k) = 0 \/ A(i, k) = 1) /\ (i # 0 => A(i, k) = i + 1)
      BY <2>1, <2>2, SMTT(30)
    <3>2. PICK v : v = A(i, k)
      OBVIOUS
    <3>3. (i = 0 => v = 0 \/ v = 1) /\ (i # 0 => v = i + 1) /\ A(j, l) = j + 1
      BY <3>1, <3>2
    <3>4. v < j + 1
      <4>1. CASE i = 0
        BY <2>1, <2>2, <3>3, <4>1, SMTT(30)
      <4>2. CASE i # 0
        <5>1. v = i + 1
          BY <3>3, <4>2
        <5> QED
          BY <2>1, <2>2, <5>1
      <4> QED
        BY <4>1, <4>2
    <3> HIDE DEF A
    <3> QED
      BY <3>2, <3>3, <3>4
  <2>3. CASE i = j /\ k < l /\ i = 0
    BY <2>1, <2>3
  <2>4. CASE i = j /\ k < l /\ i # 0
    BY <2>1, <2>4
  <2> QED
    BY <1>5, <2>2, <2>3, <2>4
<1>6. ASSUME NEW p, Shows(f, n + 1, p)
      PROVE  Shows(g, n, p)
  <2>1. PICK i \in 0..(n + 1) : \E k \in 1..Len(f[i]) : f[i][k].pos = p
    BY <1>6 DEF Shows
  <2>2. PICK k \in 1..Len(f[i]) : f[i][k].pos = p
    BY <2>1
  <2>3. CASE i = 0
    <3>1. k \in 1..x /\ k \in 1..(x + y) /\ f[i][k] = d[k]
      BY <1>1, <1>2, <2>3
    <3>2. g[0][k] = d[k] /\ k \in 1..Len(g[0])
      BY <1>3, <3>1
    <3>3. 0 \in 0..n /\ k \in 1..Len(g[0]) /\ g[0][k].pos = p
      BY <1>3, <2>2, <3>1, <3>2
    <3> QED
      BY <3>3 DEF Shows
  <2>4. CASE i = 1
    <3>1. k \in 1..y /\ x + k \in 1..(x + y) /\ x + k > x /\ (x + k) - x = k /\ f[i][k] = e[k]
      BY <1>1, <1>2, <2>4
    <3>2. g[0][x + k] = e[k] /\ x + k \in 1..Len(g[0])
      BY <1>3, <3>1
    <3>3. 0 \in 0..n /\ x + k \in 1..Len(g[0]) /\ g[0][x + k].pos = p
      BY <1>3, <2>2, <3>1, <3>2
    <3> QED
      BY <3>3 DEF Shows
  <2>5. CASE i > 1
    <3>1. i - 1 \in 1..n /\ i - 1 \in 0..n /\ (i - 1) + 1 = i
      BY <2>5
    <3>2. g[i - 1] = f[i]
      BY <3>1
    <3> QED
      BY <2>2, <3>1, <3>2 DEF Shows
  <2> QED
    BY <2>3, <2>4, <2>5
<1> HIDE DEF A, B
<1>7. InPieces(g, n, s, a, b)
  <2> SUFFICES ASSUME NEW i \in 0..n, NEW k \in 1..Len(g[i])
               PROVE  g[i][k].sid = s /\ g[i][k].pos \in a..b
    BY DEF InPieces
  <2>1. PICK u \in 0..(n + 1) : u = A(i, k)
    BY <1>4
  <2>2. PICK v \in 1..Len(f[u]) : g[i][k] = f[u][v]
    BY <1>4, <2>1
  <2> QED
    BY <2>2 DEF InPieces, Run
<1>8. \A p \in a..b : Shows(g, n, p)
  BY <1>6 DEF Run
<1>9. Ordered(g, n)
  <2> SUFFICES ASSUME NEW i \in 0..n, NEW j \in 0..n, NEW k \in 1..Len(g[i]), NEW l \in 1..Len(g[j]),
                      i < j \/ (i = j /\ k < l)
               PROVE  g[i][k].pos < g[j][l].pos
    BY DEF Ordered
  <2>1. A(i, k) < A(j, l) \/ (A(i, k) = A(j, l) /\ B(i, k) < B(j, l))
    BY <1>5
  <2> QED
    BY <1>4, <2>1 DEF Ordered, Run
<1> QED
  BY <1>7, <1>8, <1>9 DEF Run

-----------------------------------------------------------------------------
(* What an element has been given, piece by piece.                         *)
Given(m, s) == IF m.type = "output" /\ m.sid = s THEN m.data ELSE <<>>

LEMMA Flows ==
  ASSUME TypeInv, NEW t \in Term
  PROVE  /\ Len(inbox[t]) \in Nat
         /\ Flow(t) \in [0..Len(inbox[t]) -> Seq(Chunk)]
         /\ Flow(t)[0] = queued[t] \o screen[t]
         /\ \A i \in 1..Len(inbox[t]) : Flow(t)[i] = Given(inbox[t][i], active[t])
<1>1. inbox[t] \in Seq(Outbound) /\ queued[t] \in Seq(Chunk) /\ screen[t] \in Seq(Chunk)
  BY DEF TypeInv, TypeOK, PortsOK, TerminalOK
<1>2. queued[t] \o screen[t] \in Seq(Chunk) /\ Len(inbox[t]) \in Nat
  BY <1>1
<1>3. \A i \in 1..Len(inbox[t]) : Given(inbox[t][i], active[t]) \in Seq(Chunk)
  <2>1. \A m \in Outbound : Given(m, active[t]) \in Seq(Chunk)
    BY DEF Outbound, Given
  <2> QED
    BY <1>1, <2>1
<1>4. Flow(t) = [i \in 0..Len(inbox[t]) |->
                   IF i = 0 THEN queued[t] \o screen[t] ELSE Given(inbox[t][i], active[t])]
  BY DEF Flow, Given
<1>5. \A i \in 0..Len(inbox[t]) : i = 0 \/ i \in 1..Len(inbox[t])
  BY <1>2
<1>6. 0 \in 0..Len(inbox[t]) /\ \A i \in 1..Len(inbox[t]) : i \in 0..Len(inbox[t]) /\ i # 0
  BY <1>2
<1>7. Flow(t) \in [0..Len(inbox[t]) -> Seq(Chunk)]
  BY <1>2, <1>3, <1>4, <1>5
<1> QED
  BY <1>2, <1>4, <1>6, <1>7

LEMMA FlowsNext ==
  ASSUME TypeInv', NEW t \in Term
  PROVE  /\ Len(inbox'[t]) \in Nat
         /\ Flow(t)' \in [0..Len(inbox'[t]) -> Seq(Chunk)]
         /\ Flow(t)'[0] = queued'[t] \o screen'[t]
         /\ \A i \in 1..Len(inbox'[t]) : Flow(t)'[i] = Given(inbox'[t][i], active'[t])
<1>1. inbox'[t] \in Seq(Outbound) /\ queued'[t] \in Seq(Chunk) /\ screen'[t] \in Seq(Chunk)
  BY DEF TypeInv, TypeOK, PortsOK, TerminalOK
<1>2. queued'[t] \o screen'[t] \in Seq(Chunk) /\ Len(inbox'[t]) \in Nat
  BY <1>1
<1>3. \A i \in 1..Len(inbox'[t]) : Given(inbox'[t][i], active'[t]) \in Seq(Chunk)
  <2>1. \A m \in Outbound : Given(m, active'[t]) \in Seq(Chunk)
    BY DEF Outbound, Given
  <2> QED
    BY <1>1, <2>1
<1>4. Flow(t)' = [i \in 0..Len(inbox'[t]) |->
                    IF i = 0 THEN queued'[t] \o screen'[t] ELSE Given(inbox'[t][i], active'[t])]
  BY DEF Flow, Given
<1>5. \A i \in 0..Len(inbox'[t]) : i = 0 \/ i \in 1..Len(inbox'[t])
  BY <1>2
<1>6. 0 \in 0..Len(inbox'[t]) /\ \A i \in 1..Len(inbox'[t]) : i \in 0..Len(inbox'[t]) /\ i # 0
  BY <1>2
<1>7. Flow(t)' \in [0..Len(inbox'[t]) -> Seq(Chunk)]
  BY <1>2, <1>3, <1>4, <1>5
<1> QED
  BY <1>2, <1>4, <1>6, <1>7

(* The latest output that has arrived never steps back. *)
LEMMA LastGrows ==
  ASSUME SpokenInv, [Next]_vars, NEW s \in Sid
  PROVE  /\ LastOutput(s) \in Nat /\ LastOutput(s)' \in Nat /\ LastOutput(s) <= LastOutput(s)'
         /\ got'[s] = got[s] => LastOutput(s)' = LastOutput(s)
<1>1. /\ Advance(s) /\ got[s] \in Nat /\ got[s] <= Len(sent[s]) /\ Len(sent[s]) \in Nat
      /\ \A i \in 1..got[s] : i \in 1..Len(sent[s])
  BY Advances, SizesAreTyped
<1>2. got'[s] \in Nat /\ got[s] <= got'[s] /\ \A i \in 1..got[s] : sent'[s][i] = sent[s][i] /\ i \in 1..got'[s]
  BY <1>1 DEF Advance
<1>3. LastOutput(s) \in {0} \cup Outputs(s) /\ LastOutput(s) \in 0..got[s]
  BY <1>1, LastIs
<1>4. (\A i \in Outputs(s)' : i <= LastOutput(s)') /\ LastOutput(s)' \in 0..got'[s]
  <2> DEFINE O == {i \in 1..got'[s] : sent'[s][i].type = "output"}
             S == {0} \cup O
  <2>1. S \subseteq 0..got'[s] /\ S # {}
    BY <1>2
  <2>2. LastOutput(s)' = Max(S) /\ Outputs(s)' = O
    BY DEF LastOutput, Outputs
  <2> HIDE DEF S
  <2>3. Max(S) \in S /\ \A y \in S : y <= Max(S)
    BY <1>2, <2>1, Greatest
  <2> QED
    BY <2>1, <2>2, <2>3 DEF S
<1>5. Outputs(s) \subseteq Outputs(s)'
  BY <1>2 DEF Outputs
<1>6. got'[s] = got[s] => LastOutput(s)' = LastOutput(s)
  BY <1>1, <1>2, LastIsKept
<1>7. LastOutput(s) \in Nat /\ LastOutput(s)' \in Nat
  BY <1>1, <1>2, <1>3, <1>4
<1> QED
  BY <1>3, <1>4, <1>5, <1>6, <1>7

(* What t has been given of s is the run from a to b, up to the latest     *)
(* output while t watches, and from the first one on for who opened s.     *)
Caught(t, s, a, b) ==
  /\ Run(Flow(t), Len(inbox[t]), s, a, b)
  /\ a >= 2 /\ b <= LastOutput(s)
  /\ Watching(t) /\ s \in sessions /\ t \in ports[s] /\ LastOutput(s) > 0 =>
       a <= b /\ b = LastOutput(s)
  /\ t \in Inline /\ a <= b => a = 2

Runs(t) == \A s \in Sid : active[t] = s => \E a, b \in Nat : Caught(t, s, a, b)

StreamInv == \A t \in alive : Runs(t)

(* Nothing happens to what u has been given, but for messages that bring   *)
(* no output of its session.                                               *)
LEMMA RunLengthened ==
  ASSUME SpokenInv, TypeInv', [Next]_vars, NEW u \in Term, Runs(u),
         active'[u] = active[u], queued'[u] = queued[u], screen'[u] = screen[u],
         Len(inbox[u]) <= Len(inbox'[u]),
         \A i \in 1..Len(inbox[u]) : inbox'[u][i] = inbox[u][i],
         \A i \in 1..Len(inbox'[u]) : i > Len(inbox[u]) => Given(inbox'[u][i], active[u]) = <<>>,
         NEW s \in Sid, active'[u] = s,
         Watching(u)' /\ s \in sessions' /\ u \in ports'[s] /\ LastOutput(s)' > 0 =>
           Watching(u) /\ s \in sessions /\ u \in ports[s] /\ LastOutput(s)' = LastOutput(s)
  PROVE  \E a, b \in Nat : Caught(u, s, a, b)'
<1>1. PICK a \in Nat, b \in Nat : Caught(u, s, a, b)
  BY DEF Runs
<1>2. LastOutput(s) \in Nat /\ LastOutput(s)' \in Nat /\ LastOutput(s) <= LastOutput(s)'
  BY LastGrows
<1>3. PICK n \in Nat, m \in Nat : n = Len(inbox[u]) /\ m = Len(inbox'[u])
  BY Flows, FlowsNext DEF SpokenInv
<1>4. /\ Flow(u) \in [0..n -> Seq(Chunk)]
      /\ Flow(u)[0] = queued[u] \o screen[u]
      /\ \A i \in 1..n : Flow(u)[i] = Given(inbox[u][i], active[u])
  BY <1>3, Flows DEF SpokenInv
<1>5. /\ Flow(u)' \in [0..m -> Seq(Chunk)]
      /\ Flow(u)'[0] = queued'[u] \o screen'[u]
      /\ \A i \in 1..m : Flow(u)'[i] = Given(inbox'[u][i], active'[u])
  BY <1>3, FlowsNext
<1>6. n <= m /\ \A i \in 1..n : i \in 1..m
  BY <1>3
<1>7. \A i \in 0..n : Flow(u)'[i] = Flow(u)[i]
  <2>1. \A i \in 0..n : i = 0 \/ i \in 1..n
    BY <1>3
  <2> QED
    BY <1>3, <1>4, <1>5, <1>6, <2>1
<1>8. \A i \in (n + 1)..m : Flow(u)'[i] = <<>>
  <2>1. \A i \in (n + 1)..m : i \in 1..m /\ i > n
    BY <1>3
  <2> QED
    BY <1>3, <1>5, <2>1
<1>9. Run(Flow(u)', m, s, a, b)
  <2>1. PICK f \in [0..n -> Seq(Chunk)], g \in [0..m -> Seq(Chunk)] : f = Flow(u) /\ g = Flow(u)'
    BY <1>4, <1>5
  <2>2. Run(f, n, s, a, b)
    BY <1>1, <1>3, <2>1 DEF Caught
  <2>3. /\ \A i \in 0..n : g[i] = f[i]
        /\ \A i \in (n + 1)..m : g[i] = <<>>
    BY <1>7, <1>8, <2>1
  <2>4. Run(g, m, s, a, b)
    BY <1>6, <2>2, <2>3, LongerRun
  <2> QED
    BY <2>1, <2>4
<1>10. Run(Flow(u), Len(inbox[u]), s, a, b)'
  BY <1>3, <1>9 DEF Run, InPieces, Shows, Ordered
<1>11. b <= LastOutput(s)'
  BY <1>1, <1>2 DEF Caught
<1>12. Watching(u)' /\ s \in sessions' /\ u \in ports'[s] /\ LastOutput(s)' > 0 =>
         a <= b /\ b = LastOutput(s)'
  BY <1>1 DEF Caught
<1>13. Caught(u, s, a, b)'
  BY <1>1, <1>10, <1>11, <1>12 DEF Caught
<1> QED
  BY <1>13

(* u handles its first message. *)
LEMMA RunMerged ==
  ASSUME SpokenInv, TypeInv', NEW u \in Term, Runs(u), UNCHANGED workerVars, active' = active,
         inbox[u] # <<>>, inbox' = [inbox EXCEPT ![u] = Tail(@)],
         queued'[u] \o screen'[u] = (queued[u] \o screen[u]) \o Given(inbox[u][1], active[u]),
         Watching(u)' => Watching(u),
         NEW s \in Sid, active'[u] = s
  PROVE  \E a, b \in Nat : Caught(u, s, a, b)'
<1>1. PICK a \in Nat, b \in Nat : Caught(u, s, a, b)
  BY DEF Runs
<1>2. PICK n \in Nat : n + 1 = Len(inbox[u]) /\ n = Len(inbox'[u])
  <2>1. Len(inbox[u]) \in Nat \ {0} /\ Len(inbox'[u]) = Len(inbox[u]) - 1
    BY InboxTaken DEF SpokenInv
  <2> QED
    BY <2>1
<1>3. /\ Flow(u) \in [0..(n + 1) -> Seq(Chunk)]
      /\ Flow(u)[0] = queued[u] \o screen[u]
      /\ \A i \in 1..(n + 1) : Flow(u)[i] = Given(inbox[u][i], active[u])
  BY <1>2, Flows DEF SpokenInv
<1>4. /\ Flow(u)' \in [0..n -> Seq(Chunk)]
      /\ Flow(u)'[0] = queued'[u] \o screen'[u]
      /\ \A i \in 1..n : Flow(u)'[i] = Given(inbox'[u][i], active'[u])
  BY <1>2, FlowsNext
<1>5. Flow(u)'[0] = Flow(u)[0] \o Flow(u)[1]
  <2>1. 1 \in 1..(n + 1)
    OBVIOUS
  <2> QED
    BY <1>3, <1>4, <2>1
<1>6. \A i \in 1..n : Flow(u)'[i] = Flow(u)[i + 1]
  <2>1. \A i \in 1..n : i + 1 \in 1..(n + 1) /\ inbox'[u][i] = inbox[u][i + 1]
    BY <1>2, InboxTaken DEF SpokenInv
  <2> QED
    BY <1>3, <1>4, <2>1
<1>7. Run(Flow(u)', n, s, a, b)
  <2>1. PICK f \in [0..(n + 1) -> Seq(Chunk)], g \in [0..n -> Seq(Chunk)] : f = Flow(u) /\ g = Flow(u)'
    BY <1>3, <1>4
  <2>2. Run(f, n + 1, s, a, b)
    BY <1>1, <1>2, <2>1 DEF Caught
  <2>3. g[0] = f[0] \o f[1] /\ \A i \in 1..n : g[i] = f[i + 1]
    BY <1>5, <1>6, <2>1
  <2>4. Run(g, n, s, a, b)
    BY <2>2, <2>3, MergedRun
  <2> QED
    BY <2>1, <2>4
<1>8. Run(Flow(u), Len(inbox[u]), s, a, b)'
  BY <1>2, <1>7 DEF Run, InPieces, Shows, Ordered
<1>9. LastOutput(s)' = LastOutput(s) /\ sessions' = sessions /\ ports' = ports
  BY DEF LastOutput, workerVars
<1>10. Caught(u, s, a, b)'
  BY <1>1, <1>8, <1>9 DEF Caught
<1> QED
  BY <1>10

(* u is given nothing. *)
LEMMA RunEmptied ==
  ASSUME TypeInv', NEW u \in Term, NEW s \in Sid, active'[u] = s,
         queued'[u] = <<>>, screen'[u] = <<>>,
         \A i \in 1..Len(inbox'[u]) : Given(inbox'[u][i], s) = <<>>,
         LastOutput(s)' \in Nat,
         ~(Watching(u)' /\ s \in sessions' /\ u \in ports'[s])
  PROVE  \E a, b \in Nat : Caught(u, s, a, b)'
<1>1. PICK n \in Nat : n = Len(inbox'[u])
  BY FlowsNext
<1>2. /\ Flow(u)' \in [0..n -> Seq(Chunk)]
      /\ Flow(u)'[0] = queued'[u] \o screen'[u]
      /\ \A i \in 1..n : Flow(u)'[i] = Given(inbox'[u][i], s)
  BY <1>1, FlowsNext
<1>3. \A i \in 0..n : Flow(u)'[i] = <<>>
  <2>1. \A i \in 0..n : i = 0 \/ i \in 1..n
    OBVIOUS
  <2>2. <<>> \o <<>> = <<>>
    OBVIOUS
  <2> QED
    BY <1>1, <1>2, <2>1, <2>2
<1>4. Run(Flow(u)', n, s, 2, 0)
  <2>1. PICK g \in [0..n -> Seq(Chunk)] : g = Flow(u)'
    BY <1>2
  <2>2. Run(g, n, s, 2, 0)
    BY <1>3, <2>1, EmptyRun
  <2> QED
    BY <2>1, <2>2
<1>5. Run(Flow(u), Len(inbox[u]), s, 2, 0)'
  BY <1>1, <1>4 DEF Run, InPieces, Shows, Ordered
<1>6. 2 \in Nat /\ 0 \in Nat /\ ~(2 <= 0) /\ 0 <= LastOutput(s)' /\ 2 >= 2
  OBVIOUS
<1>7. Caught(u, s, 2, 0)'
  BY <1>5, <1>6 DEF Caught
<1> QED
  BY <1>6, <1>7

(* The next output of its session is on its way to u. *)
LEMMA RunGrows ==
  ASSUME SpokenInv, TypeInv', NEW u \in Term, Runs(u),
         active'[u] = active[u], queued'[u] = queued[u], screen'[u] = screen[u],
         NEW s \in Sid, active'[u] = s, NEW c \in Chunk, c.sid = s, c.pos \in Nat,
         inbox'[u] = inbox[u] \o <<Show(s, <<c>>)>>,
         c.pos >= 2, LastOutput(s) \in Nat, LastOutput(s)' = c.pos,
         c.pos > 2 => LastOutput(s) = c.pos - 1 /\ LastOutput(s) > 0, c.pos = 2 => LastOutput(s) = 0,
         Watching(u) /\ s \in sessions /\ u \in ports[s]
  PROVE  \E a, b \in Nat : Caught(u, s, a, b)'
<1>1. PICK x \in Nat, b \in Nat : Caught(u, s, x, b)
  BY DEF Runs
<1>2. PICK a \in Nat, e \in Nat :
         /\ Run(Flow(u), Len(inbox[u]), s, a, e)
         /\ a >= 2 /\ a <= e + 1 /\ e + 1 = c.pos
         /\ u \in Inline => a = 2
  <2>1. CASE c.pos > 2
    <3>1. x <= b /\ b = c.pos - 1
      BY <1>1, <2>1 DEF Caught
    <3>2. /\ Run(Flow(u), Len(inbox[u]), s, x, b)
          /\ x >= 2 /\ x <= b + 1 /\ b + 1 = c.pos
          /\ u \in Inline => x = 2
      BY <1>1, <3>1 DEF Caught
    <3> QED
      BY <3>2
  <2>2. CASE c.pos = 2
    <3>1. \A p \in x..b : FALSE
      BY <1>1, <2>2 DEF Caught
    <3>2. \A p \in 2..1 : FALSE
      OBVIOUS
    <3>3. Run(Flow(u), Len(inbox[u]), s, 2, 1)
      BY <1>1, <3>1, <3>2 DEF Caught, Run, InPieces
    <3>4. 2 \in Nat /\ 1 \in Nat /\ 2 >= 2 /\ 2 <= 1 + 1 /\ 1 + 1 = c.pos
      BY <2>2
    <3> QED
      BY <3>3, <3>4
  <2> QED
    BY <2>1, <2>2
<1>3. PICK n \in Nat : n = Len(inbox[u]) /\ n + 1 = Len(inbox'[u])
  <2>1. inbox[u] \in Seq(Outbound)
    BY DEF SpokenInv, TypeInv, TypeOK, PortsOK
  <2>2. <<Show(s, <<c>>)>> \in Seq(Outbound) /\ Len(<<Show(s, <<c>>)>>) = 1
    <3>1. <<c>> \in Seq(Chunk)
      OBVIOUS
    <3>2. PICK m \in Outbound : m = Show(s, <<c>>)
      BY <3>1, ShowIs
    <3>3. <<m>> \in Seq(Outbound) /\ Len(<<m>>) = 1
      OBVIOUS
    <3> QED
      BY <3>2, <3>3
  <2>3. Len(inbox'[u]) = Len(inbox[u]) + 1
    BY <2>1, <2>2, ConcatProperties
  <2>4. Len(inbox[u]) \in Nat
    BY <2>1
  <2> QED
    BY <2>3, <2>4
<1>4. /\ Flow(u) \in [0..n -> Seq(Chunk)]
      /\ Flow(u)[0] = queued[u] \o screen[u]
      /\ \A i \in 1..n : Flow(u)[i] = Given(inbox[u][i], s)
  BY <1>3, Flows DEF SpokenInv
<1>5. /\ Flow(u)' \in [0..(n + 1) -> Seq(Chunk)]
      /\ Flow(u)'[0] = queued'[u] \o screen'[u]
      /\ \A i \in 1..(n + 1) : Flow(u)'[i] = Given(inbox'[u][i], s)
  BY <1>3, FlowsNext
<1>6. \A i \in 1..n : inbox'[u][i] = inbox[u][i] /\ i \in 1..(n + 1)
  <2>1. inbox[u] \in Seq(Outbound)
    BY DEF SpokenInv, TypeInv, TypeOK, PortsOK
  <2> QED
    BY <1>3, <2>1
<1>7. \A i \in 0..n : Flow(u)'[i] = Flow(u)[i]
  <2>1. \A i \in 0..n : i = 0 \/ i \in 1..n
    OBVIOUS
  <2> QED
    BY <1>4, <1>5, <1>6, <2>1
<1>8. Flow(u)'[n + 1] = <<c>>
  <2>1. inbox[u] \in Seq(Outbound) /\ n + 1 \in 1..(n + 1)
    BY DEF SpokenInv, TypeInv, TypeOK, PortsOK
  <2>2. inbox'[u][n + 1] = Show(s, <<c>>)
    BY <1>3, <2>1
  <2>3. Given(Show(s, <<c>>), s) = <<c>>
    BY DEF Given, Show
  <2> QED
    BY <1>5, <2>1, <2>2, <2>3
<1>9. Run(Flow(u)', n + 1, s, a, e + 1)
  <2>1. PICK f \in [0..n -> Seq(Chunk)], g \in [0..(n + 1) -> Seq(Chunk)] : f = Flow(u) /\ g = Flow(u)'
    BY <1>4, <1>5
  <2>2. Run(f, n, s, a, e)
    BY <1>2, <1>3, <2>1
  <2>3. (\A i \in 0..n : g[i] = f[i]) /\ g[n + 1] = <<c>>
    BY <1>7, <1>8, <2>1
  <2>4. c.pos = e + 1
    BY <1>2
  <2>5. Run(g, n + 1, s, a, e + 1)
    BY <1>2, <2>2, <2>3, <2>4, NextInRun
  <2> QED
    BY <2>1, <2>5
<1>10. Run(Flow(u), Len(inbox[u]), s, a, e + 1)'
  BY <1>3, <1>9 DEF Run, InPieces, Shows, Ordered
<1>11. /\ e + 1 \in Nat /\ a >= 2 /\ e + 1 <= LastOutput(s)' /\ a <= e + 1 /\ e + 1 = LastOutput(s)'
       /\ u \in Inline => a = 2
  BY <1>2
<1>12. Caught(u, s, a, e + 1)'
  BY <1>10, <1>11 DEF Caught
<1> QED
  BY <1>11, <1>12

(* The replay of its session is on its way to u, and nothing else. *)
LEMMA RunReplayed ==
  ASSUME SpokenInv, BufferInv, TypeInv', NEW u \in Term, NEW s \in Sid, active'[u] = s,
         u \notin Inline, buffer[s] # <<>>, LastOutput(s)' = LastOutput(s),
         queued'[u] = <<>>, screen'[u] = <<>>,
         \A i \in 1..Len(inbox[u]) : inbox[u][i].sid # s,
         NEW ms \in Seq(Outbound), inbox'[u] = inbox[u] \o ms, Len(ms) = 2,
         ms[1].type = "ready", ms[2].type = "output", ms[2].sid = s, ms[2].data = buffer[s]
  PROVE  \E a, b \in Nat : Caught(u, s, a, b)'
<1>1. PICK d \in Seq(Chunk) : d = buffer[s] /\ d # <<>>
  BY DEF SpokenInv, TypeInv, TypeOK, WorkerOK
<1>2. /\ \A i \in 1..Len(d) : d[i].sid = s /\ d[i].pos \in 2..got[s]
      /\ \A i \in 1..(Len(d) - 1) : d[i + 1].pos = d[i].pos + 1
      /\ d[Len(d)].pos = LastOutput(s)
  BY <1>1 DEF BufferInv, Buffered
<1>3. PICK n \in Nat : n = Len(inbox[u]) /\ n + 2 = Len(inbox'[u])
  <2>1. inbox[u] \in Seq(Outbound)
    BY DEF SpokenInv, TypeInv, TypeOK, PortsOK
  <2>2. Len(inbox[u] \o ms) = Len(inbox[u]) + Len(ms)
    BY <2>1, ConcatProperties
  <2>3. Len(inbox'[u]) = Len(inbox[u]) + 2
    BY <2>2
  <2> QED
    BY <2>1, <2>3
<1>4. /\ Flow(u)' \in [0..(n + 2) -> Seq(Chunk)]
      /\ Flow(u)'[0] = queued'[u] \o screen'[u]
      /\ \A i \in 1..(n + 2) : Flow(u)'[i] = Given(inbox'[u][i], s)
  BY <1>3, FlowsNext
<1>5. /\ \A i \in 1..n : inbox'[u][i] = inbox[u][i]
      /\ inbox'[u][n + 1] = ms[1] /\ inbox'[u][n + 2] = ms[2]
  <2>1. inbox[u] \in Seq(Outbound)
    BY DEF SpokenInv, TypeInv, TypeOK, PortsOK
  <2>2. \A i \in 1..(n + 2) : inbox'[u][i] = IF i <= n THEN inbox[u][i] ELSE ms[i - n]
    BY <1>3, <2>1, ConcatProperties
  <2>3. /\ \A i \in 1..n : i \in 1..(n + 2) /\ i <= n
        /\ n + 1 \in 1..(n + 2) /\ ~(n + 1 <= n) /\ (n + 1) - n = 1
        /\ n + 2 \in 1..(n + 2) /\ ~(n + 2 <= n) /\ (n + 2) - n = 2
    OBVIOUS
  <2> QED
    BY <2>2, <2>3
<1>6. \A i \in 0..((n + 2) - 1) : Flow(u)'[i] = <<>>
  <2>1. Flow(u)'[0] = <<>>
    <3>1. <<>> \o <<>> = <<>>
      OBVIOUS
    <3> QED
      BY <1>4, <3>1
  <2>2. \A i \in 1..n : Flow(u)'[i] = <<>> /\ i \in 1..(n + 2)
    <3>1. \A i \in 1..n : i \in 1..(n + 2)
      OBVIOUS
    <3> QED
      BY <1>3, <1>4, <1>5, <3>1 DEF Given
  <2>3. Flow(u)'[n + 1] = <<>>
    <3>1. n + 1 \in 1..(n + 2)
      OBVIOUS
    <3> QED
      BY <1>4, <1>5, <3>1 DEF Given
  <2>4. \A i \in 0..((n + 2) - 1) : i = 0 \/ i \in 1..n \/ i = n + 1
    OBVIOUS
  <2> QED
    BY <2>1, <2>2, <2>3, <2>4
<1>7. Flow(u)'[n + 2] = d
  <2>1. n + 2 \in 1..(n + 2)
    OBVIOUS
  <2> QED
    BY <1>1, <1>4, <1>5, <2>1 DEF Given
<1>8. /\ d[1].pos \in Nat /\ d[Len(d)].pos \in Nat /\ d[1].pos <= d[Len(d)].pos
      /\ Run(Flow(u)', n + 2, s, d[1].pos, d[Len(d)].pos)
  <2>1. PICK g \in [0..(n + 2) -> Seq(Chunk)] : g = Flow(u)'
    BY <1>4
  <2>2. n + 2 \in Nat /\ (\A i \in 0..((n + 2) - 1) : g[i] = <<>>) /\ g[n + 2] = d
    BY <1>6, <1>7, <2>1
  <2>3. \A i \in 1..Len(d) : d[i].sid = s
    BY <1>2
  <2>4. /\ d[1].pos \in Nat /\ d[Len(d)].pos \in Nat /\ d[1].pos <= d[Len(d)].pos
        /\ Run(g, n + 2, s, d[1].pos, d[Len(d)].pos)
    BY <1>1, <1>2, <2>2, <2>3, ReplayRun
  <2> QED
    BY <2>1, <2>4
<1>9. PICK a \in Nat, b \in Nat : a = d[1].pos /\ b = d[Len(d)].pos /\ a <= b
  BY <1>8
<1>10. Run(Flow(u), Len(inbox[u]), s, a, b)'
  <2>1. Run(Flow(u)', n + 2, s, a, b)
    BY <1>8, <1>9
  <2>2. Len(inbox'[u]) = n + 2
    BY <1>3
  <2>3. Run(Flow(u)', Len(inbox'[u]), s, a, b)
    BY <2>1, <2>2
  <2> QED
    BY <2>3 DEF Run, InPieces, Shows, Ordered
<1>11. a >= 2
  <2>1. 1 \in 1..Len(d)
    BY <1>1
  <2>2. d[1].pos \in 2..got[s]
    BY <1>2, <2>1
  <2> QED
    BY <1>9, <2>2
<1>12. b = LastOutput(s)'
  BY <1>2, <1>9
<1>13. Caught(u, s, a, b)'
  BY <1>9, <1>10, <1>11, <1>12 DEF Caught
<1> QED
  BY <1>13

-----------------------------------------------------------------------------
(* The steps of an element. *)
LEMMA StreamElement ==
  ASSUME HeldInv, HeldInv', StreamInv, NEW t \in Term, ElementStep(t)
  PROVE  StreamInv'
<1>1. SpokenInv /\ NamesInv /\ ViewersInv /\ TypeInv /\ TypeInv' /\ [Next]_vars
  BY DEF HeldInv, SeenInv, NamedInv, SpokenInv, Next
<1>2. PICK m \in Outbound :
            /\ m = inbox[t][1] /\ 1 \in 1..Len(inbox[t])
            /\ t \in alive
            /\ inbox[t] # <<>> /\ inbox' = [inbox EXCEPT ![t] = Tail(@)]
            /\ UNCHANGED <<alive, outbox, active, minted>> /\ UNCHANGED workerVars
            /\ \/ m.sid # active[t] /\ UNCHANGED <<phase, xterm, screen, queued>>
               \/ m.sid = active[t] /\ OnReady(t, m)
               \/ m.sid = active[t] /\ OnOutput(t, m)
               \/ m.sid = active[t] /\ OnEnd(t, m)
               \/ m.sid = active[t] /\ OnNeedsCredentials(t, m)
  BY <1>1, Handling
<1>3. Runs(t) /\ Shape(t) /\ Queue(t) /\ Heard(t)
  BY <1>1, <1>2 DEF StreamInv, NamesInv, ViewersInv, Viewer
<1>4. /\ queued[t] \in Seq(Chunk) /\ screen[t] \in Seq(Chunk) /\ m.data \in Seq(Chunk)
      /\ phase \in [Term -> Phases] /\ xterm \in [Term -> BOOLEAN]
      /\ screen \in [Term -> Seq(Chunk)] /\ queued \in [Term -> Seq(Chunk)]
  BY <1>1 DEF TypeInv, TypeOK, TerminalOK, Outbound
<1>5. \A u \in Term \ {t} : /\ phase'[u] = phase[u] /\ screen'[u] = screen[u] /\ queued'[u] = queued[u]
                            /\ inbox'[u] = inbox[u]
  <2>1. \A u \in Term \ {t} : inbox'[u] = inbox[u]
    BY <1>1, <1>2, InboxTaken
  <2> QED
    BY <1>2, <1>4, <2>1 DEF OnReady, OnOutput, OnEnd, OnNeedsCredentials, Enter, Cleanup
<1>6. ASSUME NEW u \in alive, u # t
      PROVE  Runs(u)'
  <2>1. u \in Term \ {t} /\ Runs(u)
    BY <1>1, <1>6 DEF StreamInv, TypeInv, TypeOK, PortsOK
  <2> SUFFICES ASSUME NEW s \in Sid, active'[u] = s
               PROVE  \E a, b \in Nat : Caught(u, s, a, b)'
    BY DEF Runs
  <2>2. LastOutput(s)' = LastOutput(s) /\ UNCHANGED <<sessions, ports, alive, active>>
    BY <1>2 DEF LastOutput, workerVars
  <2>3. Len(inbox[u]) \in Nat /\ \A i \in 1..Len(inbox'[u]) : ~(i > Len(inbox[u]))
    BY <1>1, <1>5, <2>1, Flows
  <2> QED
    BY <1>1, <1>5, <2>1, <2>2, <2>3, RunLengthened DEF Watching
<1>7. Runs(t)'
  <2> SUFFICES ASSUME NEW s \in Sid, active'[t] = s
               PROVE  \E a, b \in Nat : Caught(t, s, a, b)'
    BY DEF Runs
  <2>1. active' = active /\ active[t] = s /\ UNCHANGED workerVars
    BY <1>2
  <2> DEFINE joined == queued'[t] \o screen'[t] = (queued[t] \o screen[t]) \o Given(m, active[t])
  <2>2. ASSUME joined, Watching(t)' => Watching(t)
        PROVE  \E a, b \in Nat : Caught(t, s, a, b)'
    BY <1>1, <1>2, <1>3, <2>1, <2>2, RunMerged
  <2>3. ASSUME Given(m, active[t]) = <<>>, UNCHANGED <<queued, screen>>
        PROVE  joined
    BY <1>4, <2>3
  <2>4. CASE m.sid # active[t] /\ UNCHANGED <<phase, xterm, screen, queued>>
    <3>1. joined
      BY <2>4, <2>3 DEF Given
    <3>2. Watching(t)' => Watching(t)
      BY <1>2, <2>4 DEF Watching
    <3> QED
      BY <2>2, <3>1, <3>2
  <2>5. CASE m.sid = active[t] /\ OnReady(t, m)
    <3>1. Given(m, active[t]) = <<>>
      BY <2>5 DEF OnReady, Given
    <3>2. joined
      <4>1. CASE xterm[t]
        BY <2>5, <2>3, <3>1, <4>1 DEF OnReady
      <4>2. CASE ~xterm[t]
        <5>1. screen[t] = <<>> /\ screen'[t] = queued[t] /\ queued'[t] = <<>>
          BY <1>3, <1>4, <2>5, <4>2 DEF OnReady, Shape
        <5> QED
          BY <1>4, <3>1, <5>1
      <4> QED
        BY <4>1, <4>2
    <3>3. Watching(t)
      BY <1>2, <1>3, <2>5 DEF OnReady, Heard, News, Live, Watching
    <3> QED
      BY <2>2, <3>2, <3>3
  <2>6. CASE m.sid = active[t] /\ OnOutput(t, m)
    <3>1. Given(m, active[t]) = m.data
      BY <2>6 DEF OnOutput, Given
    <3>2. joined
      <4>1. CASE xterm[t]
        <5>1. queued[t] = <<>> /\ screen'[t] = screen[t] \o m.data /\ queued'[t] = <<>>
          BY <1>3, <1>4, <2>6, <4>1 DEF OnOutput, Shape
        <5> QED
          BY <1>4, <3>1, <5>1
      <4>2. CASE ~xterm[t]
        <5>1. screen[t] = <<>> /\ queued'[t] = queued[t] \o m.data /\ screen'[t] = <<>>
          BY <1>3, <1>4, <2>6, <4>2 DEF OnOutput, Shape
        <5>2. queued[t] \o m.data \in Seq(Chunk)
          BY <1>4
        <5> QED
          BY <1>4, <3>1, <5>1, <5>2
      <4> QED
        BY <4>1, <4>2
    <3>3. Watching(t)' => Watching(t)
      BY <1>2, <2>6 DEF OnOutput, Watching
    <3> QED
      BY <2>2, <3>2, <3>3
  <2>7. CASE m.sid = active[t] /\ OnNeedsCredentials(t, m)
    <3>1. joined
      BY <2>7, <2>3 DEF OnNeedsCredentials, Given
    <3>2. ~Watching(t)'
      BY <1>4, <2>7 DEF OnNeedsCredentials, Enter, Watching
    <3> QED
      BY <2>2, <3>1, <3>2
  <2>8. CASE m.sid = active[t] /\ OnEnd(t, m)
    <3>1. ~Watching(t)' /\ screen'[t] = <<>> /\ queued'[t] = queued[t]
      BY <1>4, <2>8 DEF OnEnd, Enter, Cleanup, Watching
    <3>2. CASE ~xterm[t]
      <4>1. screen[t] = <<>>
        BY <1>3, <3>2 DEF Shape
      <4>2. Given(m, active[t]) = <<>>
        BY <2>8 DEF OnEnd, Given
      <4>3. joined
        BY <1>4, <3>1, <4>1, <4>2
      <4> QED
        BY <2>2, <3>1, <4>3
    <3>3. CASE xterm[t]
      <4>1. queued'[t] = <<>>
        BY <1>3, <3>1, <3>3 DEF Shape
      <4>2. \A i \in 1..Len(inbox'[t]) : Given(inbox'[t][i], s) = <<>>
        <5> SUFFICES ASSUME NEW i \in 1..Len(inbox'[t]), inbox'[t][i].type = "output", inbox'[t][i].sid = s
                     PROVE  FALSE
          BY DEF Given
        <5>1. i + 1 \in 1..Len(inbox[t]) /\ inbox'[t][i] = inbox[t][i + 1]
          BY <1>1, <1>2, InboxTaken
        <5>2. 1 \in 1..((i + 1) - 1)
          OBVIOUS
        <5>3. inbox[t][1].type \notin Farewells
          BY <1>3, <2>1, <2>8, <1>2, <5>1, <5>2 DEF Heard, News
        <5> QED
          BY <1>2, <2>8, <5>3 DEF OnEnd, Farewells, Ends
      <4>3. LastOutput(s)' \in Nat
        BY <1>1, LastGrows
      <4> QED
        BY <1>1, <3>1, <4>1, <4>2, <4>3, RunEmptied
    <3> QED
      BY <3>2, <3>3
  <2> QED
    BY <1>2, <2>4, <2>5, <2>6, <2>7, <2>8
<1> QED
  BY <1>2, <1>6, <1>7 DEF StreamInv

(* Nothing at all happens to what u has been given. *)
LEMMA RunKept ==
  ASSUME SpokenInv, TypeInv', [Next]_vars, NEW u \in Term, Runs(u), phase'[u] = phase[u],
         active'[u] = active[u], queued'[u] = queued[u], screen'[u] = screen[u], inbox'[u] = inbox[u],
         u \in alive' => u \in alive,
         \A s \in Sid : s \in sessions' /\ u \in ports'[s] /\ LastOutput(s)' > 0 =>
                          s \in sessions /\ u \in ports[s] /\ LastOutput(s)' = LastOutput(s)
  PROVE  Runs(u)'
<1> SUFFICES ASSUME NEW s \in Sid, active'[u] = s
             PROVE  \E a, b \in Nat : Caught(u, s, a, b)'
  BY DEF Runs
<1>1. Len(inbox[u]) \in Nat
  BY Flows DEF SpokenInv
<1>2. \A i \in 1..Len(inbox'[u]) : ~(i > Len(inbox[u]))
  BY <1>1
<1>3. Watching(u)' => Watching(u)
  BY DEF Watching
<1>4. /\ Len(inbox[u]) <= Len(inbox'[u])
      /\ \A i \in 1..Len(inbox[u]) : inbox'[u][i] = inbox[u][i]
      /\ \A i \in 1..Len(inbox'[u]) : i > Len(inbox[u]) => Given(inbox'[u][i], active[u]) = <<>>
  BY <1>1, <1>2
<1>5. Watching(u)' /\ s \in sessions' /\ u \in ports'[s] /\ LastOutput(s)' > 0 =>
        Watching(u) /\ s \in sessions /\ u \in ports[s] /\ LastOutput(s)' = LastOutput(s)
  BY <1>3
<1> QED
  BY <1>4, <1>5, RunLengthened

LEMMA OtherStreams ==
  ASSUME SpokenInv, TypeInv', [Next]_vars, StreamInv, UNCHANGED workerVars, NEW v \in Term,
         v \in alive' => Runs(v)',
         \A u \in Term \ {v} :
           /\ phase'[u] = phase[u] /\ active'[u] = active[u] /\ queued'[u] = queued[u]
           /\ screen'[u] = screen[u] /\ inbox'[u] = inbox[u]
           /\ u \in alive' <=> u \in alive
  PROVE  StreamInv'
<1>1. \A s \in Sid : LastOutput(s)' = LastOutput(s) /\ sessions' = sessions /\ ports' = ports
  BY DEF LastOutput, workerVars
<1>2. \A u \in Term \ {v} : u \in alive' => Runs(u)'
  BY <1>1, RunKept DEF StreamInv
<1>3. alive' \subseteq Term
  BY DEF TypeInv, TypeOK, PortsOK
<1> QED
  BY <1>2, <1>3 DEF StreamInv

(* The steps of a user. *)
LEMMA StreamUser ==
  ASSUME HeldInv, HeldInv', StreamInv, NEW t \in Term, UserStep(t)
  PROVE  StreamInv'
<1>1. /\ SpokenInv /\ NamesInv /\ ViewersInv /\ TypeInv /\ TypeInv' /\ [Next]_vars
      /\ UNCHANGED workerVars /\ ports' = ports /\ \A s \in Sid : LastOutput(s)' \in Nat
  <2>1. SpokenInv /\ NamesInv /\ ViewersInv /\ TypeInv /\ TypeInv' /\ [Next]_vars /\ UNCHANGED workerVars
    BY DEF HeldInv, SeenInv, NamedInv, SpokenInv, Next, UserStep
  <2> QED
    BY <2>1, LastGrows DEF workerVars
<1>2. \A u \in Term : Shape(u) /\ Told(u) /\ Queue(u)
  BY <1>1 DEF NamesInv, ViewersInv
<1>3. /\ phase \in [Term -> Phases] /\ active \in [Term -> Sid \cup {None}] /\ alive \subseteq Term
      /\ screen \in [Term -> Seq(Chunk)] /\ queued \in [Term -> Seq(Chunk)]
      /\ inbox \in [Term -> Seq(Outbound)]
  BY <1>1 DEF TypeInv, TypeOK, TerminalOK, PortsOK
<1>4. CASE Open(t) \/ Connect(t)
  <2>1. PICK s \in Sid \ minted :
          /\ active' = [active EXCEPT ![t] = s]
          /\ phase' = [phase EXCEPT ![t] = "connecting"]
          /\ PostToWorker(t, Create(s, t \in Inline))
    BY <1>1, <1>4, StartsAreTyped DEF Open, Connect
  <2>2. UNCHANGED <<inbox, xterm, screen, queued>> /\ phase[t] = "credentials" /\ alive' = alive \cup {t}
    BY <1>3, <1>4 DEF Open, Connect
  <2>3. ws[s] = "none" /\ t \notin ports[s] /\ queued[t] = <<>> /\ screen[t] = <<>>
    BY <1>1, <1>2, <2>2 DEF SpokenInv, MintInv, SocketsInv, Socket, Queue, Shape
  <2>4. \A i \in 1..Len(inbox[t]) : inbox[t][i].sid # s
    BY <1>2, <2>3 DEF Told, Vouched
  <2>5. Runs(t)'
    <3> SUFFICES ASSUME NEW r \in Sid, active'[t] = r
                 PROVE  \E a, b \in Nat : Caught(t, r, a, b)'
      BY DEF Runs
    <3>1. r = s
      BY <1>3, <2>1
    <3>2. \A i \in 1..Len(inbox'[t]) : Given(inbox'[t][i], r) = <<>>
      BY <2>2, <2>4, <3>1 DEF Given
    <3> QED
      BY <1>1, <2>2, <2>3, <3>1, <3>2, RunEmptied
  <2> QED
    BY <1>1, <1>3, <2>1, <2>2, <2>5, OtherStreams
<1>5. CASE Disconnect(t)
  <2>1. /\ active' = [active EXCEPT ![t] = None] /\ phase' = [phase EXCEPT ![t] = "credentials"]
        /\ screen' = [screen EXCEPT ![t] = <<>>] /\ UNCHANGED <<alive, inbox, queued>>
    BY <1>5 DEF Disconnect, Enter, Cleanup
  <2>2. Runs(t)'
    BY <1>3, <2>1, NoneIsNoSession DEF Runs
  <2> QED
    BY <1>1, <1>3, <2>1, <2>2, OtherStreams
<1>6. CASE Retry(t)
  <2>1. /\ phase' = [phase EXCEPT ![t] = "credentials"] /\ queued' = [queued EXCEPT ![t] = <<>>]
        /\ UNCHANGED <<alive, inbox, active, screen>> /\ phase[t] \in {"error", "closed"} /\ t \in alive
    BY <1>6 DEF Retry, Enter, portVars
  <2>2. screen[t] = <<>> /\ queued'[t] = <<>> /\ phase'[t] = "credentials"
    BY <1>2, <1>3, <2>1 DEF Shape
  <2>3. Heard(t)
    BY <1>1, <2>1 DEF ViewersInv, Viewer
  <2>4. Runs(t)'
    <3> SUFFICES ASSUME NEW r \in Sid, active'[t] = r
                 PROVE  \E a, b \in Nat : Caught(t, r, a, b)'
      BY DEF Runs
    <3>1. \A i \in 1..Len(inbox'[t]) : Given(inbox'[t][i], r) = <<>>
      BY <2>1, <2>3 DEF Given, Heard, News, Live
    <3>2. ~Watching(t)'
      BY <2>2 DEF Watching
    <3> QED
      BY <1>1, <2>1, <2>2, <3>1, <3>2, RunEmptied
  <2> QED
    BY <1>1, <1>3, <2>1, <2>4, OtherStreams
<1>7. ASSUME NEW p \in Popup, PopOut(t, p)
      PROVE  StreamInv'
  <2>1. /\ p \in Term /\ p \notin alive /\ phase[p] = "credentials"
        /\ active' = [active EXCEPT ![p] = active[t]] /\ phase' = [phase EXCEPT ![p] = "connecting"]
        /\ UNCHANGED <<inbox, screen, queued>> /\ alive' = alive \cup {p}
    BY <1>7 DEF PopOut, Enter, Term
  <2>2. /\ \A i \in 1..Len(inbox[p]) : FALSE
        /\ queued[p] = <<>> /\ \A s \in Sid : p \notin ports[s]
    BY <1>1, <2>1, FirstHeard DEF ViewersInv
  <2>3. screen[p] = <<>>
    BY <1>2, <2>1 DEF Shape
  <2>4. Runs(p)'
    <3> SUFFICES ASSUME NEW r \in Sid, active'[p] = r
                 PROVE  \E a, b \in Nat : Caught(p, r, a, b)'
      BY DEF Runs
    <3>1. \A i \in 1..Len(inbox'[p]) : Given(inbox'[p][i], r) = <<>>
      BY <2>1, <2>2
    <3> QED
      BY <1>1, <2>1, <2>2, <2>3, <3>1, RunEmptied
  <2> QED
    BY <1>1, <1>3, <2>1, <2>4, OtherStreams
<1>8. ASSUME NEW type \in {"input", "resize"}, Key(t, type)
      PROVE  StreamInv'
  <2>1. UNCHANGED <<alive, inbox, phase, active, screen, queued>>
    BY <1>8 DEF Key, termVars
  <2>2. \A u \in alive : Runs(u) /\ u \in Term
    BY <1>3 DEF StreamInv
  <2>3. \A s \in Sid : LastOutput(s)' = LastOutput(s) /\ sessions' = sessions
    BY <1>1 DEF LastOutput, workerVars
  <2>4. \A u \in alive : Runs(u)'
    BY <1>1, <2>1, <2>2, <2>3, RunKept
  <2> QED
    BY <2>1, <2>4 DEF StreamInv
<1>9. CASE Leave(t)
  <2>1. /\ alive' = alive \ {t} /\ phase' = [phase EXCEPT ![t] = "closed"]
        /\ screen' = [screen EXCEPT ![t] = <<>>] /\ queued' = [queued EXCEPT ![t] = <<>>]
        /\ inbox' = [inbox EXCEPT ![t] = <<>>] /\ active' = active
    BY <1>9 DEF Leave, Enter, Cleanup
  <2> QED
    BY <1>1, <1>3, <2>1, OtherStreams
<1> QED
  BY <1>4, <1>5, <1>6, <1>7, <1>8, <1>9 DEF UserStep

(* u may be told something, but no output of its session. *)
LEMMA RunTold ==
  ASSUME SpokenInv, TypeInv', [Next]_vars, NEW u \in Term, Runs(u), UNCHANGED <<alive, termVars>>,
         NEW P, NEW ms \in Seq(Outbound), Post(P, ms),
         \A k \in 1..Len(ms) : u \in P => Given(ms[k], active[u]) = <<>>,
         \A s \in Sid : active[u] = s /\ s \in sessions' /\ u \in ports'[s] /\ LastOutput(s)' > 0 =>
                          s \in sessions /\ u \in ports[s] /\ LastOutput(s)' = LastOutput(s)
  PROVE  Runs(u)'
<1> SUFFICES ASSUME NEW s \in Sid, active'[u] = s
             PROVE  \E a, b \in Nat : Caught(u, s, a, b)'
  BY DEF Runs
<1>1. /\ phase' = phase /\ active' = active /\ queued' = queued /\ screen' = screen
      /\ TypeInv
  BY DEF termVars, SpokenInv
<1>2. /\ Len(inbox[u]) \in Nat /\ Len(ms) \in Nat
      /\ u \notin P \cap alive => inbox'[u] = inbox[u]
      /\ u \in P \cap alive =>
           /\ Len(inbox'[u]) = Len(inbox[u]) + Len(ms)
           /\ \A i \in 1..Len(inbox[u]) : inbox'[u][i] = inbox[u][i]
           /\ \A i \in 1..Len(inbox'[u]) :
                i \in 1..Len(inbox[u]) \/
                  (i - Len(inbox[u]) \in 1..Len(ms) /\ inbox'[u][i] = ms[i - Len(inbox[u])])
  BY <1>1, InboxGrows
<1>3. /\ Len(inbox[u]) <= Len(inbox'[u])
      /\ \A i \in 1..Len(inbox[u]) : inbox'[u][i] = inbox[u][i]
      /\ \A i \in 1..Len(inbox'[u]) : i > Len(inbox[u]) => Given(inbox'[u][i], active[u]) = <<>>
  <2>1. CASE u \notin P \cap alive
    BY <1>2, <2>1
  <2>2. CASE u \in P \cap alive
    <3>1. Len(inbox[u]) <= Len(inbox'[u])
      BY <1>2, <2>2
    <3>2. \A i \in 1..Len(inbox'[u]) : i > Len(inbox[u]) => ~(i \in 1..Len(inbox[u]))
      BY <1>2
    <3> QED
      BY <1>2, <2>2, <3>1, <3>2
  <2> QED
    BY <2>1, <2>2
<1>4. Watching(u)' /\ s \in sessions' /\ u \in ports'[s] /\ LastOutput(s)' > 0 =>
        Watching(u) /\ s \in sessions /\ u \in ports[s] /\ LastOutput(s)' = LastOutput(s)
  BY <1>1 DEF Watching
<1> QED
  BY <1>1, <1>3, <1>4, RunLengthened

(* The worker lets t watch s. *)
LEMMA StreamAttach ==
  ASSUME HeldInv, HeldInv', StreamInv, [Next]_vars, NEW t \in Term, UNCHANGED <<alive, termVars>>,
         NEW s \in Sid, Take(t, "attach"), s = Head(outbox[t]).sid, AttachTo(t, s),
         UNCHANGED <<sessions, got, sent>>
  PROVE  StreamInv'
<1>1. /\ SpokenInv /\ BufferInv /\ NamesInv /\ ViewersInv /\ TypeInv /\ TypeInv'
      /\ alive \subseteq Term /\ \A u \in alive : Runs(u)
  BY DEF HeldInv, SeenInv, NamedInv, SpokenInv, TypeInv, TypeOK, PortsOK, StreamInv
<1>2. \A r \in Sid : LastOutput(r)' = LastOutput(r)
  BY DEF LastOutput
<1>3. /\ s \notin sessions => ports' = ports
      /\ s \in sessions => ports' = [ports EXCEPT ![s] = @ \cup {t}]
      /\ s \in sessions /\ buffer[s] = <<>> => inbox' = inbox
      /\ ~(s \in sessions /\ buffer[s] = <<>>) =>
           \E P \in SUBSET Term, ms \in Seq(Outbound) :
             /\ P = {t} /\ Post(P, ms)
             /\ \A k \in 1..Len(ms) : ms[k].sid = s
             /\ s \notin sessions =>
                  Len(ms) = 1 /\ ms[1].type = "error" /\ ms[1].data = <<>>
             /\ s \in sessions =>
                  /\ Len(ms) = 2
                  /\ ms[1].type = "ready" /\ ms[1].data = <<>>
                  /\ ms[2].type = "output" /\ ms[2].data = buffer[s]
  BY <1>1, Attaching
<1>4. /\ \A u \in Term, r \in Sid : u # t \/ r # s => (u \in ports'[r] <=> u \in ports[r])
      /\ alive' = alive
  BY <1>1, <1>3 DEF TypeInv, TypeOK, WorkerOK
<1> SUFFICES ASSUME NEW u \in alive
             PROVE  Runs(u)'
  BY <1>4 DEF StreamInv
<1>5. u \in Term /\ Runs(u)
  BY <1>1
<1>6. /\ phase'[u] = phase[u] /\ active'[u] = active[u]
      /\ queued'[u] = queued[u] /\ screen'[u] = screen[u] /\ sessions' = sessions
  BY DEF termVars
<1>7. CASE s \in sessions /\ buffer[s] = <<>>
  <2>1. LastOutput(s)' = 0
    BY <1>1, <1>2, <1>7 DEF BufferInv, Buffered
  <2>2. ~(0 > 0)
    OBVIOUS
  <2> QED
    BY <1>1, <1>2, <1>3, <1>4, <1>5, <1>6, <1>7, <2>1, <2>2, RunKept
<1>8. CASE ~(s \in sessions /\ buffer[s] = <<>>)
  <2>1. PICK P \in SUBSET Term, ms \in Seq(Outbound) :
             /\ P = {t} /\ Post(P, ms)
             /\ \A k \in 1..Len(ms) : ms[k].sid = s
             /\ s \notin sessions =>
                  Len(ms) = 1 /\ ms[1].type = "error" /\ ms[1].data = <<>>
             /\ s \in sessions =>
                  /\ Len(ms) = 2
                  /\ ms[1].type = "ready" /\ ms[1].data = <<>>
                  /\ ms[2].type = "output" /\ ms[2].data = buffer[s]
    BY <1>3, <1>8
  <2>2. CASE u # t
    BY <1>1, <1>2, <1>4, <1>5, <1>6, <2>1, <2>2, RunTold
  <2>3. CASE u = t /\ s \notin sessions
    <3>1. \A k \in 1..Len(ms) : Given(ms[k], active[u]) = <<>>
      BY <2>1, <2>3 DEF Given
    <3> QED
      BY <1>1, <1>2, <1>3, <1>5, <1>6, <2>1, <2>3, <3>1, RunTold
  <2>4. CASE u = t /\ s \in sessions
    <3>1. /\ 1 \in 1..Len(outbox[t]) /\ outbox[t][1].type = "attach" /\ outbox[t][1].sid = s
      BY <1>1, OutboxTail DEF Take
    <3>2. /\ active[t] = s /\ phase[t] = "connecting" /\ queued[t] = <<>>
          /\ \A j \in 1..Len(inbox[t]) : inbox[t][j].sid # s
      BY <1>1, <2>4, <3>1 DEF ViewersInv, Viewer, Asked, Asks
    <3>3. t \notin Inline
      BY <1>1, <3>1, PortConstants DEF NamesInv, Posted
    <3>4. screen[t] = <<>>
      BY <1>1, <3>2 DEF NamesInv, Shape
    <3>5. inbox'[t] = inbox[t] \o ms /\ ms[1].sid = s /\ ms[2].sid = s
      BY <1>1, <2>1, <2>4, InboxGrows, SMTT(30)
    <3> SUFFICES ASSUME NEW r \in Sid, active'[t] = r
                 PROVE  \E a, b \in Nat : Caught(t, r, a, b)'
      BY <2>4 DEF Runs
    <3>6. r = s
      BY <1>6, <2>4, <3>2
    <3>7. /\ active'[t] = s /\ queued'[t] = <<>> /\ screen'[t] = <<>> /\ buffer[s] # <<>>
          /\ LastOutput(s)' = LastOutput(s)
      BY <1>2, <1>6, <1>8, <2>4, <3>2, <3>4
    <3>8. Len(ms) = 2 /\ ms[1].type = "ready" /\ ms[2].type = "output" /\ ms[2].data = buffer[s]
      BY <2>1, <2>4
    <3> QED
      BY <1>1, <3>2, <3>3, <3>5, <3>6, <3>7, <3>8, RunReplayed
  <2> QED
    BY <2>2, <2>3, <2>4
<1> QED
  BY <1>7, <1>8

(* The steps of a port. *)
LEMMA StreamPort ==
  ASSUME HeldInv, HeldInv', StreamInv, NEW t \in Term, PortStep(t)
  PROVE  StreamInv'
<1>1. /\ SpokenInv /\ TypeInv /\ TypeInv' /\ [Next]_vars
      /\ UNCHANGED termVars /\ UNCHANGED <<alive, got, sent>>
  <2>1. SpokenInv /\ TypeInv /\ TypeInv' /\ [Next]_vars /\ UNCHANGED termVars
    BY DEF HeldInv, SeenInv, NamedInv, SpokenInv, PortStep, Next
  <2>2. UNCHANGED <<alive, got, sent>>
    BY DEF PortStep, CreateSession, AttachToSession, ForwardInput, DetachPort, workerVars, Take
  <2> QED
    BY <2>1, <2>2
<1>2. \A r \in Sid : LastOutput(r)' = LastOutput(r)
  BY <1>1 DEF LastOutput
<1>3. alive \subseteq Term /\ \A u \in alive : Runs(u)
  BY <1>1 DEF StreamInv, TypeInv, TypeOK, PortsOK
<1>4. /\ phase' = phase /\ active' = active /\ queued' = queued /\ screen' = screen /\ alive' = alive
  BY <1>1 DEF termVars
<1>5. ASSUME inbox' = inbox,
             \A u \in alive, r \in Sid : r \in sessions' /\ u \in ports'[r] /\ LastOutput(r) > 0 =>
                                           r \in sessions /\ u \in ports[r]
      PROVE  StreamInv'
  <2>1. \A u \in alive : Runs(u)'
    BY <1>1, <1>2, <1>3, <1>4, <1>5, RunKept
  <2> QED
    BY <1>4, <2>1 DEF StreamInv
<1> USE DEF TypeInv, TypeOK, PortsOK, WorkerOK
<1>6. CASE CreateSession(t)
  <2>1. PICK s \in Sid : s = Head(outbox[t]).sid /\ Take(t, "create")
    BY <1>1, <1>6, TakenIsTyped DEF CreateSession
  <2>2. 1 \in DOMAIN outbox[t] /\ outbox[t][1] = Head(outbox[t]) /\ Head(outbox[t]).type = "create"
    BY <1>1, <2>1, OutboxTaken
  <2>3. ws[s] = "none" /\ s \notin sessions /\ got[s] = 0
    BY <1>1, <2>1, <2>2 DEF SpokenInv, MintInv, SocketsInv, Socket
  <2>4. /\ sessions' = sessions \cup {s}
        /\ ports' = [ports EXCEPT ![s] = {t}]
        /\ inbox' = inbox
    BY <1>6, <2>1, <2>3 DEF CreateSession
  <2>5. ~(LastOutput(s) > 0)
    <3>1. got[s] \in Nat
      BY <2>3
    <3>2. LastOutput(s) \in 0..got[s]
      BY <3>1, LastIs
    <3> QED
      BY <2>3, <3>2
  <2>6. \A r \in Sid : r # s => ports'[r] = ports[r] /\ (r \in sessions' <=> r \in sessions)
    BY <1>1, <2>4
  <2>7. \A u \in alive, r \in Sid : r \in sessions' /\ u \in ports'[r] /\ LastOutput(r) > 0 =>
                                      r \in sessions /\ u \in ports[r]
    BY <2>5, <2>6
  <2> QED
    BY <1>5, <2>4, <2>7
<1>7. CASE AttachToSession(t)
  <2>1. PICK s \in Sid : s = Head(outbox[t]).sid /\ Take(t, "attach")
    BY <1>1, <1>7, TakenIsTyped DEF AttachToSession
  <2>2. AttachTo(t, s) /\ UNCHANGED <<sessions, got, sent>>
    BY <1>7, <2>1 DEF AttachToSession
  <2> QED
    BY <1>1, <2>1, <2>2, StreamAttach
<1>8. CASE ForwardInput(t)
  <2>1. UNCHANGED <<inbox, sessions, ports>>
    BY <1>8 DEF ForwardInput, workerVars
  <2> QED
    BY <1>5, <2>1
<1>9. CASE DetachPort(t)
  <2>1. PICK s \in Sid : s = Head(outbox[t]).sid /\ Take(t, "detach")
    BY <1>1, <1>9, TakenIsTyped DEF DetachPort
  <2>2. /\ inbox' = inbox /\ sessions' \subseteq sessions
        /\ \A r \in Sid : ports'[r] \subseteq ports[r]
    <3>1. inbox' = inbox
      BY <1>9 DEF DetachPort
    <3>2. CASE s \notin sessions
      BY <1>9, <2>1, <3>1, <3>2 DEF DetachPort
    <3>3. CASE s \in sessions
      <4>1. /\ ports' = [ports EXCEPT ![s] = ports[s] \ {t}]
            /\ sessions' = sessions \/ sessions' = sessions \ {s}
        BY <1>9, <2>1, <3>3 DEF DetachPort
      <4> QED
        BY <1>1, <3>1, <4>1
    <3> QED
      BY <3>2, <3>3
  <2>3. \A u \in alive, r \in Sid : r \in sessions' /\ u \in ports'[r] /\ LastOutput(r) > 0 =>
                                      r \in sessions /\ u \in ports[r]
    BY <2>2
  <2> QED
    BY <1>5, <2>2, <2>3
<1> QED
  BY <1>6, <1>7, <1>8, <1>9 DEF PortStep

(* An output of s arrives, and goes to those who watch s. *)
LEMMA StreamOutput ==
  ASSUME HeldInv, HeldInv', StreamInv, NEW s \in Sid, WsMessage(s), [Next]_vars, UNCHANGED termVars,
         OnServerOutput(s, sent[s][got[s] + 1])
  PROVE  StreamInv'
<1>1. /\ SpokenInv /\ BufferInv /\ NamesInv /\ ViewersInv /\ TypeInv /\ TypeInv' /\ SocketsInv
      /\ alive \subseteq Term /\ \A u \in alive : Runs(u) /\ Viewer(u)
  BY DEF HeldInv, SeenInv, NamedInv, SpokenInv, ViewersInv, TypeInv, TypeOK, PortsOK, StreamInv
<1>2. /\ got[s] \in Nat /\ got[s] + 1 \in 1..Len(sent[s]) /\ got'[s] = got[s] + 1 /\ sent' = sent
      /\ s \in sessions /\ ports' = ports /\ \A r \in Sid \ {s} : got'[r] = got[r]
      /\ \A i \in 1..got[s] : sent[s][i].type \notin Farewells
  BY <1>1, Arriving DEF Farewells
<1>3. sent[s][got[s] + 1].type = "output" /\ sessions' = sessions /\ alive' = alive
  BY DEF OnServerOutput, WsMessage
<1>4. got[s] + 1 > 1
  BY <1>1, <1>2, <1>3 DEF SocketsInv, Talk
<1>5. /\ LastOutput(s)' = got[s] + 1 /\ LastOutput(s) \in Nat
      /\ got[s] > 1 => LastOutput(s) = got[s]
      /\ got[s] <= 1 => LastOutput(s) = 0
  BY <1>1, <1>2, <1>3, LastArrives, OutputsSoFar, LastGrows
<1>6. PICK c \in Chunk : c = [sid |-> s, pos |-> got[s] + 1] /\ c.sid = s /\ c.pos = got[s] + 1
  <2>1. [sid |-> s, pos |-> got[s] + 1] \in Chunk
    BY <1>2 DEF Chunk
  <2> QED
    BY <2>1
<1>7. PICK n \in Outbound : n = Show(s, <<c>>) /\ n.type = "output" /\ n.sid = s /\ n.data = <<c>>
  <2>1. <<c>> \in Seq(Chunk)
    OBVIOUS
  <2> QED
    BY <2>1, ShowIs
<1>8. Post(ports[s], <<n>>) /\ <<n>> \in Seq(Outbound)
  BY <1>6, <1>7 DEF OnServerOutput
<1>9. ~Over(s)
  BY <1>2 DEF Over
<1>10. \A r \in Sid \ {s} : LastOutput(r)' = LastOutput(r)
  BY <1>1, <1>2, LastGrows
<1> SUFFICES ASSUME NEW u \in alive
             PROVE  Runs(u)'
  BY <1>3 DEF StreamInv
<1>11. u \in Term /\ Runs(u) /\ Viewer(u)
  BY <1>1
<1>12. /\ active' = active /\ queued' = queued /\ screen' = screen
  BY DEF termVars
<1>13. CASE active[u] = s /\ u \in ports[s]
  <2>1. Watching(u)
    BY <1>9, <1>11, <1>13 DEF Viewer, Stays, Live, Watching
  <2>2. inbox'[u] = inbox[u] \o <<n>>
    <3>1. u \in ports[s] \cap alive
      BY <1>13
    <3> QED
      BY <1>8, <1>11, <3>1, SMTT(30) DEF Post
  <2>3. /\ c.pos \in Nat /\ c.pos >= 2
        /\ c.pos > 2 => LastOutput(s) = c.pos - 1 /\ LastOutput(s) > 0
        /\ c.pos = 2 => LastOutput(s) = 0
    BY <1>2, <1>4, <1>5, <1>6
  <2>4. LastOutput(s)' = c.pos
    BY <1>5, <1>6
  <2>5. inbox'[u] = inbox[u] \o <<Show(s, <<c>>)>>
    BY <1>7, <2>2
  <2>6. active'[u] = s /\ active'[u] = active[u]
    BY <1>12, <1>13
  <2> SUFFICES ASSUME NEW r \in Sid, active'[u] = r
               PROVE  \E a, b \in Nat : Caught(u, r, a, b)'
    BY DEF Runs
  <2>7. r = s
    BY <2>6
  <2>8. \E a, b \in Nat : Caught(u, s, a, b)'
    BY <1>1, <1>2, <1>5, <1>6, <1>11, <1>12, <1>13, <2>1, <2>3, <2>4, <2>5, <2>6, RunGrows
  <2> QED
    BY <2>7, <2>8
<1>14. CASE ~(active[u] = s /\ u \in ports[s])
  <2>1. \A k \in 1..Len(<<n>>) : u \in ports[s] => Given(<<n>>[k], active[u]) = <<>>
    <3>1. u \in ports[s] => Given(n, active[u]) = <<>>
      BY <1>7, <1>14 DEF Given
    <3>2. \A k \in 1..Len(<<n>>) : <<n>>[k] = n
      OBVIOUS
    <3> QED
      BY <3>1, <3>2
  <2>2. \A r \in Sid : active[u] = r /\ r \in sessions' /\ u \in ports'[r] /\ LastOutput(r)' > 0 =>
                         r \in sessions /\ u \in ports[r] /\ LastOutput(r)' = LastOutput(r)
    BY <1>2, <1>3, <1>10, <1>14
  <2> QED
    BY <1>1, <1>3, <1>8, <1>11, <2>1, <2>2, RunTold
<1> QED
  BY <1>13, <1>14

(* What a socket tells the viewers beside output. *)
LEMMA StreamTold ==
  ASSUME SpokenInv, TypeInv', StreamInv, [Next]_vars, UNCHANGED <<alive, termVars, ports>>,
         NEW s \in Sid, NEW ms \in Seq(Outbound), Post(ports[s], ms),
         \A k \in 1..Len(ms) : ms[k].type # "output",
         sessions' \subseteq sessions, \A r \in Sid : LastOutput(r)' = LastOutput(r)
  PROVE  StreamInv'
<1>1. \A u \in alive : u \in Term /\ Runs(u)
  BY DEF SpokenInv, TypeInv, TypeOK, PortsOK, StreamInv
<1>2. \A k \in 1..Len(ms) : \A x : Given(ms[k], x) = <<>>
  BY DEF Given
<1>3. \A u \in alive : Runs(u)'
  BY <1>1, <1>2, RunTold
<1> QED
  BY <1>3 DEF StreamInv

LEMMA StreamSocket ==
  ASSUME HeldInv, HeldInv', StreamInv, NEW s \in Sid, SocketStep(s) \/ GatewayStep(s)
  PROVE  StreamInv'
<1>1. /\ SpokenInv /\ TypeInv /\ TypeInv' /\ SocketsInv /\ [Next]_vars /\ UNCHANGED termVars
      /\ alive \subseteq Term
  BY DEF HeldInv, SeenInv, NamedInv, SpokenInv, SocketStep, GatewayStep, Next, TypeInv, TypeOK, PortsOK
<1>2. UNCHANGED <<alive, ports>>
  BY DEF SocketStep, GatewayStep, WsOpen, WsFailed, WsMessage, WsClosing, WsLost, WsGone,
         GatewayTakesInit, GatewaySends, portVars
<1>3. got' = got => \A r \in Sid : LastOutput(r)' = LastOutput(r)
  BY <1>1, LastGrows
<1>4. CASE UNCHANGED <<inbox, sessions, got>>
  <2>1. /\ phase' = phase /\ active' = active /\ queued' = queued /\ screen' = screen
        /\ \A u \in alive : u \in Term /\ Runs(u)
    BY <1>1 DEF termVars, StreamInv
  <2>2. \A u \in alive : Runs(u)'
    BY <1>1, <1>2, <1>3, <1>4, <2>1, RunKept
  <2> QED
    BY <1>2, <2>2 DEF StreamInv
<1>5. CASE WsOpen(s) \/ WsClosing(s) \/ GatewayStep(s)
  BY <1>4, <1>5 DEF WsOpen, WsClosing, GatewayStep, GatewayTakesInit, GatewaySends, portVars
<1>6. ASSUME NEW errors \in {<<>>, <<Tell("error", s)>>}, Closing(s, errors), got' = got
      PROVE  StreamInv'
  <2>1. PICK ms \in Seq(Outbound) :
          /\ Post(ports[s], ms)
          /\ \A k \in 1..Len(ms) : ms[k].sid = s /\ ms[k].type \in Ends /\ ms[k].data = <<>>
          /\ s \in sessions => \E k \in 1..Len(ms) : ms[k].type = "closed"
    BY <1>1, <1>6, ClosingPosts
  <2>2. sessions' \subseteq sessions
    BY <1>6 DEF Closing
  <2>3. \A k \in 1..Len(ms) : ms[k].type # "output"
    BY <2>1 DEF Ends
  <2> QED
    BY <1>1, <1>2, <1>3, <1>6, <2>1, <2>2, <2>3, StreamTold
<1>7. CASE WsMessage(s)
  <2>1. /\ got[s] \in Nat /\ got[s] + 1 \in 1..Len(sent[s]) /\ got'[s] = got[s] + 1
        /\ \A r \in Sid \ {s} : got'[r] = got[r]
        /\ sent' = sent
    BY <1>1, <1>7, Arriving
  <2>2. CASE OnServerOutput(s, sent[s][got[s] + 1])
    BY <1>1, <1>7, <2>2, StreamOutput
  <2>3. CASE OnServerNews(s, sent[s][got[s] + 1]) \/ OnServerClosed(s, sent[s][got[s] + 1])
    <3>1. PICK type \in {"ready", "error", "needs-credentials", "closed"} :
            /\ sent[s][got[s] + 1].type = type /\ Post(ports[s], <<Tell(type, s)>>)
            /\ sessions' \subseteq sessions
      BY <2>3 DEF OnServerNews, OnServerClosed
    <3>2. PICK n \in Outbound : n = Tell(type, s) /\ n.type # "output"
      BY TellIs
    <3>3. \A r \in Sid : LastOutput(r)' = LastOutput(r)
      <4>1. LastOutput(s)' = LastOutput(s)
        BY <2>1, <3>1, LastArrives
      <4>2. \A r \in Sid \ {s} : LastOutput(r)' = LastOutput(r)
        BY <1>1, <2>1, LastGrows
      <4> QED
        BY <4>1, <4>2
    <3>4. <<n>> \in Seq(Outbound) /\ \A k \in 1..Len(<<n>>) : <<n>>[k] = n
      OBVIOUS
    <3>5. \A k \in 1..Len(<<n>>) : <<n>>[k].type # "output"
      BY <3>2, <3>4
    <3>6. Post(ports[s], <<n>>)
      BY <3>1, <3>2
    <3> QED
      BY <1>1, <1>2, <3>1, <3>3, <3>4, <3>5, <3>6, StreamTold
  <2> QED
    BY <1>7, <2>2, <2>3 DEF WsMessage
<1>8. CASE WsFailed(s) \/ WsLost(s) \/ WsGone(s)
  BY <1>6, <1>8 DEF WsFailed, WsLost, WsGone
<1> QED
  BY <1>5, <1>7, <1>8 DEF SocketStep

LEMMA StreamStep ==
  ASSUME HeldInv, HeldInv', StreamInv, [Next]_vars
  PROVE  StreamInv'
<1>1. CASE UNCHANGED vars
  <2>1. /\ SpokenInv /\ TypeInv' /\ alive \subseteq Term /\ \A u \in alive : Runs(u)
        /\ UNCHANGED <<alive, inbox, phase, active, queued, screen, sessions, ports, got, sent>>
    BY <1>1 DEF HeldInv, SeenInv, NamedInv, SpokenInv, TypeInv, TypeOK, PortsOK, StreamInv,
                vars, portVars, termVars, workerVars
  <2>2. \A s \in Sid : LastOutput(s)' = LastOutput(s)
    BY <2>1 DEF LastOutput
  <2>3. \A u \in alive : Runs(u)'
    BY <2>1, <2>2, RunKept
  <2> QED
    BY <2>1, <2>3 DEF StreamInv
<1> QED
  BY <1>1, StreamUser, StreamElement, StreamPort, StreamSocket DEF Next

LEMMA StreamHolds == Spec => [](HeldInv /\ StreamInv)
<1>1. Init => StreamInv
  BY DEF Init, PortsInit, StreamInv
<1>2. HeldInv /\ HeldInv' /\ StreamInv /\ [Next]_vars => StreamInv'
  BY StreamStep
<1> QED
  BY <1>1, <1>2, HeldHolds, PTL DEF Spec

(* What a viewer is given of its session is one unbroken run of its output, *)
(* up to the latest while it watches, and from the first one on when it    *)
(* opened the session.                                                     *)
THEOREM StreamsIntact == Spec => []StreamIntact
<1>1. HeldInv /\ StreamInv => StreamIntact
  <2> SUFFICES ASSUME HeldInv, StreamInv, NEW t \in alive, NEW s \in Sid, active[t] = s
               PROVE  /\ OfSession(Flow(t), s)
                      /\ Rising(Flow(t))
                      /\ WithoutGap(Positions(Flow(t)))
                      /\ Positions(Flow(t)) \subseteq 2..LastOutput(s)
                      /\ Watching(t) /\ Attached(t) /\ LastOutput(s) > 0
                           => LastOutput(s) \in Positions(Flow(t))
                      /\ t \in Inline /\ Positions(Flow(t)) # {} =>
                           sent[s][1].type = "ready" /\ 2 \in Positions(Flow(t))
    BY DEF StreamIntact, HeldInv, SeenInv, NamedInv, SpokenInv, TypeInv, TypeOK, PortsOK, TerminalOK
  <2>1. SpokenInv /\ TypeInv /\ SocketsInv /\ t \in Term /\ Runs(t)
    BY DEF HeldInv, SeenInv, NamedInv, SpokenInv, TypeInv, TypeOK, PortsOK, StreamInv
  <2>2. PICK a \in Nat, b \in Nat : Caught(t, s, a, b)
    BY <2>1 DEF Runs
  <2>3. PICK n \in Nat : n = Len(inbox[t]) /\ Flow(t) \in [0..n -> Seq(Chunk)]
    BY <2>1, Flows
  <2>4. PICK f \in [0..n -> Seq(Chunk)] : n = Len(inbox[t]) /\ f = Flow(t)
    BY <2>3
  <2>5. Run(f, n, s, a, b)
    BY <2>2, <2>4 DEF Caught
  <2>6. DOMAIN f = 0..n /\ \A i \in 0..n : DOMAIN f[i] = 1..Len(f[i])
    OBVIOUS
  <2>7. got[s] \in Nat /\ LastOutput(s) \in {0} \cup Outputs(s) /\ LastOutput(s) \in 0..got[s]
    BY <2>1, SizesAreTyped, LastIs
  <2>8. OfSession(f, s)
    BY <2>5, <2>6 DEF Run, InPieces, OfSession
  <2>9. Rising(f)
    BY <2>5, <2>6 DEF Run, Ordered, Rising
  <2>10. Positions(f) = a..b
    <3>1. \A p : p \in Positions(f) <=> \E i \in 0..n : \E k \in 1..Len(f[i]) : p = f[i][k].pos
      BY <2>6 DEF Positions
    <3>2. \A p \in Positions(f) : p \in a..b
      <4> SUFFICES ASSUME NEW p \in Positions(f)
                   PROVE  p \in a..b
        OBVIOUS
      <4>1. PICK i \in 0..n : \E k \in 1..Len(f[i]) : p = f[i][k].pos
        BY <3>1
      <4> QED
        BY <2>5, <4>1 DEF Run, InPieces
    <3>3. \A p \in a..b : p \in Positions(f)
      BY <2>5, <3>1 DEF Run, Shows
    <3> QED
      BY <3>2, <3>3
  <2>11. WithoutGap(a..b)
    BY DEF WithoutGap
  <2>12. a..b \subseteq 2..LastOutput(s)
    BY <2>2, <2>7 DEF Caught
  <2>13. Watching(t) /\ Attached(t) /\ LastOutput(s) > 0 => LastOutput(s) \in a..b
    BY <2>2, <2>7 DEF Caught, Attached
  <2>14. t \in Inline /\ a..b # {} => sent[s][1].type = "ready" /\ 2 \in a..b
    <3> SUFFICES ASSUME t \in Inline, NEW p \in a..b
                 PROVE  sent[s][1].type = "ready" /\ 2 \in a..b
      OBVIOUS
    <3>1. a <= b /\ b <= LastOutput(s) /\ a >= 2
      BY <2>2 DEF Caught
    <3>2. a = 2
      BY <2>2, <3>1 DEF Caught
    <3>3. LastOutput(s) \in 1..got[s] /\ LastOutput(s) > 1
      BY <2>7, <3>1
    <3>4. LastOutput(s) \in 1..Len(sent[s])
      BY <2>1, <3>3, SizesAreTyped
    <3>5. sent[s][1].type = "ready"
      BY <2>1, <3>3, <3>4 DEF SocketsInv, Talk
    <3> QED
      BY <3>1, <3>2, <3>5
  <2> QED
    BY <2>4, <2>8, <2>9, <2>10, <2>11, <2>12, <2>13, <2>14
<1> QED
  BY <1>1, StreamHolds, PTL
-----------------------------------------------------------------------------
(* The gateway at the far end says and does nothing on a WebSocket that    *)
(* SshPeer does not allow, whatever the browser does to it: what is        *)
(* assumed of it here is what SshGateway is shown to keep.                 *)
THEOREM PeerKeepsDialogue == Spec => Peer!Spec
<1>1. Init => Peer!Init
  BY DEF Init, WorkerInit
<1>2. ASSUME [Next]_vars
      PROVE  [Peer!Next]_(Peer!vars)
  <2>1. CASE \E t \in Term : UserStep(t) \/ ElementStep(t)
    BY <2>1 DEF UserStep, ElementStep, workerVars, Peer!vars
  <2>2. ASSUME NEW t \in Term, PortStep(t)
        PROVE  UNCHANGED Peer!vars
    BY <2>2 DEF PortStep, CreateSession, AttachToSession, ForwardInput, DetachPort, workerVars, Peer!vars
  <2>3. ASSUME NEW s \in Sid, SocketStep(s)
        PROVE  [Peer!Next]_(Peer!vars)
    <3>1. CASE WsOpen(s)
      BY <3>1 DEF WsOpen, Peer!Next
    <3>2. CASE WsFailed(s) \/ WsMessage(s) \/ WsClosing(s)
      BY <3>2 DEF WsFailed, WsMessage, WsClosing, Peer!vars
    <3>3. CASE WsLost(s)
      BY <3>3 DEF WsLost, Peer!Next, Peer!vars
    <3>4. CASE WsGone(s)
      BY <3>4 DEF WsGone, Peer!Next, Peer!vars
    <3> QED
      BY <2>3, <3>1, <3>2, <3>3, <3>4 DEF SocketStep
  <2>4. ASSUME NEW s \in Sid, GatewayStep(s)
        PROVE  Peer!Next
    <3>1. CASE GatewayTakesInit(s)
      BY <3>1 DEF GatewayTakesInit, Peer!Next
    <3>2. ASSUME NEW m \in Peer!ServerMsg, GatewaySends(s, m)
          PROVE  Peer!Next
      BY <3>2 DEF GatewaySends, Peer!Next
    <3> QED
      BY <2>4, <3>1, <3>2 DEF GatewayStep
  <2>5. CASE UNCHANGED vars
    BY <2>5 DEF vars, workerVars, Peer!vars
  <2> QED
    BY <1>2, <2>1, <2>2, <2>3, <2>4, <2>5 DEF Next
<1> QED
  BY <1>1, <1>2, PTL DEF Spec, Peer!Spec
===============================================================================
