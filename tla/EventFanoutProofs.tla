-------------------------- MODULE EventFanoutProofs --------------------------
(***************************************************************************)
(* Theorems about EventFanout, for any number of pages, EventSources,      *)
(* timers and events.                                                      *)
(***************************************************************************)
EXTENDS EventFanout, FiniteSetTheorems, TLAPS

Open(s) == conn[s] \in {"pending", "live"}

(* The BFF holds no stream but the one the worker's eventSource names: the *)
(* inductive form of OneStream.                                            *)
OnlySource == /\ source \in Source \cup {None}
              /\ conn \in [Source -> {"none", "pending", "live", "dead", "closed"}]
              /\ \A s \in Source : Open(s) => s = source

LEMMA InitOnlySource == Init => OnlySource
  BY DEF Init, OnlySource, Open

(* connect() opens a stream only where there is none.                      *)
LEMMA ConnectKeeps == ASSUME OnlySource, Connect PROVE OnlySource'
  BY FanoutConstants DEF OnlySource, Open, Connect

(* eventSource.close() leaves none open.                                   *)
LEMMA CloseSourceKeeps == ASSUME OnlySource, CloseSource PROVE OnlySource'
  BY DEF OnlySource, Open, CloseSource

LEMMA UnchangedKeeps == ASSUME OnlySource, UNCHANGED <<source, conn>> PROVE OnlySource'
  BY DEF OnlySource, Open

LEMMA PageKeeps ==
  ASSUME OnlySource, NEW p \in Page, PageNext(p)
  PROVE  OnlySource'
<1>1. CASE Close(p)
  <2>1. CASE owners = {p}
    <3>1. WorkerEnds
      BY <1>1, <2>1 DEF Close
    <3> QED
      BY <3>1 DEF WorkerEnds, OnlySource, Open
  <2>2. CASE owners # {p}
    BY <1>1, <2>2, UnchangedKeeps DEF Close, workerVars, bffVars
  <2> QED
    BY <2>1, <2>2
<1>2. CASE ~Close(p)
  <2>1. UNCHANGED <<workerVars, bffVars>>
    BY <1>2 DEF PageNext, BootSignedIn, BootSignedOut, SubmitLogin, ClearSession, HandleWorkerMessage
  <2> QED
    BY <2>1, UnchangedKeeps DEF workerVars, bffVars
<1> QED
  BY <1>1, <1>2

LEMMA PortKeeps ==
  ASSUME OnlySource, NEW p \in Page, PortNext(p)
  PROVE  OnlySource'
<1>1. CASE OnConnect(p)
  BY <1>1, UnchangedKeeps DEF OnConnect, bffVars
<1>2. CASE OnSubscribe(p)
  <2>1. Connect \/ UNCHANGED <<source, conn>>
    BY <1>2 DEF OnSubscribe
  <2> QED
    BY <2>1, ConnectKeeps, UnchangedKeeps
<1>3. CASE OnUnsubscribe(p)
  <2>1. CloseSource \/ UNCHANGED <<source, conn>>
    BY <1>3 DEF OnUnsubscribe, Disconnect
  <2> QED
    BY <2>1, CloseSourceKeeps, UnchangedKeeps
<1> QED
  BY <1>1, <1>2, <1>3 DEF PortNext

LEMMA SourceKeeps ==
  ASSUME OnlySource, NEW s \in Source,
         SourceMessage(s) \/ SourceError(s) \/ Accept(s) \/ BreakOff(s)
  PROVE  OnlySource'
<1>1. CASE SourceMessage(s)
  BY <1>1, UnchangedKeeps DEF SourceMessage
<1>2. CASE SourceError(s)
  BY <1>2, CloseSourceKeeps DEF SourceError
<1>3. CASE Accept(s)
  BY <1>3 DEF Accept, OnlySource, Open, workerVars
<1>4. CASE BreakOff(s)
  BY <1>4 DEF BreakOff, OnlySource, Open, workerVars
<1> QED
  BY <1>1, <1>2, <1>3, <1>4

LEMMA StepKeeps == OnlySource /\ [Next]_vars => OnlySource'
<1> SUFFICES ASSUME OnlySource, [Next]_vars
             PROVE  OnlySource'
  OBVIOUS
<1>1. CASE \E p \in Page : PageNext(p) \/ PortNext(p)
  BY <1>1, PageKeeps, PortKeeps
<1>2. CASE \E k \in Timer : TimerFires(k)
  BY <1>2, ConnectKeeps DEF TimerFires
<1>3. CASE \E s \in Source : SourceMessage(s) \/ SourceError(s) \/ Accept(s) \/ BreakOff(s)
  BY <1>3, SourceKeeps
<1>4. CASE Publish
  BY <1>4, UnchangedKeeps DEF Publish, workerVars
<1>5. CASE UNCHANGED vars
  BY <1>5, UnchangedKeeps DEF vars, workerVars, bffVars
<1> QED
  BY <1>1, <1>2, <1>3, <1>4, <1>5 DEF Next

(* The streams that are open are among {source}.                           *)
LEMMA OneOpen == OnlySource => OneStream
<1> SUFFICES ASSUME OnlySource
             PROVE  OneStream
  OBVIOUS
<1> DEFINE Streams == {s \in Source : conn[s] \in {"pending", "live"}}
<1>1. Streams \subseteq {source}
  BY DEF OnlySource, Open
<1>2. IsFiniteSet({source}) /\ Cardinality({source}) = 1
  BY FS_Singleton
<1>3. Cardinality(Streams) <= 1
  BY <1>1, <1>2, FS_Subset
<1> QED
  BY <1>3 DEF OneStream

(* However many pages subscribe, reconnect or leave, and however many      *)
(* timers a lost handle leaves behind, the worker's connect() and onerror  *)
(* never hold two streams of the BFF open.                                 *)
THEOREM OneStreamAlways == Spec => []OneStream
<1>1. Init => OnlySource
  BY InitOnlySource
<1>2. OnlySource /\ [Next]_vars => OnlySource'
  BY StepKeeps
<1>3. OnlySource => OneStream
  BY OneOpen
<1> QED
  BY <1>1, <1>2, <1>3, PTL DEF Spec

-----------------------------------------------------------------------------
(* Type correctness. *)
LEMMA InitType == Init => TypeOK
  BY FanoutConstants DEF Init, TypeOK

LEMMA PostType ==
  ASSUME TypeOK, NEW P \in SUBSET Page, NEW m \in Msg, Post(P, m)
  PROVE  inbox' \in [Page -> Seq(Msg)]
  BY DEF Post, TypeOK

LEMMA NoteType ==
  /\ \A s \in Source : Note("connected", s) \in Msg
  /\ \A s \in Source, n \in Nat : Event(s, n) \in Msg
  /\ Note("reconnecting", None) \in Msg
  BY DEF Note, Event, Msg

LEMMA TakeType ==
  ASSUME TypeOK, NEW p \in Page, NEW m, Take(p, m)
  PROVE  outbox' \in [Page -> Seq({"connect", "subscribe", "unsubscribe"})]
  BY DEF Take, TypeOK

LEMMA ConnectType ==
  ASSUME TypeOK, Connect \/ CloseSource \/ UNCHANGED <<source, conn>>
  PROVE  /\ source' \in Source \cup {None}
         /\ conn' \in [Source -> {"none", "pending", "live", "dead", "closed"}]
  BY DEF Connect, CloseSource, TypeOK

LEMMA PageType ==
  ASSUME TypeOK, NEW p \in Page, PageNext(p)
  PROVE  TypeOK'
<1>1. CASE BootSignedIn(p)
  <2>1. outbox[p] \o <<"connect", "subscribe">> \in Seq({"connect", "subscribe", "unsubscribe"})
    BY DEF TypeOK
  <2>2. /\ joined' \subseteq owners' /\ owners' \subseteq Page
        /\ outbox' \in [Page -> Seq({"connect", "subscribe", "unsubscribe"})]
    BY <1>1, <2>1 DEF BootSignedIn, ConnectEventStream, TypeOK
  <2> QED
    BY <1>1, <2>2 DEF BootSignedIn, TypeOK, workerVars, bffVars
<1>2. CASE BootSignedOut(p)
  BY <1>2 DEF BootSignedOut, TypeOK, portVars, workerVars, bffVars
<1>3. CASE SubmitLogin(p)
  BY <1>3 DEF SubmitLogin, TypeOK, portVars, workerVars, bffVars
<1>4. CASE ClearSession(p)
  <2>1. Append(outbox[p], "unsubscribe") \in Seq({"connect", "subscribe", "unsubscribe"}) /\ <<>> \in Seq(Msg)
    BY DEF TypeOK
  <2>2. /\ joined' \subseteq owners'
        /\ outbox' \in [Page -> Seq({"connect", "subscribe", "unsubscribe"})]
        /\ inbox' \in [Page -> Seq(Msg)]
        /\ status' \in [Page -> {"connecting", "connected", "reconnecting"}]
        /\ client' \in [Page -> Source \cup {None}]
    BY <1>4, <2>1 DEF ClearSession, TypeOK, portVars
  <2> QED
    BY <1>4, <2>2 DEF ClearSession, TypeOK, workerVars, bffVars
<1>5. CASE Close(p)
  <2>1. CASE owners = {p}
    <3>1. WorkerEnds
      BY <1>5, <2>1 DEF Close
    <3>2. /\ page' \in [Page -> {"unloaded", "out", "in", "gone"}]
          /\ joined' \subseteq owners' /\ owners' \subseteq Page
          /\ inbox' \in [Page -> Seq(Msg)]
          /\ UNCHANGED <<status, client, seen>>
      BY <1>5 DEF Close, TypeOK
    <3>3. /\ outbox' \in [Page -> Seq({"connect", "subscribe", "unsubscribe"})]
          /\ conn' \in [Source -> {"none", "pending", "live", "dead", "closed"}]
      BY <3>1 DEF WorkerEnds, TypeOK
    <3> QED
      BY <3>1, <3>2, <3>3 DEF WorkerEnds, TypeOK
  <2>2. CASE owners # {p}
    BY <1>5, <2>2 DEF Close, TypeOK, workerVars, bffVars
  <2> QED
    BY <2>1, <2>2
<1>6. CASE HandleWorkerMessage(p)
  <2>1. Head(inbox[p]) \in Msg /\ Tail(inbox[p]) \in Seq(Msg)
    BY <1>6 DEF HandleWorkerMessage, TypeOK
  <2>2. Head(inbox[p]).from \in Source \cup {None} /\ Head(inbox[p]).n \in Nat
        /\ (Head(inbox[p]).type = "event" => Head(inbox[p]).from \in Source)
    BY <2>1 DEF Msg
  <2>3. /\ status' \in [Page -> {"connecting", "connected", "reconnecting"}]
        /\ client' \in [Page -> Source \cup {None}]
        /\ seen' \in [Page -> Seq(Source \X Nat)]
    <3>1. Head(inbox[p]).type = "event" =>
            Append(seen[p], <<Head(inbox[p]).from, Head(inbox[p]).n>>) \in Seq(Source \X Nat)
      BY <2>2 DEF TypeOK
    <3>2. CASE Head(inbox[p]).type = "connected"
      BY <1>6, <2>2, <3>2 DEF HandleWorkerMessage, TypeOK
    <3>3. CASE Head(inbox[p]).type = "reconnecting"
      BY <1>6, <3>3 DEF HandleWorkerMessage, TypeOK
    <3>4. CASE Head(inbox[p]).type = "event"
      BY <1>6, <3>1, <3>4 DEF HandleWorkerMessage, TypeOK
    <3> QED
      BY <1>6, <3>2, <3>3, <3>4 DEF HandleWorkerMessage
  <2> QED
    BY <1>6, <2>1, <2>3 DEF HandleWorkerMessage, TypeOK, workerVars, bffVars
<1> QED
  BY <1>1, <1>2, <1>3, <1>4, <1>5, <1>6 DEF PageNext

LEMMA PortType ==
  ASSUME TypeOK, NEW p \in Page, PortNext(p)
  PROVE  TypeOK'
<1>1. CASE OnConnect(p)
  BY <1>1, TakeType DEF OnConnect, TypeOK, pageVars, bffVars
<1>2. CASE OnSubscribe(p)
  <2>1. clientId # None => Note("connected", clientId) \in Msg
    BY NoteType DEF TypeOK
  <2>2. inbox' \in [Page -> Seq(Msg)]
    BY <1>2, <2>1, PostType DEF OnSubscribe, TypeOK
  <2>3. /\ source' \in Source \cup {None}
        /\ conn' \in [Source -> {"none", "pending", "live", "dead", "closed"}]
    BY <1>2, ConnectType DEF OnSubscribe
  <2>4. outbox' \in [Page -> Seq({"connect", "subscribe", "unsubscribe"})]
    BY <1>2, TakeType DEF OnSubscribe
  <2> QED
    BY <1>2, <2>2, <2>3, <2>4 DEF OnSubscribe, TypeOK, pageVars
<1>3. CASE OnUnsubscribe(p)
  <2>1. /\ source' \in Source \cup {None}
        /\ conn' \in [Source -> {"none", "pending", "live", "dead", "closed"}]
    BY <1>3, ConnectType DEF OnUnsubscribe, Disconnect
  <2>2. outbox' \in [Page -> Seq({"connect", "subscribe", "unsubscribe"})]
    BY <1>3, TakeType DEF OnUnsubscribe
  <2> QED
    BY <1>3, <2>1, <2>2 DEF OnUnsubscribe, Disconnect, TypeOK, pageVars
<1> QED
  BY <1>1, <1>2, <1>3 DEF PortNext

LEMMA SourceType ==
  ASSUME TypeOK, NEW s \in Source,
         SourceMessage(s) \/ SourceError(s) \/ Accept(s) \/ BreakOff(s)
  PROVE  TypeOK'
<1>1. CASE SourceMessage(s)
  <2>1. Head(feed[s]) \in Msg /\ feed' \in [Source -> Seq(Msg)]
    BY <1>1 DEF SourceMessage, TypeOK
  <2>2. inbox' \in [Page -> Seq(Msg)]
    BY <1>1, <2>1, PostType DEF SourceMessage, TypeOK
  <2> QED
    BY <1>1, <2>1, <2>2 DEF SourceMessage, TypeOK, pageVars
<1>2. CASE SourceError(s)
  <2>1. inbox' \in [Page -> Seq(Msg)]
    BY <1>2, NoteType, PostType DEF SourceError, TypeOK
  <2>2. /\ source' \in Source \cup {None}
        /\ conn' \in [Source -> {"none", "pending", "live", "dead", "closed"}]
    BY <1>2, ConnectType DEF SourceError
  <2> QED
    BY <1>2, <2>1, <2>2 DEF SourceError, TypeOK, pageVars
<1>3. CASE Accept(s)
  <2>1. <<Note("connected", s)>> \in Seq(Msg)
    BY NoteType
  <2> QED
    BY <1>3, <2>1 DEF Accept, TypeOK, pageVars, portVars, workerVars
<1>4. CASE BreakOff(s)
  BY <1>4 DEF BreakOff, TypeOK, pageVars, portVars, workerVars
<1> QED
  BY <1>1, <1>2, <1>3, <1>4

LEMMA StepType == TypeOK /\ [Next]_vars => TypeOK'
<1> SUFFICES ASSUME TypeOK, [Next]_vars
             PROVE  TypeOK'
  OBVIOUS
<1>1. CASE \E p \in Page : PageNext(p) \/ PortNext(p)
  BY <1>1, PageType, PortType
<1>2. CASE \E k \in Timer : TimerFires(k)
  BY <1>2, ConnectType DEF TimerFires, TypeOK, pageVars, portVars
<1>3. CASE \E s \in Source : SourceMessage(s) \/ SourceError(s) \/ Accept(s) \/ BreakOff(s)
  BY <1>3, SourceType
<1>4. CASE Publish
  <2>1. published' \in 0..MaxEvents
    BY <1>4, FanoutConstants DEF Publish, TypeOK
  <2>2. \A s \in Source : Event(s, published') \in Msg
    BY <2>1, NoteType, FanoutConstants
  <2>3. feed' \in [Source -> Seq(Msg)]
    BY <1>4, <2>2 DEF Publish, TypeOK
  <2> QED
    BY <1>4, <2>1, <2>3 DEF Publish, TypeOK, pageVars, portVars, workerVars
<1>5. CASE UNCHANGED vars
  BY <1>5 DEF TypeOK, vars, pageVars, portVars, workerVars, bffVars
<1> QED
  BY <1>1, <1>2, <1>3, <1>4, <1>5 DEF Next

(* Every variable of the pages, of events-sse.worker.ts and of the streams *)
(* keeps its type.                                                         *)
THEOREM TypeCorrect == Spec => []TypeOK
<1>1. Init => TypeOK
  BY InitType
<1>2. TypeOK /\ [Next]_vars => TypeOK'
  BY StepType
<1> QED
  BY <1>1, <1>2, PTL DEF Spec

-----------------------------------------------------------------------------
(* How the messages of a page follow one another: a port is announced      *)
(* right before its "subscribe", nothing follows an "unsubscribe", and a   *)
(* page that has joined has sent none.  ReconnectIsAhead needs it: a port  *)
(* that comes is about to subscribe, and one that goes is not.             *)
InTurn == \A p \in Page :
  /\ page[p] = "unloaded" => outbox[p] = <<>>
  /\ \A i \in DOMAIN outbox[p] :
       /\ outbox[p][i] = "connect" => i + 1 \in DOMAIN outbox[p] /\ outbox[p][i + 1] = "subscribe"
       /\ outbox[p][i] = "unsubscribe" => i = Len(outbox[p])
       /\ p \in joined => outbox[p][i] # "unsubscribe"

RInv == TypeOK /\ InTurn /\ ReconnectIsAhead

LEMMA TakeInTurn ==
  ASSUME TypeOK, InTurn, NEW p \in Page, NEW m, Take(p, m), UNCHANGED <<page, joined>>
  PROVE  /\ InTurn'
         /\ \A i \in DOMAIN outbox'[p] : i + 1 \in DOMAIN outbox[p] /\ outbox'[p][i] = outbox[p][i + 1]
         /\ \A i \in DOMAIN outbox[p] : i # 1 => i - 1 \in DOMAIN outbox'[p] /\ outbox'[p][i - 1] = outbox[p][i]
<1>1. /\ outbox[p] \in Seq({"connect", "subscribe", "unsubscribe"}) /\ outbox[p] # <<>>
      /\ outbox' = [outbox EXCEPT ![p] = Tail(outbox[p])]
      /\ outbox'[p] = Tail(outbox[p])
  BY DEF Take, TypeOK
<1>2. /\ Len(outbox'[p]) = Len(outbox[p]) - 1
      /\ \A i \in 1..Len(outbox'[p]) : outbox'[p][i] = outbox[p][i + 1]
      /\ DOMAIN outbox'[p] = 1..Len(outbox'[p])
      /\ DOMAIN outbox[p] = 1..Len(outbox[p])
      /\ Len(outbox[p]) \in Nat
  <2>1. DOMAIN outbox[p] = 1..Len(outbox[p]) /\ Len(outbox[p]) \in Nat /\ Len(outbox[p]) # 0
    BY <1>1
  <2>2. Len(Tail(outbox[p])) = Len(outbox[p]) - 1 /\ DOMAIN Tail(outbox[p]) = 1..Len(Tail(outbox[p]))
    BY <1>1, <2>1
  <2>3. \A i \in 1..(Len(outbox[p]) - 1) : Tail(outbox[p])[i] = outbox[p][i + 1]
    BY <1>1, <2>1
  <2> QED
    BY <1>1, <2>1, <2>2, <2>3
<1>3. /\ \A i \in DOMAIN outbox'[p] : i + 1 \in DOMAIN outbox[p] /\ outbox'[p][i] = outbox[p][i + 1]
      /\ \A i \in DOMAIN outbox[p] : i # 1 => i - 1 \in DOMAIN outbox'[p] /\ outbox'[p][i - 1] = outbox[p][i]
  BY <1>2
<1>4. ASSUME NEW q \in Page
      PROVE  /\ page'[q] = "unloaded" => outbox'[q] = <<>>
             /\ \A i \in DOMAIN outbox'[q] :
                  /\ outbox'[q][i] = "connect" => i + 1 \in DOMAIN outbox'[q] /\ outbox'[q][i + 1] = "subscribe"
                  /\ outbox'[q][i] = "unsubscribe" => i = Len(outbox'[q])
                  /\ q \in joined' => outbox'[q][i] # "unsubscribe"
  <2>1. CASE q # p
    BY <1>1, <2>1 DEF InTurn, TypeOK
  <2>2. CASE q = p
    <3>1. page'[p] # "unloaded"
      BY <1>1 DEF InTurn
    <3>2. ASSUME NEW i \in DOMAIN outbox'[p]
          PROVE  /\ outbox'[p][i] = "connect" => i + 1 \in DOMAIN outbox'[p] /\ outbox'[p][i + 1] = "subscribe"
                 /\ outbox'[p][i] = "unsubscribe" => i = Len(outbox'[p])
                 /\ p \in joined' => outbox'[p][i] # "unsubscribe"
      BY <1>2, <1>3 DEF InTurn
    <3> QED
      BY <2>2, <3>1, <3>2
  <2> QED
    BY <2>1, <2>2
<1> QED
  BY <1>3, <1>4 DEF InTurn

LEMMA InitReconnect == Init => RInv
  BY InitType DEF Init, RInv, InTurn, ReconnectIsAhead

(* Nothing that ReconnectIsAhead looks at goes away. *)
LEMMA Waits ==
  ASSUME ReconnectIsAhead, ports' = ports, source' # None \/ (source' = source /\ armed \subseteq armed'),
         \A p \in ports : \A i \in DOMAIN outbox[p] : i \in DOMAIN outbox'[p] /\ outbox'[p][i] = outbox[p][i]
  PROVE  ReconnectIsAhead'
<1> SUFFICES ASSUME source' = None, ports # {}, armed = {}
             PROVE  \E p \in ports' : "subscribe" \in {outbox'[p][i] : i \in DOMAIN outbox'[p]}
  BY DEF ReconnectIsAhead
<1>1. PICK p \in ports : "subscribe" \in {outbox[p][i] : i \in DOMAIN outbox[p]}
  BY DEF ReconnectIsAhead
<1>2. PICK i \in DOMAIN outbox[p] : outbox[p][i] = "subscribe"
  BY <1>1
<1> QED
  BY <1>2

LEMMA PageReconnect ==
  ASSUME RInv, NEW p \in Page, PageNext(p)
  PROVE  InTurn' /\ ReconnectIsAhead'
<1> USE DEF RInv
<1>1. CASE BootSignedIn(p)
  <2>1. CASE p \in joined
    BY <1>1, <2>1 DEF BootSignedIn, ConnectEventStream, workerVars, TypeOK, InTurn, ReconnectIsAhead
  <2>2. CASE p \notin joined
    <3>1. outbox[p] = <<>> /\ outbox[p] \o <<"connect", "subscribe">> = <<"connect", "subscribe">>
      <4>1. outbox[p] = <<>>
        BY <1>1 DEF BootSignedIn, InTurn
      <4>2. <<>> \o <<"connect", "subscribe">> = <<"connect", "subscribe">>
        OBVIOUS
      <4> QED
        BY <4>1, <4>2
    <3>2. outbox' = [outbox EXCEPT ![p] = <<"connect", "subscribe">>] /\ joined' = joined \cup {p}
      BY <1>1, <2>2, <3>1 DEF BootSignedIn, ConnectEventStream
    <3>3. InTurn'
      BY <1>1, <3>2 DEF BootSignedIn, InTurn, TypeOK
    <3>4. \A q \in ports : \A i \in DOMAIN outbox[q] : i \in DOMAIN outbox'[q] /\ outbox'[q][i] = outbox[q][i]
      BY <3>1, <3>2 DEF TypeOK
    <3> QED
      BY <1>1, <3>3, <3>4, Waits DEF BootSignedIn, workerVars
  <2> QED
    BY <2>1, <2>2
<1>2. CASE BootSignedOut(p) \/ SubmitLogin(p)
  BY <1>2 DEF BootSignedOut, SubmitLogin, portVars, workerVars, TypeOK, InTurn, ReconnectIsAhead
<1>3. CASE ClearSession(p)
  <2>1. CASE p \notin joined
    BY <1>3, <2>1 DEF ClearSession, portVars, workerVars, TypeOK, InTurn, ReconnectIsAhead
  <2>2. CASE p \in joined
    <3>1. outbox' = [outbox EXCEPT ![p] = Append(outbox[p], "unsubscribe")] /\ joined' = joined \ {p}
          /\ page' = [page EXCEPT ![p] = "out"]
      BY <1>3, <2>2 DEF ClearSession
    <3>2. /\ Len(outbox'[p]) = Len(outbox[p]) + 1 /\ Len(outbox[p]) \in Nat
          /\ DOMAIN outbox'[p] = 1..Len(outbox'[p])
          /\ DOMAIN outbox[p] = 1..Len(outbox[p])
          /\ \A i \in DOMAIN outbox[p] : outbox'[p][i] = outbox[p][i]
          /\ outbox'[p][Len(outbox'[p])] = "unsubscribe"
      BY <3>1 DEF TypeOK
    <3>3. ASSUME NEW i \in DOMAIN outbox'[p]
          PROVE  /\ outbox'[p][i] = "connect" => i + 1 \in DOMAIN outbox'[p] /\ outbox'[p][i + 1] = "subscribe"
                 /\ outbox'[p][i] = "unsubscribe" => i = Len(outbox'[p])
      <4>1. CASE i \in DOMAIN outbox[p]
        BY <2>2, <3>2, <4>1 DEF InTurn
      <4>2. CASE i \notin DOMAIN outbox[p]
        BY <3>2, <4>2
      <4> QED
        BY <4>1, <4>2
    <3>4. page'[p] # "unloaded" /\ p \notin joined'
      BY <3>1 DEF TypeOK
    <3>5. \A q \in Page \ {p} : page'[q] = page[q] /\ outbox'[q] = outbox[q] /\ (q \in joined' => q \in joined)
      BY <3>1 DEF TypeOK
    <3>6. InTurn'
      BY <3>3, <3>4, <3>5 DEF InTurn
    <3>7. \A q \in ports : \A i \in DOMAIN outbox[q] : i \in DOMAIN outbox'[q] /\ outbox'[q][i] = outbox[q][i]
      BY <3>1, <3>2 DEF TypeOK
    <3> QED
      BY <1>3, <3>6, <3>7, Waits DEF ClearSession, workerVars
  <2> QED
    BY <2>1, <2>2
<1>4. CASE Close(p)
  <2>1. CASE owners = {p}
    BY <1>4, <2>1 DEF Close, WorkerEnds, InTurn, ReconnectIsAhead
  <2>2. CASE owners # {p}
    BY <1>4, <2>2 DEF Close, workerVars, TypeOK, InTurn, ReconnectIsAhead
  <2> QED
    BY <2>1, <2>2
<1>5. CASE HandleWorkerMessage(p)
  BY <1>5 DEF HandleWorkerMessage, workerVars, TypeOK, InTurn, ReconnectIsAhead
<1> QED
  BY <1>1, <1>2, <1>3, <1>4, <1>5 DEF PageNext

LEMMA PortReconnect ==
  ASSUME RInv, NEW p \in Page, PortNext(p)
  PROVE  InTurn' /\ ReconnectIsAhead'
<1> USE DEF RInv
<1>1. CASE OnConnect(p)
  <2>1. Take(p, "connect") /\ UNCHANGED <<page, joined, source, armed>> /\ ports' = ports \cup {p}
    BY <1>1 DEF OnConnect, pageVars
  <2>2. 1 \in DOMAIN outbox[p] /\ outbox[p][1] = "connect"
    BY <2>1 DEF Take, TypeOK
  <2>3. 2 \in DOMAIN outbox[p] /\ outbox[p][2] = "subscribe"
    BY <2>2 DEF InTurn
  <2>4. 1 \in DOMAIN outbox'[p] /\ outbox'[p][1] = "subscribe"
    BY <2>1, <2>3, TakeInTurn
  <2> QED
    BY <2>1, <2>4, TakeInTurn DEF ReconnectIsAhead
<1>2. CASE OnSubscribe(p)
  <2>1. Take(p, "subscribe") /\ UNCHANGED <<page, joined>>
    BY <1>2 DEF OnSubscribe, pageVars
  <2>2. source' # None
    BY <1>2, FanoutConstants DEF OnSubscribe, Connect
  <2> QED
    BY <2>1, <2>2, TakeInTurn DEF ReconnectIsAhead
<1>3. CASE OnUnsubscribe(p)
  <2>1. Take(p, "unsubscribe") /\ UNCHANGED <<page, joined>>
    BY <1>3 DEF OnUnsubscribe, pageVars
  <2>2. InTurn'
    BY <2>1, TakeInTurn
  <2>3. CASE ports' = {}
    BY <2>2, <2>3 DEF ReconnectIsAhead
  <2>4. CASE ports' # {}
    <3>1. UNCHANGED <<source, armed>> /\ ports' = ports \ {p}
      BY <1>3, <2>4 DEF OnUnsubscribe
    <3>2. 1 \in DOMAIN outbox[p] /\ outbox[p][1] = "unsubscribe" /\ DOMAIN outbox[p] = 1..Len(outbox[p])
      BY <2>1 DEF Take, TypeOK
    <3>3. \A i \in DOMAIN outbox[p] : outbox[p][i] # "subscribe"
      BY <3>2 DEF InTurn
    <3>4. \A q \in Page \ {p} : outbox'[q] = outbox[q]
      BY <2>1 DEF Take, TypeOK
    <3>5. ports \subseteq Page
      BY DEF TypeOK
    <3> QED
      BY <2>2, <2>4, <3>1, <3>3, <3>4, <3>5 DEF ReconnectIsAhead
  <2> QED
    BY <2>3, <2>4
<1> QED
  BY <1>1, <1>2, <1>3 DEF PortNext

LEMMA StepReconnect == RInv /\ [Next]_vars => RInv'
<1> SUFFICES ASSUME RInv, [Next]_vars
             PROVE  RInv'
  OBVIOUS
<1> USE DEF RInv
<1>1. TypeOK'
  BY StepType
<1>2. CASE \E p \in Page : PageNext(p) \/ PortNext(p)
  BY <1>1, <1>2, PageReconnect, PortReconnect
<1>3. ASSUME UNCHANGED <<page, joined, outbox, ports>>,
             source' # None \/ armed' # {} \/ (source' = source /\ armed' = armed)
      PROVE  RInv'
  BY <1>1, <1>3 DEF InTurn, ReconnectIsAhead
<1>4. CASE \E k \in Timer : TimerFires(k)
  <2>1. source' # None
    BY <1>4, FanoutConstants DEF TimerFires, Connect
  <2> QED
    BY <1>3, <1>4, <2>1 DEF TimerFires, pageVars, portVars
<1>5. CASE \E s \in Source : SourceMessage(s) \/ SourceError(s) \/ Accept(s) \/ BreakOff(s)
  BY <1>3, <1>5 DEF SourceMessage, SourceError, Accept, BreakOff, pageVars, portVars, workerVars
<1>6. CASE Publish
  BY <1>3, <1>6 DEF Publish, pageVars, portVars, workerVars
<1>7. CASE UNCHANGED vars
  BY <1>3, <1>7 DEF vars, pageVars, portVars, workerVars
<1> QED
  BY <1>2, <1>4, <1>5, <1>6, <1>7 DEF Next

(* While pages are subscribed, onerror and the port handlers never leave   *)
(* the worker without a stream, a timer or a "subscribe" to come, although *)
(* disconnect() clears only the timer whose handle it has.                 *)
THEOREM ReconnectIsAheadAlways == Spec => []ReconnectIsAhead
<1>1. Init => RInv
  BY InitReconnect
<1>2. RInv /\ [Next]_vars => RInv'
  BY StepReconnect
<1>3. RInv => ReconnectIsAhead
  BY DEF RInv
<1> QED
  BY <1>1, <1>2, <1>3, PTL DEF Spec

-----------------------------------------------------------------------------
(* A message, or the status of a page, says what the client id c means.    *)
Fits(m, c) == IF c # None THEN m.type = "connected" /\ m.from = c ELSE m.type # "connected"

Shows(p, c) == IF c # None THEN status[p] = "connected" /\ client[p] = c ELSE status[p] # "connected"

(* The latest news on its way to p, or else what p shows, is what the      *)
(* worker thinks.                                                          *)
Told(p) ==
  /\ \A i \in DOMAIN inbox[p] :
       /\ inbox[p][i].type # "event"
       /\ \A j \in DOMAIN inbox[p] : j > i => inbox[p][j].type = "event"
       => Fits(inbox[p][i], clientId)
  /\ (\A i \in DOMAIN inbox[p] : inbox[p][i].type = "event") => Shows(p, clientId)

Subscribing(p) == \E i \in DOMAIN outbox[p] : outbox[p][i] = "subscribe"

(* The inductive form of StatusAgrees: a port that has subscribed has been *)
(* told, one that has not knows of no stream unless there is one, and a    *)
(* page without a port has heard nothing.                                  *)
FeedOK == \A s \in Source : \A i \in DOMAIN feed[s] :
  feed[s][i].type = "event" \/ (feed[s][i].type = "connected" /\ feed[s][i].from = s)

PagesTold ==
  /\ \A p \in Page : page[p] = "unloaded" =>
       p \notin joined /\ p \notin ports /\ inbox[p] = <<>> /\ status[p] = "connecting"
  /\ \A p \in joined :
       /\ p \in ports /\ (clientId = None \/ ~Subscribing(p)) => Told(p)
       /\ p \notin ports => /\ inbox[p] = <<>> /\ status[p] # "connected"
                            /\ 1 \in DOMAIN outbox[p] /\ outbox[p][1] = "connect"

Informed == FeedOK /\ PagesTold

SInv == RInv /\ Informed

LEMMA InitInformed == Init => SInv
  BY InitReconnect DEF Init, SInv, Informed, FeedOK, PagesTold

(* What has not changed for a page, what is news to it, and what is not.   *)
LEMMA ToldSame ==
  ASSUME NEW q \in Page, Told(q), inbox'[q] = inbox[q], clientId' = clientId, status'[q] = status[q], client'[q] = client[q]
  PROVE  Told(q)'
  BY DEF Told, Fits, Shows

LEMMA ToldNews ==
  ASSUME NEW q \in Page, inbox[q] \in Seq(Msg), NEW m \in Msg, inbox'[q] = Append(inbox[q], m),
         m.type # "event", Fits(m, clientId')
  PROVE  Told(q)'
<1>1. /\ DOMAIN inbox'[q] = 1..(Len(inbox[q]) + 1) /\ Len(inbox[q]) \in Nat
      /\ inbox'[q][Len(inbox[q]) + 1] = m
  OBVIOUS
<1>2. ASSUME NEW i \in DOMAIN inbox'[q], \A j \in DOMAIN inbox'[q] : j > i => inbox'[q][j].type = "event"
      PROVE  inbox'[q][i] = m
  BY <1>1, <1>2
<1> QED
  BY <1>1, <1>2 DEF Told

LEMMA ToldEvent ==
  ASSUME NEW q \in Page, inbox[q] \in Seq(Msg), NEW m \in Msg, inbox'[q] = Append(inbox[q], m),
         m.type = "event", Told(q), clientId' = clientId, status'[q] = status[q], client'[q] = client[q]
  PROVE  Told(q)'
<1>1. /\ DOMAIN inbox'[q] = 1..(Len(inbox[q]) + 1) /\ Len(inbox[q]) \in Nat
      /\ DOMAIN inbox[q] = 1..Len(inbox[q])
      /\ inbox'[q][Len(inbox[q]) + 1] = m
      /\ \A i \in DOMAIN inbox[q] : inbox'[q][i] = inbox[q][i]
  OBVIOUS
<1>2. ASSUME NEW i \in DOMAIN inbox'[q], inbox'[q][i].type # "event",
             \A j \in DOMAIN inbox'[q] : j > i => inbox'[q][j].type = "event"
      PROVE  Fits(inbox'[q][i], clientId')
  <2>1. i \in DOMAIN inbox[q]
    BY <1>1, <1>2
  <2> QED
    BY <1>1, <1>2, <2>1 DEF Told
<1>3. ASSUME \A i \in DOMAIN inbox'[q] : inbox'[q][i].type = "event"
      PROVE  Shows(q, clientId)'
  BY <1>1, <1>3 DEF Told, Shows
<1> QED
  BY <1>2, <1>3 DEF Told

(* handleWorkerMessage takes the first message in. *)
LEMMA ToldRead ==
  ASSUME TypeOK, NEW q \in Page, HandleWorkerMessage(q), Told(q)
  PROVE  Told(q)'
<1>1. /\ inbox[q] \in Seq(Msg) /\ inbox[q] # <<>> /\ inbox'[q] = Tail(inbox[q])
      /\ clientId' = clientId
      /\ status \in [Page -> {"connecting", "connected", "reconnecting"}]
      /\ client \in [Page -> Source \cup {None}]
  BY DEF HandleWorkerMessage, TypeOK, workerVars
<1>2. /\ DOMAIN inbox[q] = 1..Len(inbox[q]) /\ Len(inbox[q]) \in Nat /\ Len(inbox[q]) # 0
      /\ inbox[q][1] = Head(inbox[q])
  BY <1>1
<1>3. DOMAIN inbox'[q] = 1..(Len(inbox[q]) - 1)
  BY <1>1, <1>2
<1>4. \A i \in DOMAIN inbox'[q] : i + 1 \in DOMAIN inbox[q] /\ inbox'[q][i] = inbox[q][i + 1]
  BY <1>1, <1>2, <1>3
<1>5. ASSUME NEW i \in DOMAIN inbox'[q], inbox'[q][i].type # "event",
             \A j \in DOMAIN inbox'[q] : j > i => inbox'[q][j].type = "event"
      PROVE  Fits(inbox'[q][i], clientId')
  <2>1. ASSUME NEW j \in DOMAIN inbox[q], j > i + 1
        PROVE  inbox[q][j].type = "event"
    <3>1. j - 1 \in DOMAIN inbox'[q] /\ j - 1 > i /\ inbox'[q][j - 1] = inbox[q][j]
      BY <1>2, <1>3, <1>4, <2>1
    <3> QED
      BY <1>5, <3>1
  <2>2. i + 1 \in DOMAIN inbox[q] /\ inbox'[q][i] = inbox[q][i + 1]
    BY <1>4
  <2> QED
    BY <1>1, <1>5, <2>1, <2>2 DEF Told
<1>6. ASSUME \A i \in DOMAIN inbox'[q] : inbox'[q][i].type = "event"
      PROVE  Shows(q, clientId)'
  <2>1. ASSUME NEW j \in DOMAIN inbox[q], j > 1
        PROVE  inbox[q][j].type = "event"
    <3>1. j - 1 \in DOMAIN inbox'[q] /\ inbox'[q][j - 1] = inbox[q][j]
      BY <1>2, <1>3, <1>4, <2>1
    <3> QED
      BY <1>6, <3>1
  <2>2. 1 \in DOMAIN inbox[q]
    BY <1>2
  <2>3. CASE Head(inbox[q]).type = "event"
    <3>1. \A j \in DOMAIN inbox[q] : inbox[q][j].type = "event"
      BY <1>2, <2>1, <2>3
    <3>2. status'[q] = status[q] /\ client'[q] = client[q]
      BY <2>3 DEF HandleWorkerMessage
    <3> QED
      BY <1>1, <3>1, <3>2 DEF Told, Shows
  <2>4. CASE Head(inbox[q]).type # "event"
    <3>1. Fits(Head(inbox[q]), clientId)
      BY <1>2, <2>1, <2>2, <2>4 DEF Told
    <3>2. CASE Head(inbox[q]).type = "connected"
      <4>1. status'[q] = "connected" /\ client'[q] = Head(inbox[q]).from
        BY <1>1, <3>2 DEF HandleWorkerMessage
      <4> QED
        BY <1>1, <3>1, <3>2, <4>1 DEF Fits, Shows
    <3>3. CASE Head(inbox[q]).type = "reconnecting"
      <4>1. status'[q] = "reconnecting"
        BY <1>1, <3>3 DEF HandleWorkerMessage
      <4> QED
        BY <1>1, <3>1, <3>3, <4>1 DEF Fits, Shows
    <3> QED
      BY <2>4, <3>2, <3>3 DEF HandleWorkerMessage
  <2> QED
    BY <2>3, <2>4
<1> QED
  BY <1>5, <1>6 DEF Told

(* Nothing that a page is told, or has to be told, has changed. *)
LEMMA SameInformed ==
  ASSUME SInv, UNCHANGED <<page, joined, status, client, ports, outbox, inbox, clientId>>
  PROVE  PagesTold'
<1> USE DEF SInv, RInv, Informed, PagesTold
<1>1. joined \subseteq Page
  BY DEF TypeOK
<1>2. \A q \in joined : Told(q) => Told(q)'
  BY <1>1, ToldSame
<1>3. \A q \in joined : Subscribing(q)' <=> Subscribing(q)
  BY DEF Subscribing
<1> QED
  BY <1>2, <1>3

(* A step of page p in which no other page's view of the worker changes.   *)
LEMMA PageInformed ==
  ASSUME SInv, NEW p \in Page, PageNext(p)
  PROVE  Informed'
<1> USE DEF SInv, RInv, Informed, FeedOK, PagesTold
<1>1. CASE BootSignedIn(p)
  <2>1. /\ \A q \in Page : page'[q] = "unloaded" => page[q] = "unloaded" /\ q # p
        /\ UNCHANGED <<status, client, inbox, ports, clientId, feed>>
        /\ p \notin joined /\ p \notin ports /\ inbox[p] = <<>> /\ status[p] = "connecting"
    BY <1>1 DEF BootSignedIn, workerVars, bffVars, TypeOK
  <2>2. joined' = joined \cup {p} /\ \A q \in Page \ {p} : outbox'[q] = outbox[q]
    BY <1>1, <2>1 DEF BootSignedIn, ConnectEventStream, TypeOK
  <2>3. ASSUME NEW q \in joined, q # p, q \in ports, clientId = None \/ ~Subscribing(q)'
        PROVE  Told(q)'
    <3>1. q \in Page /\ (clientId = None \/ ~Subscribing(q))
      BY <2>2, <2>3 DEF Subscribing, TypeOK
    <3> QED
      BY <2>1, <2>3, <3>1, ToldSame
  <2>4. 1 \in DOMAIN outbox'[p] /\ outbox'[p][1] = "connect"
    <3>1. outbox[p] = <<>> /\ outbox' = [outbox EXCEPT ![p] = outbox[p] \o <<"connect", "subscribe">>]
      BY <1>1, <2>1 DEF BootSignedIn, ConnectEventStream, InTurn
    <3>2. outbox'[p] = <<>> \o <<"connect", "subscribe">>
      BY <3>1 DEF TypeOK
    <3> QED
      BY <3>2
  <2>5. joined \subseteq Page
    BY DEF TypeOK
  <2> QED
    BY <2>1, <2>2, <2>3, <2>4, <2>5
<1>2. CASE BootSignedOut(p) \/ SubmitLogin(p)
  <2>1. /\ \A q \in Page : page'[q] = "unloaded" => page[q] = "unloaded"
        /\ UNCHANGED <<joined, status, client, inbox, outbox, ports, clientId, feed>>
    BY <1>2 DEF BootSignedOut, SubmitLogin, portVars, workerVars, bffVars, TypeOK
  <2>2. ASSUME NEW q \in joined, q \in ports, clientId = None \/ ~Subscribing(q)'
        PROVE  Told(q)'
    <3>1. q \in Page /\ (clientId = None \/ ~Subscribing(q))
      BY <2>1, <2>2 DEF Subscribing, TypeOK
    <3> QED
      BY <2>1, <2>2, <3>1, ToldSame
  <2> QED
    BY <2>1, <2>2
<1>3. CASE ClearSession(p) \/ (Close(p) /\ owners # {p})
  <2>1. /\ page'[p] # "unloaded" /\ \A q \in Page \ {p} : page'[q] = page[q]
        /\ p \notin joined'
        /\ UNCHANGED <<ports, clientId, feed>>
    BY <1>3 DEF ClearSession, Close, portVars, workerVars, bffVars, TypeOK
  <2>2. \A q \in Page \ {p} : /\ inbox'[q] = inbox[q] /\ outbox'[q] = outbox[q]
                              /\ status'[q] = status[q] /\ client'[q] = client[q]
                              /\ (q \in joined' <=> q \in joined)
    BY <1>3 DEF ClearSession, Close, portVars, TypeOK
  <2>3. ASSUME NEW q \in joined', q \in ports, clientId = None \/ ~Subscribing(q)'
        PROVE  Told(q)'
    <3>1. q \in Page /\ q # p /\ q \in joined
      BY <1>3, <2>1, <2>2 DEF ClearSession, Close, TypeOK
    <3>2. clientId = None \/ ~Subscribing(q)
      BY <2>2, <2>3, <3>1 DEF Subscribing
    <3> QED
      BY <2>1, <2>2, <2>3, <3>1, <3>2, ToldSame
  <2>4. \A q \in joined' : q \in Page /\ q # p /\ q \in joined
    BY <1>3, <2>1, <2>2 DEF ClearSession, Close, TypeOK
  <2> QED
    BY <2>1, <2>2, <2>3, <2>4
<1>4. CASE Close(p) /\ owners = {p}
  <2>1. WorkerEnds /\ joined' = {}
    BY <1>4 DEF Close, TypeOK
  <2>2. \A q \in Page : page'[q] = "unloaded" => page[q] = "unloaded" /\ inbox'[q] = inbox[q] /\ status'[q] = status[q]
    BY <1>4 DEF Close, TypeOK
  <2> QED
    BY <2>1, <2>2 DEF WorkerEnds
<1>5. CASE HandleWorkerMessage(p)
  <2>1. /\ p \in joined /\ inbox[p] # <<>>
        /\ UNCHANGED <<page, joined, outbox, ports, clientId, feed>>
        /\ \A q \in Page \ {p} : inbox'[q] = inbox[q] /\ status'[q] = status[q] /\ client'[q] = client[q]
    BY <1>5 DEF HandleWorkerMessage, workerVars, bffVars, TypeOK
  <2>2. p \in ports
    BY <2>1
  <2>3. ASSUME NEW q \in joined, q \in ports, clientId = None \/ ~Subscribing(q)'
        PROVE  Told(q)'
    <3>1. q \in Page /\ (clientId = None \/ ~Subscribing(q))
      BY <2>1, <2>3 DEF Subscribing, TypeOK
    <3>2. Told(q)
      BY <2>3, <3>1
    <3>3. CASE q = p
      BY <1>5, <3>2, <3>3, ToldRead
    <3>4. CASE q # p
      BY <2>1, <3>1, <3>2, <3>4, ToldSame
    <3> QED
      BY <3>3, <3>4
  <2>4. \A q \in Page : page[q] = "unloaded" => q # p
    BY <2>1
  <2>5. joined \subseteq Page
    BY DEF TypeOK
  <2> QED
    BY <2>1, <2>2, <2>3, <2>4, <2>5
<1> QED
  BY <1>1, <1>2, <1>3, <1>4, <1>5 DEF PageNext

LEMMA PortInformed ==
  ASSUME SInv, NEW p \in Page, PortNext(p)
  PROVE  Informed'
<1> USE DEF SInv, RInv, Informed, FeedOK, PagesTold
<1>1. /\ outbox[p] # <<>>
      /\ UNCHANGED <<page, joined, status, client, feed>>
      /\ \A q \in Page \ {p} : outbox'[q] = outbox[q]
      /\ page[p] # "unloaded"
      /\ joined \subseteq Page /\ ports \subseteq Page
  BY DEF PortNext, OnConnect, OnSubscribe, OnUnsubscribe, Take, TypeOK, InTurn, pageVars, bffVars
<1>2. CASE OnConnect(p)
  <2>1. ports' = ports \cup {p} /\ UNCHANGED <<inbox, clientId>> /\ Take(p, "connect")
    BY <1>2 DEF OnConnect
  <2>2. 1 \in DOMAIN outbox[p] /\ outbox[p][1] = "connect"
    BY <2>1 DEF Take, TypeOK
  <2>3. 2 \in DOMAIN outbox[p] /\ outbox[p][2] = "subscribe"
    BY <2>2 DEF InTurn
  <2>4. Subscribing(p) /\ Subscribing(p)'
    <3>1. 1 \in DOMAIN outbox'[p] /\ outbox'[p][1] = "subscribe"
      BY <1>1, <2>1, <2>3, TakeInTurn
    <3> QED
      BY <2>3, <3>1 DEF Subscribing
  <2>5. ASSUME NEW q \in joined, q \in ports', clientId' = None \/ ~Subscribing(q)'
        PROVE  Told(q)'
    <3>1. q \in Page
      BY <1>1
    <3>2. Told(q)
      <4>1. CASE q \in ports
        <5>1. clientId = None \/ ~Subscribing(q)
          BY <1>1, <2>1, <2>4, <2>5, <3>1 DEF Subscribing
        <5> QED
          BY <4>1, <5>1
      <4>2. CASE q \notin ports
        <5>1. q = p /\ clientId = None /\ inbox[q] = <<>> /\ status[q] # "connected"
          BY <2>1, <2>4, <2>5, <4>2
        <5> QED
          BY <5>1 DEF Told, Shows
      <4> QED
        BY <4>1, <4>2
    <3> QED
      BY <1>1, <2>1, <3>1, <3>2, ToldSame
  <2> QED
    BY <1>1, <2>1, <2>5
<1>3. CASE OnSubscribe(p)
  <2>1. ports' = ports /\ clientId' = clientId /\ Take(p, "subscribe")
    BY <1>3 DEF OnSubscribe
  <2>2. \A q \in Page : q # p \/ p \notin joined \/ clientId = None => inbox'[q] = inbox[q]
    BY <1>3 DEF OnSubscribe, Post, TypeOK
  <2>3. 1 \in DOMAIN outbox[p] /\ outbox[p][1] = "subscribe"
    BY <2>1 DEF Take, TypeOK
  <2>4. ASSUME NEW q \in joined, q \in ports, clientId = None \/ ~Subscribing(q)'
        PROVE  Told(q)'
    <3>1. q \in Page
      BY <1>1
    <3>2. CASE q # p \/ clientId = None
      <4>1. clientId = None \/ ~Subscribing(q)
        BY <1>1, <2>4, <3>1, <3>2 DEF Subscribing
      <4>2. Told(q)
        BY <2>4, <4>1
      <4> QED
        BY <1>1, <2>1, <2>2, <3>1, <3>2, <4>2, ToldSame
    <3>3. CASE q = p /\ clientId # None
      <4>1. inbox'[q] = Append(inbox[q], Note("connected", clientId)) /\ inbox[q] \in Seq(Msg)
        BY <1>3, <3>1, <3>3 DEF OnSubscribe, Post, TypeOK
      <4>2. Note("connected", clientId) \in Msg
        BY <3>3, NoteType DEF TypeOK
      <4>3. Note("connected", clientId).type # "event" /\ Fits(Note("connected", clientId), clientId')
        BY <2>1, <3>3 DEF Note, Fits
      <4> QED
        BY <3>1, <4>1, <4>2, <4>3, ToldNews
    <3> QED
      BY <3>2, <3>3
  <2>5. ASSUME NEW q \in joined, q \notin ports
        PROVE  /\ inbox'[q] = <<>>
               /\ 1 \in DOMAIN outbox'[q] /\ outbox'[q][1] = "connect"
    <3>1. q \in Page /\ q # p
      BY <1>1, <2>3, <2>5
    <3> QED
      BY <1>1, <2>2, <2>5, <3>1
  <2>6. \A q \in Page : page[q] = "unloaded" => q # p
    BY <1>1
  <2> QED
    BY <1>1, <2>1, <2>2, <2>4, <2>5, <2>6
<1>4. CASE OnUnsubscribe(p)
  <2>1. ports' = ports \ {p} /\ inbox' = inbox /\ Take(p, "unsubscribe")
    BY <1>4 DEF OnUnsubscribe
  <2>2. p \notin joined
    <3>1. 1 \in DOMAIN outbox[p] /\ outbox[p][1] = "unsubscribe"
      BY <2>1 DEF Take, TypeOK
    <3> QED
      BY <3>1 DEF InTurn
  <2>3. ports' # {} => clientId' = clientId
    BY <1>4 DEF OnUnsubscribe
  <2>4. ASSUME NEW q \in joined, q \in ports', clientId' = None \/ ~Subscribing(q)'
        PROVE  Told(q)'
    <3>1. q \in Page /\ q # p /\ clientId' = clientId
      BY <1>1, <2>2, <2>3, <2>4
    <3>2. clientId = None \/ ~Subscribing(q)
      BY <1>1, <2>4, <3>1 DEF Subscribing
    <3>3. Told(q)
      BY <2>1, <2>4, <3>2
    <3> QED
      BY <1>1, <2>1, <3>1, <3>3, ToldSame
  <2> QED
    BY <1>1, <2>1, <2>2, <2>4
<1> QED
  BY <1>2, <1>3, <1>4 DEF PortNext

(* What Post(ports, m) means to a page that has a port, and to one without. *)
LEMMA Posted ==
  ASSUME SInv, NEW m \in Msg, Post(ports, m), UNCHANGED <<page, joined, status, client, ports, outbox>>,
         \/ m.type # "event" /\ Fits(m, clientId')
         \/ m.type = "event" /\ clientId' = clientId
  PROVE  PagesTold'
<1> USE DEF SInv, RInv, Informed, FeedOK, PagesTold
<1>1. \A q \in Page : q \notin ports \/ q \notin joined => inbox'[q] = inbox[q]
  BY DEF Post
<1>2. joined \subseteq Page
  BY DEF TypeOK
<1>3. ASSUME NEW q \in joined, q \in ports, clientId' = None \/ ~Subscribing(q)'
      PROVE  Told(q)'
  <2>1. q \in Page /\ inbox[q] \in Seq(Msg) /\ inbox'[q] = Append(inbox[q], m)
    BY <1>2, <1>3 DEF Post, TypeOK
  <2>2. CASE m.type # "event" /\ Fits(m, clientId')
    BY <2>1, <2>2, ToldNews
  <2>3. CASE m.type = "event" /\ clientId' = clientId
    <3>1. Told(q)
      BY <1>3, <2>3 DEF Subscribing
    <3> QED
      BY <2>1, <2>3, <3>1, ToldEvent
  <2> QED
    BY <2>2, <2>3
<1> QED
  BY <1>1, <1>2, <1>3

LEMMA SourceInformed ==
  ASSUME SInv, NEW s \in Source,
         SourceMessage(s) \/ SourceError(s) \/ Accept(s) \/ BreakOff(s)
  PROVE  Informed'
<1> USE DEF SInv, RInv, Informed, FeedOK, PagesTold
<1>1. CASE SourceMessage(s)
  <2>1. /\ feed[s] \in Seq(Msg) /\ feed[s] # <<>>
        /\ feed' = [feed EXCEPT ![s] = Tail(feed[s])]
        /\ Post(ports, Head(feed[s]))
        /\ UNCHANGED <<page, joined, status, client, ports, outbox>>
    BY <1>1 DEF SourceMessage, TypeOK, pageVars
  <2>2. Head(feed[s]) = feed[s][1] /\ 1 \in DOMAIN feed[s] /\ Head(feed[s]) \in Msg
    BY <2>1
  <2>3. \/ Head(feed[s]).type = "event"
        \/ Head(feed[s]).type = "connected" /\ Head(feed[s]).from = s
    BY <2>2
  <2>4. \/ Head(feed[s]).type # "event" /\ Fits(Head(feed[s]), clientId')
        \/ Head(feed[s]).type = "event" /\ clientId' = clientId
    BY <1>1, <2>3, FanoutConstants DEF SourceMessage, Fits
  <2>5. \A r \in Source : \A i \in DOMAIN feed'[r] :
          feed'[r][i].type = "event" \/ (feed'[r][i].type = "connected" /\ feed'[r][i].from = r)
    <3>1. \A i \in DOMAIN Tail(feed[s]) : i + 1 \in DOMAIN feed[s] /\ Tail(feed[s])[i] = feed[s][i + 1]
      BY <2>1
    <3>2. feed'[s] = Tail(feed[s]) /\ \A r \in Source \ {s} : feed'[r] = feed[r]
      BY <2>1 DEF TypeOK
    <3>3. \A i \in DOMAIN feed'[s] :
            feed'[s][i].type = "event" \/ (feed'[s][i].type = "connected" /\ feed'[s][i].from = s)
      BY <3>1, <3>2
    <3>4. \A r \in Source \ {s} : \A i \in DOMAIN feed[r] :
            feed[r][i].type = "event" \/ (feed[r][i].type = "connected" /\ feed[r][i].from = r)
      OBVIOUS
    <3>5. ASSUME NEW r \in Source, r # s
          PROVE  \A i \in DOMAIN feed'[r] :
                   feed'[r][i].type = "event" \/ (feed'[r][i].type = "connected" /\ feed'[r][i].from = r)
      BY <3>2, <3>4, <3>5
    <3> QED
      BY <3>3, <3>5
  <2> QED
    BY <2>1, <2>2, <2>4, <2>5, Posted
<1>2. CASE SourceError(s)
  <2>1. /\ Post(ports, Note("reconnecting", None)) /\ clientId' = None
        /\ UNCHANGED <<page, joined, status, client, ports, outbox, feed>>
    BY <1>2 DEF SourceError, pageVars
  <2>2. /\ Note("reconnecting", None) \in Msg /\ Note("reconnecting", None).type # "event"
        /\ Fits(Note("reconnecting", None), clientId')
    BY <2>1, NoteType DEF Note, Fits
  <2> QED
    BY <2>1, <2>2, Posted
<1>3. CASE Accept(s)
  <2>1. /\ feed' = [feed EXCEPT ![s] = <<Note("connected", s)>>]
        /\ UNCHANGED <<page, joined, status, client, ports, outbox, inbox, clientId>>
    BY <1>3 DEF Accept, pageVars, portVars, workerVars
  <2>2. \A r \in Source : \A i \in DOMAIN feed'[r] :
          feed'[r][i].type = "event" \/ (feed'[r][i].type = "connected" /\ feed'[r][i].from = r)
    BY <2>1 DEF TypeOK, Note
  <2> QED
    BY <2>1, <2>2, SameInformed
<1>4. CASE BreakOff(s)
  BY <1>4, SameInformed DEF BreakOff, pageVars, portVars, workerVars
<1> QED
  BY <1>1, <1>2, <1>3, <1>4

LEMMA StepInformed == SInv /\ [Next]_vars => SInv'
<1> SUFFICES ASSUME SInv, [Next]_vars
             PROVE  SInv'
  OBVIOUS
<1> USE DEF SInv, RInv, Informed, FeedOK, PagesTold
<1>1. RInv'
  BY StepReconnect
<1>3. CASE \E p \in Page : PageNext(p) \/ PortNext(p)
  BY <1>1, <1>3, PageInformed, PortInformed
<1>4. CASE \E s \in Source : SourceMessage(s) \/ SourceError(s) \/ Accept(s) \/ BreakOff(s)
  BY <1>1, <1>4, SourceInformed
<1>5. CASE (\E k \in Timer : TimerFires(k)) \/ UNCHANGED vars
  BY <1>1, <1>5, SameInformed DEF TimerFires, vars, pageVars, portVars, workerVars, bffVars
<1>6. CASE Publish
  <2>1. UNCHANGED <<page, joined, status, client, ports, outbox, inbox, clientId>>
    BY <1>6 DEF Publish, pageVars, portVars, workerVars
  <2>2. ASSUME NEW r \in Source, NEW i \in DOMAIN feed'[r]
        PROVE  feed'[r][i].type = "event" \/ (feed'[r][i].type = "connected" /\ feed'[r][i].from = r)
    <3>1. feed[r] \in Seq(Msg)
      BY DEF TypeOK
    <3>2. CASE feed'[r] = feed[r]
      BY <3>2
    <3>3. CASE feed'[r] = Append(feed[r], Event(r, published'))
      <4>1. (i \in DOMAIN feed[r] /\ feed'[r][i] = feed[r][i]) \/ feed'[r][i] = Event(r, published')
        BY <3>1, <3>3
      <4> QED
        BY <4>1 DEF Event
    <3> QED
      BY <1>6, <3>2, <3>3 DEF Publish
  <2> QED
    BY <1>1, <2>1, <2>2, SameInformed
<1> QED
  BY <1>3, <1>4, <1>5, <1>6 DEF Next

LEMMA InformedAgrees == SInv => StatusAgrees
<1> SUFFICES ASSUME SInv, NEW p \in joined \cap ports, inbox[p] = <<>>, outbox[p] = <<>>
             PROVE  Shows(p, clientId)
  BY DEF StatusAgrees, Shows
<1>1. ~Subscribing(p)
  BY DEF Subscribing
<1>2. Told(p)
  BY <1>1 DEF SInv, Informed, PagesTold
<1> QED
  BY <1>2 DEF Told

(* Whatever order ports, subscriptions, broken streams and reconnects come *)
(* in, the broadcasts of events-sse.worker.ts and what it tells a port     *)
(* that subscribes late leave every page with the status of its stream.    *)
THEOREM StatusAgreesAlways == Spec => []StatusAgrees
<1>1. Init => SInv
  BY InitInformed
<1>2. SInv /\ [Next]_vars => SInv'
  BY StepInformed
<1>3. SInv => StatusAgrees
  BY InformedAgrees
<1> QED
  BY <1>1, <1>2, <1>3, PTL DEF Spec

-----------------------------------------------------------------------------
(***************************************************************************)
(* SeenInOrder of EventFanout for any number of pages, EventSources,       *)
(* timers and events.  The events a page has applied, those in its inbox   *)
(* and those on the stream are one line: it grows at the end of the        *)
(* stream, moves from the stream to the inbox and from there to the page,  *)
(* and may lose its tail when the stream is closed.                        *)
(***************************************************************************)

(* The events in the inbox ib and, as sn, with the page. *)
In(ib, s, n) == \E i \in DOMAIN ib : ib[i].type = "event" /\ ib[i].from = s /\ ib[i].n = n
Has(sn, ib, s, n) == In(ib, s, n) \/ \E i \in DOMAIN sn : sn[i][1] = s /\ sn[i][2] = n

Rising(ib) == \A i, j \in DOMAIN ib :
  i < j /\ ib[i].type = "event" /\ ib[j].type = "event" => ib[i].n < ib[j].n

Ordered(sn, ib) ==
  /\ Rising(ib)
  /\ \A i, j \in DOMAIN sn : i < j => sn[i][2] < sn[j][2]
  /\ \A i \in DOMAIN sn, j \in DOMAIN ib : ib[j].type = "event" => sn[i][2] < ib[j].n

(* What a stream carries, and what a page knows. *)
Carries(s, n) == In(feed[s], s, n)
Knows(p, s, n) == Has(seen[p], inbox[p], s, n)
Running(s) == conn[s] \in {"live", "dead"}
Hears(p) == p \in joined /\ p \in ports

(* A stream: only its own events, in order, none missing, up to the last.  *)
Stream(s) ==
  /\ \A i \in DOMAIN feed[s] : feed[s][i].type = "event" => feed[s][i].from = s
  /\ Rising(feed[s])
  /\ \A n \in Nat : Carries(s, n) => n <= published
  /\ \A a, b \in Nat : Carries(s, a) /\ Carries(s, b) => \A k \in a..b : Carries(s, k)
  /\ \A n \in Nat : conn[s] = "live" /\ Carries(s, n) => Carries(s, published)
  /\ conn[s] \in {"none", "pending"} => feed[s] = <<>>

(* The events of stream s with page p. *)
Line(p, s) ==
  /\ \A n \in Nat : Knows(p, s, n) => n <= published
  /\ \A a, b \in Nat : Knows(p, s, a) /\ Knows(p, s, b) => \A k \in a..b : Knows(p, s, k)
  /\ conn[s] \in {"none", "pending"} => \A n \in Nat : ~Knows(p, s, n)

(* And together, while the stream runs and the page hears it. *)
Joint(p, s) ==
  /\ \A t \in Source, n, m \in Nat : Knows(p, t, n) /\ Carries(s, m) => n < m
  /\ \A a, b \in Nat : Knows(p, s, a) /\ Carries(s, b) =>
       \A k \in a..b : Knows(p, s, k) \/ Carries(s, k)
  /\ \A n \in Nat : conn[s] = "live" /\ Knows(p, s, n) => Knows(p, s, published) \/ Carries(s, published)

Tidy(p) == Ordered(seen[p], inbox[p])
Fresh(p) == page[p] = "unloaded" \/ (p \in joined /\ p \notin ports) => seen[p] = <<>>
Held(s) == Running(s) \/ conn[s] = "pending" => s = source

OInv == /\ SInv
        /\ \A s \in Source : Held(s) /\ Stream(s)
        /\ \A p \in Page : Tidy(p) /\ Fresh(p)
        /\ \A p \in Page, s \in Source : Line(p, s) /\ (Hears(p) /\ Running(s) => Joint(p, s))

(* The definitions, in the next state. *)
LEMMA KnowsNext ==
  ASSUME NEW p \in Page, NEW s, NEW n
  PROVE  Knows(p, s, n)' <=> Has(seen'[p], inbox'[p], s, n)
  BY DEF Knows, Has, In

LEMMA TidyNext ==
  ASSUME NEW p \in Page
  PROVE  Tidy(p)' <=> Ordered(seen'[p], inbox'[p])
  BY DEF Tidy, Ordered, Rising

LEMMA CarriesNext ==
  ASSUME NEW s \in Source, NEW n
  PROVE  Carries(s, n)' <=> In(feed'[s], s, n)
  BY DEF Carries, In

-----------------------------------------------------------------------------
(* Sequences of messages.                                                  *)
LEMMA Appended ==
  ASSUME NEW ib \in Seq(Msg), NEW m \in Msg
  PROVE  /\ Append(ib, m) \in Seq(Msg)
         /\ DOMAIN ib = 1..Len(ib) /\ Len(ib) \in Nat
         /\ DOMAIN Append(ib, m) = 1..(Len(ib) + 1)
         /\ \A i \in DOMAIN ib : Append(ib, m)[i] = ib[i]
         /\ Append(ib, m)[Len(ib) + 1] = m
  OBVIOUS

LEMMA MsgParts ==
  ASSUME NEW m \in Msg
  PROVE  m.n \in Nat /\ (m.type = "event" => m.from \in Source)
  BY DEF Msg

LEMMA AppendedIn ==
  ASSUME NEW ib \in Seq(Msg), NEW m \in Msg, NEW s, NEW n
  PROVE  In(Append(ib, m), s, n) <=> In(ib, s, n) \/ (m.type = "event" /\ m.from = s /\ m.n = n)
<1>1. \A i : i \in DOMAIN Append(ib, m) <=> i \in DOMAIN ib \/ i = Len(ib) + 1
  BY Appended
<1> QED
  BY <1>1, Appended DEF In

LEMMA AppendedRising ==
  ASSUME NEW ib \in Seq(Msg), NEW m \in Msg, Rising(ib),
         m.type = "event" => \A s \in Source, n \in Nat : In(ib, s, n) => n < m.n
  PROVE  Rising(Append(ib, m))
<1> SUFFICES ASSUME NEW i \in DOMAIN Append(ib, m), NEW j \in DOMAIN Append(ib, m), i < j,
                    Append(ib, m)[i].type = "event", Append(ib, m)[j].type = "event"
             PROVE  Append(ib, m)[i].n < Append(ib, m)[j].n
  BY DEF Rising
<1>1. i \in DOMAIN ib /\ (j \in DOMAIN ib \/ j = Len(ib) + 1)
  BY Appended
<1>2. Append(ib, m)[i] = ib[i] /\ ib[i] \in Msg
  BY <1>1, Appended
<1>3. CASE j \in DOMAIN ib
  BY <1>1, <1>2, <1>3, Appended DEF Rising
<1>4. CASE j = Len(ib) + 1
  <2>1. In(ib, ib[i].from, ib[i].n) /\ ib[i].from \in Source /\ ib[i].n \in Nat
    BY <1>1, <1>2, MsgParts DEF In
  <2>2. Append(ib, m)[j] = m
    BY <1>4, Appended
  <2> QED
    BY <1>2, <2>1, <2>2
<1> QED
  BY <1>1, <1>3, <1>4

(* A message that joins the inbox: it is no event, or a later one than all *)
(* before it.                                                              *)
LEMMA AppendedLine ==
  ASSUME NEW sn \in Seq(Source \X Nat), NEW ib \in Seq(Msg), NEW m \in Msg, Ordered(sn, ib),
         m.type = "event" => \A s \in Source, n \in Nat : Has(sn, ib, s, n) => n < m.n
  PROVE  /\ Ordered(sn, Append(ib, m))
         /\ \A s, n : Has(sn, Append(ib, m), s, n) <=>
                        Has(sn, ib, s, n) \/ (m.type = "event" /\ m.from = s /\ m.n = n)
<1>1. Rising(Append(ib, m))
  BY AppendedRising DEF Ordered, Has
<1>2. ASSUME NEW i \in DOMAIN sn, NEW j \in DOMAIN Append(ib, m), Append(ib, m)[j].type = "event"
      PROVE  sn[i][2] < Append(ib, m)[j].n
  <2>1. CASE j \in DOMAIN ib
    BY <1>2, <2>1, Appended DEF Ordered
  <2>2. CASE j \notin DOMAIN ib
    <3>1. Append(ib, m)[j] = m
      BY <2>2, Appended
    <3>2. sn[i] \in Source \X Nat
      OBVIOUS
    <3>3. Has(sn, ib, sn[i][1], sn[i][2]) /\ sn[i][1] \in Source /\ sn[i][2] \in Nat
      BY <3>2 DEF Has
    <3> QED
      BY <1>2, <3>1, <3>3
  <2> QED
    BY <2>1, <2>2
<1>3. Ordered(sn, Append(ib, m))
  BY <1>1, <1>2 DEF Ordered
<1> QED
  BY <1>3, AppendedIn DEF Has

LEMMA Taken ==
  ASSUME NEW ib \in Seq(Msg), ib # <<>>
  PROVE  /\ Tail(ib) \in Seq(Msg) /\ Head(ib) = ib[1] /\ Head(ib) \in Msg /\ 1 \in DOMAIN ib
         /\ \A i \in DOMAIN Tail(ib) : i + 1 \in DOMAIN ib /\ Tail(ib)[i] = ib[i + 1] /\ i \in Nat \ {0}
         /\ \A i \in DOMAIN ib : i = 1 \/ (i - 1 \in DOMAIN Tail(ib) /\ Tail(ib)[i - 1] = ib[i] /\ i > 1)
<1>1. /\ Len(ib) \in Nat /\ Len(ib) # 0 /\ DOMAIN ib = 1..Len(ib)
      /\ Len(Tail(ib)) = Len(ib) - 1 /\ DOMAIN Tail(ib) = 1..(Len(ib) - 1)
      /\ \A i \in 1..(Len(ib) - 1) : Tail(ib)[i] = ib[i + 1]
  OBVIOUS
<1> QED
  BY <1>1

LEMMA TakenIn ==
  ASSUME NEW ib \in Seq(Msg), ib # <<>>, NEW s, NEW n
  PROVE  In(ib, s, n) <=> In(Tail(ib), s, n) \/ (Head(ib).type = "event" /\ Head(ib).from = s /\ Head(ib).n = n)
  BY Taken DEF In

LEMMA TakenRising ==
  ASSUME NEW ib \in Seq(Msg), ib # <<>>, Rising(ib)
  PROVE  /\ Rising(Tail(ib))
         /\ Head(ib).type = "event" => \A s, n : In(Tail(ib), s, n) => Head(ib).n < n
<1>1. Rising(Tail(ib))
  <2> SUFFICES ASSUME NEW i \in DOMAIN Tail(ib), NEW j \in DOMAIN Tail(ib), i < j,
                      Tail(ib)[i].type = "event", Tail(ib)[j].type = "event"
               PROVE  Tail(ib)[i].n < Tail(ib)[j].n
    BY DEF Rising
  <2>1. /\ i + 1 \in DOMAIN ib /\ Tail(ib)[i] = ib[i + 1] /\ i \in Nat
        /\ j + 1 \in DOMAIN ib /\ Tail(ib)[j] = ib[j + 1] /\ j \in Nat
    BY Taken
  <2> QED
    BY <2>1 DEF Rising
<1>2. ASSUME NEW s, NEW n, Head(ib).type = "event", In(Tail(ib), s, n)
      PROVE  Head(ib).n < n
  <2>1. PICK i \in DOMAIN Tail(ib) : Tail(ib)[i].type = "event" /\ Tail(ib)[i].n = n
    BY <1>2 DEF In
  <2>2. /\ i + 1 \in DOMAIN ib /\ Tail(ib)[i] = ib[i + 1] /\ 1 < i + 1
        /\ 1 \in DOMAIN ib /\ Head(ib) = ib[1]
    BY Taken
  <2> QED
    BY <1>2, <2>1, <2>2 DEF Rising
<1> QED
  BY <1>1, <1>2

(* The page takes the first message of its inbox.                          *)
LEMMA ReadLine ==
  ASSUME NEW sn \in Seq(Source \X Nat), NEW ib \in Seq(Msg), ib # <<>>, Ordered(sn, ib), NEW new,
         new = IF Head(ib).type = "event" THEN Append(sn, <<Head(ib).from, Head(ib).n>>) ELSE sn
  PROVE  /\ Ordered(new, Tail(ib))
         /\ \A s, n : Has(new, Tail(ib), s, n) <=> Has(sn, ib, s, n)
<1>1. CASE Head(ib).type # "event"
  <2>1. \A i \in DOMAIN sn, j \in DOMAIN Tail(ib) : Tail(ib)[j].type = "event" => sn[i][2] < Tail(ib)[j].n
    BY Taken DEF Ordered
  <2> QED
    BY <1>1, <2>1, TakenRising, TakenIn DEF Ordered, Has
<1>2. CASE Head(ib).type = "event"
  <2> DEFINE e == <<Head(ib).from, Head(ib).n>>
  <2>1. new = Append(sn, e) /\ e \in Source \X Nat
    BY <1>2, Taken, MsgParts
  <2>2. /\ DOMAIN sn = 1..Len(sn) /\ Len(sn) \in Nat
        /\ DOMAIN new = 1..(Len(sn) + 1)
        /\ \A i \in DOMAIN sn : new[i] = sn[i]
        /\ new[Len(sn) + 1] = e
    BY <2>1
  <2>3. e[1] = Head(ib).from /\ e[2] = Head(ib).n
    OBVIOUS
  <2> HIDE DEF e
  <2>4. \A i \in DOMAIN sn : sn[i][2] < e[2]
    BY <1>2, <2>3, Taken DEF Ordered
  <2>5. \A i, j \in DOMAIN new : i < j => new[i][2] < new[j][2]
    <3> SUFFICES ASSUME NEW i \in DOMAIN new, NEW j \in DOMAIN new, i < j
                 PROVE  new[i][2] < new[j][2]
      OBVIOUS
    <3>1. i \in DOMAIN sn /\ (j \in DOMAIN sn \/ j = Len(sn) + 1)
      BY <2>2
    <3> QED
      BY <2>2, <2>4, <3>1 DEF Ordered
  <2>6. ASSUME NEW i \in DOMAIN new, NEW j \in DOMAIN Tail(ib), Tail(ib)[j].type = "event"
        PROVE  new[i][2] < Tail(ib)[j].n
    <3>1. CASE i \in DOMAIN sn
      BY <2>2, <2>6, <3>1, Taken DEF Ordered
    <3>2. CASE i = Len(sn) + 1
      <4>1. In(Tail(ib), Tail(ib)[j].from, Tail(ib)[j].n)
        BY <2>6 DEF In
      <4> QED
        BY <1>2, <2>2, <2>3, <3>2, <4>1, TakenRising DEF Ordered
    <3> QED
      BY <2>2, <3>1, <3>2
  <2>7. Ordered(new, Tail(ib))
    BY <2>5, <2>6, TakenRising DEF Ordered
  <2>8. ASSUME NEW s, NEW n
        PROVE  Has(new, Tail(ib), s, n) <=> Has(sn, ib, s, n)
    <3>1. (\E i \in DOMAIN new : new[i][1] = s /\ new[i][2] = n) <=>
            (\E i \in DOMAIN sn : sn[i][1] = s /\ sn[i][2] = n) \/ (e[1] = s /\ e[2] = n)
      BY <2>2
    <3> QED
      BY <1>2, <2>3, <3>1, TakenIn DEF Has
  <2> QED
    BY <2>7, <2>8
<1> QED
  BY <1>1, <1>2

(* The inbox is emptied: what remains came before what is lost.            *)
LEMMA DroppedLine ==
  ASSUME NEW sn \in Seq(Source \X Nat), NEW ib \in Seq(Msg), Ordered(sn, ib)
  PROVE  /\ Ordered(sn, <<>>)
         /\ \A s, n : Has(sn, <<>>, s, n) => Has(sn, ib, s, n)
         /\ \A s, t, n, k : Has(sn, <<>>, s, n) /\ Has(sn, ib, t, k) /\ ~Has(sn, <<>>, t, k) => n < k
  BY DEF Ordered, Rising, Has, In

-----------------------------------------------------------------------------
(* What OInv says of pages and streams at the start, and what it takes for *)
(* it to hold in the next state.                                           *)
LEMMA InitOrder == Init => OInv
<1> SUFFICES ASSUME Init
             PROVE  OInv
  OBVIOUS
<1>1. \A p \in Page : \A s, n : ~Knows(p, s, n)
  BY DEF Init, Knows, Has, In
<1>2. \A s \in Source : feed[s] = <<>> /\ conn[s] = "none"
  BY DEF Init
<1>3. \A s \in Source : \A n : ~Carries(s, n)
  BY <1>2 DEF Carries, In
<1>4. \A s \in Source : Held(s) /\ Stream(s)
  BY <1>2, <1>3 DEF Held, Running, Stream, Rising
<1>5. \A p \in Page : Tidy(p) /\ Fresh(p)
  BY DEF Init, Tidy, Fresh, Ordered, Rising
<1>6. \A p \in Page, s \in Source : Line(p, s) /\ ~Running(s)
  BY <1>1, <1>2 DEF Line, Running
<1> QED
  BY <1>4, <1>5, <1>6, InitInformed DEF OInv

(* No event moves on a stream or is published: streams may be opened,      *)
(* break off or be closed, and a page that leaves may lose what it has not *)
(* read.                                                                   *)
Keeps(q) == \A s, n : Has(seen'[q], inbox'[q], s, n) <=> Knows(q, s, n)

Loses(q) == /\ \A s, n : Has(seen'[q], inbox'[q], s, n) => Knows(q, s, n)
            /\ \A s, t, n, k : Has(seen'[q], inbox'[q], s, n) /\ Knows(q, t, k)
                                 /\ ~Has(seen'[q], inbox'[q], t, k) => n < k

Turns(s) == \/ conn'[s] = conn[s]
            \/ conn'[s] = "closed"
            \/ conn[s] = "none" /\ conn'[s] = "pending"
            \/ conn[s] \in {"pending", "live"} /\ conn'[s] = "dead"

LEMMA QuietStep ==
  ASSUME OInv, SInv', UNCHANGED <<feed, published>>,
         \A s \in Source : Turns(s) /\ Held(s)',
         \A q \in Page : /\ Tidy(q)' /\ Fresh(q)'
                         /\ Keeps(q) \/ (Loses(q) /\ ~Hears(q)')
                         /\ Hears(q)' => Hears(q) \/ \A s, n : ~Has(seen'[q], inbox'[q], s, n)
  PROVE  OInv'
<1>1. published \in Nat
  BY FanoutConstants DEF OInv, SInv, RInv, TypeOK
<1>2. ASSUME NEW s \in Source
      PROVE  /\ conn'[s] = "live" => conn[s] = "live"
             /\ conn'[s] \in {"none", "pending"} => conn[s] \in {"none", "pending"}
             /\ Running(s)' => Running(s) \/ (conn[s] = "pending" /\ conn'[s] = "dead")
             /\ \A n : Carries(s, n)' <=> Carries(s, n)
  BY DEF Turns, Running, Carries, In
<1>3. ASSUME NEW s \in Source
      PROVE  Stream(s)'
  <2>1. Stream(s)
    BY DEF OInv
  <2> QED
    BY <1>2, <2>1 DEF Stream, Rising
<1>4. ASSUME NEW q \in Page, NEW s \in Source
      PROVE  Line(q, s)'
  <2>1. Line(q, s)
    BY DEF OInv
  <2>2. \A n : Knows(q, s, n)' => Knows(q, s, n)
    BY KnowsNext DEF Keeps, Loses
  <2>3. ASSUME NEW a \in Nat, NEW b \in Nat, Knows(q, s, a)', Knows(q, s, b)', NEW k \in a..b
        PROVE  Knows(q, s, k)'
    <3>1. Knows(q, s, k) /\ k \in Nat
      BY <2>1, <2>2, <2>3 DEF Line
    <3>2. ~(b < k)
      OBVIOUS
    <3> QED
      BY <2>3, <3>1, <3>2, KnowsNext DEF Keeps, Loses
  <2> QED
    BY <1>2, <2>1, <2>2, <2>3 DEF Line
<1>5. ASSUME NEW q \in Page, NEW s \in Source, Hears(q)', Running(s)'
      PROVE  Joint(q, s)'
  <2>1. CASE \A t, n : ~Knows(q, t, n)'
    BY <2>1 DEF Joint
  <2>2. CASE Hears(q) /\ Keeps(q) /\ Running(s)
    <3>1. Joint(q, s)
      BY <2>2 DEF OInv
    <3>2. \A t, n : Knows(q, t, n)' <=> Knows(q, t, n)
      BY <2>2, KnowsNext DEF Keeps
    <3> QED
      BY <1>2, <3>1, <3>2 DEF Joint
  <2>3. CASE conn[s] = "pending" /\ conn'[s] = "dead"
    <3>1. feed[s] = <<>>
      BY <2>3 DEF OInv, Stream
    <3>2. \A n : ~Carries(s, n)'
      BY <3>1 DEF Carries, In
    <3> QED
      BY <2>3, <3>2 DEF Joint
  <2>4. Keeps(q) /\ (Hears(q) \/ \A t, n : ~Knows(q, t, n)')
    BY <1>5, KnowsNext
  <2> QED
    BY <1>2, <1>5, <2>1, <2>2, <2>3, <2>4
<1> QED
  BY <1>3, <1>4, <1>5 DEF OInv

LEMMA SameKeeps ==
  ASSUME OInv, NEW q \in Page, seen'[q] = seen[q], inbox'[q] = inbox[q]
  PROVE  Keeps(q) /\ Tidy(q)'
  BY TidyNext DEF OInv, Keeps, Knows, Tidy

(* The message m, which is no event, joins the inbox. *)
LEMMA NoteKeeps ==
  ASSUME OInv, NEW q \in Page, NEW m \in Msg, m.type # "event",
         seen'[q] = seen[q], inbox'[q] = Append(inbox[q], m)
  PROVE  Keeps(q) /\ Tidy(q)'
<1>1. inbox[q] \in Seq(Msg) /\ seen[q] \in Seq(Source \X Nat) /\ Ordered(seen[q], inbox[q])
  BY DEF OInv, SInv, RInv, TypeOK, Tidy
<1>2. /\ Ordered(seen[q], Append(inbox[q], m))
      /\ \A s, n : Has(seen[q], Append(inbox[q], m), s, n) <=> Has(seen[q], inbox[q], s, n)
  BY <1>1, AppendedLine
<1> QED
  BY <1>2, TidyNext DEF Keeps, Knows

LEMMA PostKeeps ==
  ASSUME OInv, NEW P \in SUBSET Page, NEW m \in Msg, m.type # "event", Post(P, m), seen' = seen
  PROVE  \A q \in Page : Keeps(q) /\ Tidy(q)'
<1> SUFFICES ASSUME NEW q \in Page
             PROVE  Keeps(q) /\ Tidy(q)'
  OBVIOUS
<1>1. inbox'[q] = Append(inbox[q], m) \/ inbox'[q] = inbox[q]
  BY DEF Post
<1> QED
  BY <1>1, NoteKeeps, SameKeeps

(* connect() finds no stream open, and what closes one leaves none. *)
LEMMA ConnectTurns ==
  ASSUME OInv, Connect \/ CloseSource \/ UNCHANGED <<source, conn>>
  PROVE  \A s \in Source : Turns(s) /\ Held(s)'
  BY FanoutConstants DEF OInv, SInv, RInv, TypeOK, Held, Running, Turns, Connect, CloseSource

LEMMA FreshSame ==
  ASSUME OInv, UNCHANGED <<page, joined, ports, seen>>, NEW q \in Page
  PROVE  Fresh(q)' /\ (Hears(q)' => Hears(q))
  BY DEF OInv, Fresh, Hears

(* Page p leaves, and its inbox may be emptied. *)
LEMMA LeftLine ==
  ASSUME OInv, NEW p \in Page, ~Hears(p)', seen' = seen, inbox' \in {inbox, [inbox EXCEPT ![p] = <<>>]}
  PROVE  \A q \in Page : Tidy(q)' /\ (Keeps(q) \/ (Loses(q) /\ ~Hears(q)'))
<1>1. \A q \in Page \ {p} : inbox'[q] = inbox[q]
  BY DEF OInv, SInv, RInv, TypeOK
<1>2. inbox'[p] = inbox[p] \/ inbox'[p] = <<>>
  BY DEF OInv, SInv, RInv, TypeOK
<1>3. ASSUME inbox'[p] = <<>>
      PROVE  Tidy(p)' /\ Loses(p)
  <2>1. inbox[p] \in Seq(Msg) /\ seen[p] \in Seq(Source \X Nat) /\ Ordered(seen[p], inbox[p])
    BY DEF OInv, SInv, RInv, TypeOK, Tidy
  <2> QED
    BY <1>3, <2>1, DroppedLine, TidyNext DEF Loses, Knows
<1> QED
  BY <1>1, <1>2, <1>3, SameKeeps

LEMMA PageOrder ==
  ASSUME OInv, SInv', NEW p \in Page, PageNext(p)
  PROVE  OInv'
<1> USE DEF OInv, SInv, RInv
<1>1. CASE BootSignedIn(p) \/ BootSignedOut(p) \/ SubmitLogin(p)
  <2>1. UNCHANGED <<seen, inbox, ports, source, conn, feed, published>>
    BY <1>1 DEF BootSignedIn, BootSignedOut, SubmitLogin, portVars, workerVars, bffVars
  <2>2. /\ \A q \in Page : page'[q] = "unloaded" => page[q] = "unloaded"
        /\ joined' = joined \/ (joined' = joined \cup {p} /\ page[p] = "unloaded")
    BY <1>1 DEF BootSignedIn, BootSignedOut, SubmitLogin, ConnectEventStream, TypeOK
  <2>3. page[p] = "unloaded" => p \notin ports /\ seen[p] = <<>>
    BY DEF Informed, PagesTold, Fresh
  <2>4. \A q \in Page : Fresh(q)' /\ (Hears(q)' => Hears(q))
    BY <2>1, <2>2, <2>3 DEF Fresh, Hears
  <2> QED
    BY <2>1, <2>4, SameKeeps, ConnectTurns, QuietStep
<1>2. CASE ClearSession(p)
  <2>1. UNCHANGED <<seen, ports, source, conn, feed, published>> /\ page' = [page EXCEPT ![p] = "out"]
    BY <1>2 DEF ClearSession, workerVars, bffVars
  <2>2. joined' = joined \ {p} /\ inbox' \in {inbox, [inbox EXCEPT ![p] = <<>>]}
    BY <1>2 DEF ClearSession, portVars
  <2>3. \A q \in Page : Fresh(q)' /\ (Hears(q)' => Hears(q)) /\ ~Hears(p)'
    BY <2>1, <2>2 DEF Fresh, Hears, TypeOK
  <2>4. \A q \in Page : Tidy(q)' /\ (Keeps(q) \/ (Loses(q) /\ ~Hears(q)'))
    BY <2>1, <2>2, <2>3, LeftLine
  <2> QED
    BY <2>1, <2>3, <2>4, ConnectTurns, QuietStep
<1>3. CASE Close(p)
  <2>1. /\ page' = [page EXCEPT ![p] = "gone"] /\ joined' = joined \ {p} /\ seen' = seen
        /\ inbox' = [inbox EXCEPT ![p] = <<>>]
    BY <1>3 DEF Close
  <2>2. UNCHANGED <<feed, published>>
    BY <1>3 DEF Close, WorkerEnds, bffVars
  <2>3. \/ UNCHANGED <<ports, source, conn>>
        \/ /\ owners = {p} /\ ports' = {}
           /\ conn' = [s \in Source |-> IF conn[s] = "none" THEN "none" ELSE "closed"]
    BY <1>3 DEF Close, WorkerEnds, workerVars, bffVars
  <2>4. \A s \in Source : Turns(s) /\ Held(s)'
    BY <2>3, ConnectTurns DEF Turns, Held, Running
  <2>5. \A q \in Page : Fresh(q)' /\ (Hears(q)' => Hears(q)) /\ ~Hears(p)'
    BY <2>1, <2>3 DEF Fresh, Hears, TypeOK
  <2>6. \A q \in Page : Tidy(q)' /\ (Keeps(q) \/ (Loses(q) /\ ~Hears(q)'))
    BY <2>1, <2>5, LeftLine
  <2> QED
    BY <2>2, <2>4, <2>5, <2>6, QuietStep
<1>4. CASE HandleWorkerMessage(p)
  <2>1. /\ UNCHANGED <<page, joined, ports, source, conn, feed, published>>
        /\ p \in joined /\ inbox[p] # <<>>
        /\ inbox' = [inbox EXCEPT ![p] = Tail(inbox[p])]
    BY <1>4 DEF HandleWorkerMessage, workerVars, bffVars
  <2>2. seen' = [seen EXCEPT ![p] = IF Head(inbox[p]).type = "event"
                                    THEN Append(seen[p], <<Head(inbox[p]).from, Head(inbox[p]).n>>)
                                    ELSE seen[p]]
    BY <1>4 DEF HandleWorkerMessage, TypeOK
  <2>3. p \in ports /\ page[p] # "unloaded"
    BY <2>1 DEF Informed, PagesTold
  <2>4. \A q \in Page : Fresh(q)' /\ (Hears(q)' => Hears(q))
    BY <2>1, <2>2, <2>3 DEF Fresh, Hears, TypeOK
  <2>5. \A q \in Page : Tidy(q)' /\ Keeps(q)
    <3>1. \A q \in Page \ {p} : seen'[q] = seen[q] /\ inbox'[q] = inbox[q]
      BY <2>1, <2>2 DEF TypeOK
    <3>2. /\ inbox[p] \in Seq(Msg) /\ seen[p] \in Seq(Source \X Nat) /\ Ordered(seen[p], inbox[p])
          /\ inbox'[p] = Tail(inbox[p])
          /\ seen'[p] = IF Head(inbox[p]).type = "event"
                        THEN Append(seen[p], <<Head(inbox[p]).from, Head(inbox[p]).n>>)
                        ELSE seen[p]
      BY <2>1, <2>2 DEF TypeOK, Tidy
    <3>3. /\ Ordered(seen'[p], Tail(inbox[p]))
          /\ \A s, n : Has(seen'[p], Tail(inbox[p]), s, n) <=> Has(seen[p], inbox[p], s, n)
      <4> DEFINE new == seen'[p]
                 ib == inbox[p]
                 sn == seen[p]
      <4>1. /\ ib \in Seq(Msg) /\ ib # <<>> /\ sn \in Seq(Source \X Nat) /\ Ordered(sn, ib)
            /\ new = IF Head(ib).type = "event" THEN Append(sn, <<Head(ib).from, Head(ib).n>>) ELSE sn
        BY <2>1, <3>2
      <4> HIDE DEF new, ib, sn
      <4>2. Ordered(new, Tail(ib)) /\ \A s, n : Has(new, Tail(ib), s, n) <=> Has(sn, ib, s, n)
        BY <4>1, ReadLine
      <4> QED
        BY <4>2 DEF new, ib, sn
    <3>4. Tidy(p)' /\ Keeps(p)
      BY <3>2, <3>3, TidyNext DEF Keeps, Knows
    <3> QED
      BY <3>1, <3>4, SameKeeps
  <2> QED
    BY <2>1, <2>4, <2>5, ConnectTurns, QuietStep
<1> QED
  BY <1>1, <1>2, <1>3, <1>4 DEF PageNext

LEMMA PortOrder ==
  ASSUME OInv, SInv', NEW p \in Page, PortNext(p)
  PROVE  OInv'
<1> USE DEF OInv, SInv, RInv
<1>1. CASE OnConnect(p)
  <2>1. /\ UNCHANGED <<page, joined, seen, inbox, source, conn, feed, published>>
        /\ ports' = ports \cup {p}
    BY <1>1 DEF OnConnect, pageVars, bffVars
  <2>2. p \in joined /\ p \notin ports => inbox[p] = <<>> /\ seen[p] = <<>>
    BY DEF Informed, PagesTold, Fresh
  <2>3. p \in joined /\ p \notin ports => \A s, n : ~Has(seen'[p], inbox'[p], s, n)
    BY <2>1, <2>2 DEF Has, In
  <2>4. \A q \in Page : Fresh(q)' /\ (Hears(q)' => Hears(q) \/ \A s, n : ~Has(seen'[q], inbox'[q], s, n))
    BY <2>1, <2>3 DEF Fresh, Hears
  <2> QED
    BY <2>1, <2>4, SameKeeps, ConnectTurns, QuietStep
<1>2. CASE OnSubscribe(p)
  <2>1. /\ UNCHANGED <<page, joined, seen, ports, feed, published>>
        /\ Connect \/ UNCHANGED <<source, conn>>
    BY <1>2 DEF OnSubscribe, pageVars
  <2>2. \A q \in Page : Keeps(q) /\ Tidy(q)'
    <3>1. CASE clientId = None
      BY <1>2, <2>1, <3>1, SameKeeps DEF OnSubscribe
    <3>2. CASE clientId # None
      <4>1. Note("connected", clientId) \in Msg /\ Note("connected", clientId).type # "event"
        BY <3>2, NoteType DEF TypeOK, Note
      <4>2. Post({p}, Note("connected", clientId))
        BY <1>2, <3>2 DEF OnSubscribe
      <4> QED
        BY <2>1, <4>1, <4>2, PostKeeps
    <3> QED
      BY <3>1, <3>2
  <2> QED
    BY <2>1, <2>2, FreshSame, ConnectTurns, QuietStep
<1>3. CASE OnUnsubscribe(p)
  <2>1. /\ UNCHANGED <<page, joined, seen, inbox, feed, published>>
        /\ ports' = ports \ {p}
        /\ CloseSource \/ UNCHANGED <<source, conn>>
        /\ Take(p, "unsubscribe")
    BY <1>3 DEF OnUnsubscribe, Disconnect, pageVars
  <2>2. 1 \in DOMAIN outbox[p] /\ outbox[p][1] = "unsubscribe"
    BY <2>1 DEF Take, TypeOK
  <2>3. p \notin joined
    BY <2>2 DEF InTurn
  <2>4. \A q \in Page : Fresh(q)' /\ (Hears(q)' => Hears(q))
    BY <2>1, <2>3 DEF Fresh, Hears
  <2> QED
    BY <2>1, <2>4, SameKeeps, ConnectTurns, QuietStep
<1> QED
  BY <1>1, <1>2, <1>3 DEF PortNext

(* onerror and the timer, a stream that breaks off, and no step at all. *)
LEMMA BreakOrder ==
  ASSUME OInv, SInv',
         \/ \E s \in Source : SourceError(s) \/ BreakOff(s)
         \/ \E k \in Timer : TimerFires(k)
         \/ UNCHANGED vars
  PROVE  OInv'
<1>1. /\ UNCHANGED <<page, joined, seen, ports, feed, published>>
      /\ UNCHANGED inbox \/ Post(ports, Note("reconnecting", None))
  BY DEF SourceError, BreakOff, TimerFires, vars, pageVars, portVars, workerVars, bffVars
<1>2. \A q \in Page : Keeps(q) /\ Tidy(q)'
  <2>1. Note("reconnecting", None) \in Msg /\ Note("reconnecting", None).type # "event"
    BY NoteType DEF Note
  <2>2. ports \in SUBSET Page
    BY DEF OInv, SInv, RInv, TypeOK
  <2> QED
    BY <1>1, <2>1, <2>2, PostKeeps, SameKeeps
<1>3. \A s \in Source : Turns(s) /\ Held(s)'
  <2>1. CASE \E s \in Source : BreakOff(s)
    BY <2>1 DEF BreakOff, workerVars, OInv, SInv, RInv, TypeOK, Turns, Held, Running
  <2>2. CASE ~ \E s \in Source : BreakOff(s)
    <3>1. Connect \/ CloseSource \/ UNCHANGED <<source, conn>>
      BY <2>2 DEF SourceError, TimerFires, vars, workerVars, bffVars
    <3> QED
      BY <3>1, ConnectTurns
  <2> QED
    BY <2>1, <2>2
<1> QED
  BY <1>1, <1>2, <1>3, FreshSame, QuietStep

(* The BFF takes a connection: no page knows any event of it yet. *)
LEMMA AcceptOrder ==
  ASSUME OInv, SInv', NEW s \in Source, Accept(s)
  PROVE  OInv'
<1>1. /\ UNCHANGED <<page, joined, seen, inbox, ports, source, published>>
      /\ conn[s] = "pending" /\ conn' = [conn EXCEPT ![s] = "live"]
      /\ feed' = [feed EXCEPT ![s] = <<Note("connected", s)>>]
  BY DEF Accept, pageVars, portVars, workerVars
<1>2. conn \in [Source -> {"none", "pending", "live", "dead", "closed"}] /\ feed \in [Source -> Seq(Msg)]
  BY DEF OInv, SInv, RInv, TypeOK
<1>3. /\ conn'[s] = "live" /\ \A t \in Source \ {s} : conn'[t] = conn[t] /\ feed'[t] = feed[t]
      /\ feed'[s] = <<Note("connected", s)>>
  BY <1>1, <1>2
<1>4. \A q \in Page : Keeps(q) /\ Tidy(q)' /\ Fresh(q)' /\ (Hears(q)' => Hears(q))
  BY <1>1, SameKeeps, FreshSame
<1>5. \A q \in Page : \A t, n : Knows(q, t, n)' <=> Knows(q, t, n)
  BY <1>4, KnowsNext DEF Keeps
<1>6. \A n : ~Carries(s, n)'
  BY <1>3 DEF Carries, In, Note
<1>7. \A t \in Source : Held(t)'
  BY <1>1, <1>3 DEF OInv, Held, Running
<1>8. ASSUME NEW t \in Source
      PROVE  Stream(t)'
  <2>1. CASE t = s
    <3>1. feed'[s][1].type # "event" /\ DOMAIN feed'[s] = {1}
      BY <1>3 DEF Note
    <3> QED
      BY <1>3, <1>6, <2>1, <3>1 DEF Stream, Rising
  <2>2. CASE t # s
    <3>1. \A n : Carries(t, n)' <=> Carries(t, n)
      BY <1>3, <2>2 DEF Carries, In
    <3>2. Stream(t)
      BY DEF OInv
    <3> QED
      BY <1>1, <1>3, <2>2, <3>1, <3>2 DEF Stream, Rising
  <2> QED
    BY <2>1, <2>2
<1>9. ASSUME NEW q \in Page, NEW t \in Source
      PROVE  Line(q, t)' /\ (Hears(q)' /\ Running(t)' => Joint(q, t)')
  <2>1. Line(q, t) /\ (Hears(q) /\ Running(t) => Joint(q, t))
    BY DEF OInv
  <2>2. Line(q, t)'
    BY <1>1, <1>3, <1>5, <2>1 DEF Line
  <2>3. CASE t = s
    <3>1. \A n \in Nat : ~Knows(q, s, n)'
      BY <1>1, <1>5, <2>1, <2>3 DEF Line
    <3> QED
      BY <1>6, <2>2, <2>3, <3>1 DEF Joint
  <2>4. CASE t # s
    <3>1. ~Running(t)'
      BY <1>1, <1>3, <1>7, <2>4 DEF Held, Running
    <3> QED
      BY <2>2, <3>1
  <2> QED
    BY <2>3, <2>4
<1> QED
  BY <1>4, <1>7, <1>8, <1>9 DEF OInv

(* An event is published: on the stream that is live it follows all that   *)
(* its pages know or are about to.                                         *)
LEMMA PublishOrder ==
  ASSUME OInv, SInv', Publish
  PROVE  OInv'
<1>1. /\ UNCHANGED <<page, joined, seen, inbox, ports, source, conn>>
      /\ published' = published + 1 /\ published \in Nat
  BY FanoutConstants DEF Publish, pageVars, portVars, workerVars, OInv, SInv, RInv, TypeOK
<1>2. \A q \in Page : Keeps(q) /\ Tidy(q)' /\ Fresh(q)' /\ (Hears(q)' => Hears(q))
  BY <1>1, SameKeeps, FreshSame
<1>3. \A q \in Page : \A t, n : Knows(q, t, n)' <=> Knows(q, t, n)
  BY <1>2, KnowsNext DEF Keeps
<1>4. \A s \in Source : Held(s)'
  BY <1>1 DEF OInv, Held, Running
<1>5. ASSUME NEW s \in Source, conn[s] # "live"
      PROVE  feed'[s] = feed[s] /\ \A n : Carries(s, n)' <=> Carries(s, n)
  BY <1>5 DEF Publish, Carries, In
<1>6. ASSUME NEW s \in Source, conn[s] = "live"
      PROVE  /\ Stream(s)'
             /\ \A n : Carries(s, n)' <=> Carries(s, n) \/ n = published + 1
  <2> DEFINE ib == feed[s]
             m == Event(s, published + 1)
  <2>1. ib \in Seq(Msg) /\ m \in Msg /\ m.type = "event" /\ m.from = s /\ m.n = published + 1
    <3>1. published + 1 \in Nat /\ ib \in Seq(Msg)
      BY <1>1 DEF OInv, SInv, RInv, TypeOK
    <3>2. m \in Msg
      BY <3>1, NoteType
    <3> QED
      BY <3>1, <3>2 DEF Event
  <2>2. feed'[s] = Append(ib, m)
    BY <1>1, <1>6 DEF Publish
  <2>3. Stream(s)
    BY DEF OInv
  <2>4. \A n : Carries(s, n) <=> In(ib, s, n)
    BY DEF Carries
  <2>5. Rising(ib) /\ (\A i \in DOMAIN ib : ib[i].type = "event" => ib[i].from = s)
    BY <2>3 DEF Stream
  <2>6. \A t \in Source, n \in Nat : In(ib, t, n) => n < published + 1
    <3>1. \A t, n : In(ib, t, n) => t = s
      BY <2>5 DEF In
    <3> QED
      BY <1>1, <2>3, <2>4, <3>1 DEF Stream
  <2> HIDE DEF ib, m
  <2>7. \A n : In(Append(ib, m), s, n) <=> In(ib, s, n) \/ n = published + 1
    BY <2>1, AppendedIn
  <2>8. Rising(Append(ib, m))
    BY <2>1, <2>5, <2>6, AppendedRising
  <2>9. \A i \in DOMAIN Append(ib, m) : Append(ib, m)[i].type = "event" => Append(ib, m)[i].from = s
    <3>1. \A i \in DOMAIN Append(ib, m) : i \in DOMAIN ib \/ i = Len(ib) + 1
      BY <2>1, Appended
    <3> QED
      BY <2>1, <2>5, <3>1, Appended
  <2>10. \A n : Carries(s, n)' <=> Carries(s, n) \/ n = published + 1
    BY <2>2, <2>4, <2>7, CarriesNext
  <2>11. \A a, b \in Nat : Carries(s, a)' /\ Carries(s, b)' => \A k \in a..b : Carries(s, k)'
    <3>1. ASSUME NEW a \in Nat, NEW b \in Nat, Carries(s, a)', Carries(s, b)', NEW k \in a..b
          PROVE  Carries(s, k)'
      <4>1. Carries(s, a) => a <= published /\ Carries(s, published)
        BY <1>6, <2>3 DEF Stream
      <4>2. CASE k = published + 1
        BY <2>10, <4>2
      <4>3. CASE Carries(s, a) /\ k # published + 1
        <5>1. b <= published + 1
          BY <1>1, <2>3, <2>10, <3>1 DEF Stream
        <5>2. k \in a..published
          BY <1>1, <4>3, <5>1
        <5> QED
          BY <1>1, <2>3, <2>10, <4>1, <4>3, <5>2 DEF Stream
      <4>4. CASE a = published + 1 /\ k # published + 1
        <5>1. b <= published + 1
          BY <1>1, <2>3, <2>10, <3>1 DEF Stream
        <5> QED
          BY <1>1, <4>4, <5>1
      <4> QED
        BY <2>10, <3>1, <4>2, <4>3, <4>4
    <3> QED
      BY <3>1
  <2>12. \A n \in Nat : Carries(s, n)' => n <= published + 1
    BY <1>1, <2>3, <2>10 DEF Stream
  <2>13. Rising(feed[s])' /\ \A i \in DOMAIN feed'[s] : feed'[s][i].type = "event" => feed'[s][i].from = s
    BY <2>2, <2>8, <2>9 DEF Rising
  <2>14. Stream(s)'
    BY <1>1, <1>6, <2>10, <2>11, <2>12, <2>13 DEF Stream
  <2> QED
    BY <2>10, <2>14
<1>7. ASSUME NEW s \in Source
      PROVE  Stream(s)'
  <2>1. CASE conn[s] # "live"
    BY <1>1, <1>5, <2>1 DEF OInv, Stream, Rising
  <2> QED
    BY <1>6, <2>1
<1>8. ASSUME NEW q \in Page, NEW s \in Source
      PROVE  Line(q, s)'
  <2>1. Line(q, s)
    BY DEF OInv
  <2> QED
    BY <1>1, <1>3, <2>1 DEF Line
<1>9. ASSUME NEW q \in Page, NEW s \in Source, Hears(q)', Running(s)'
      PROVE  Joint(q, s)'
  <2>1. Joint(q, s) /\ Line(q, s)
    BY <1>1, <1>2, <1>9 DEF OInv, Running
  <2>2. CASE conn[s] # "live"
    BY <1>1, <1>3, <1>5, <2>1, <2>2 DEF Joint
  <2>3. CASE conn[s] = "live"
    <3>1. \A n : Carries(s, n)' <=> Carries(s, n) \/ n = published + 1
      BY <1>6, <2>3
    <3>2. \A t \in Source, n, m \in Nat : Knows(q, t, n)' /\ Carries(s, m)' => n < m
      <4>1. \A t \in Source, n \in Nat : Knows(q, t, n) => n < published + 1
        BY <1>1 DEF OInv, Line
      <4> QED
        BY <1>3, <2>1, <3>1, <4>1 DEF Joint
    <3>3. ASSUME NEW a \in Nat, NEW b \in Nat, Knows(q, s, a), Carries(s, b)', NEW k \in a..b
          PROVE  Knows(q, s, k) \/ Carries(s, k)'
      <4>1. CASE Carries(s, b)
        BY <2>1, <3>1, <3>3, <4>1 DEF Joint
      <4>2. CASE b = published + 1
        <5>1. CASE k = b
          BY <3>3, <5>1
        <5>2. CASE k # b
          <6>1. k \in a..published
            BY <1>1, <4>2, <5>2
          <6>2. Knows(q, s, published) \/ Carries(s, published)
            BY <2>1, <2>3, <3>3 DEF Joint
          <6> QED
            BY <1>1, <2>1, <3>1, <3>3, <6>1, <6>2 DEF Joint, Line
        <5> QED
          BY <5>1, <5>2
      <4> QED
        BY <3>1, <3>3, <4>1, <4>2
    <3>4. \A n : n = published + 1 => Carries(s, n)'
      BY <3>1
    <3> QED
      BY <1>1, <1>3, <3>2, <3>3, <3>4 DEF Joint
  <2> QED
    BY <2>2, <2>3
<1> QED
  BY <1>2, <1>4, <1>7, <1>8, <1>9 DEF OInv

(* A message of stream s goes to the pages that hear it. *)
LEMMA MessageOrder ==
  ASSUME OInv, SInv', NEW s \in Source, SourceMessage(s)
  PROVE  OInv'
<1> DEFINE ib == feed[s]
           m == Head(ib)
<1>1. /\ UNCHANGED <<page, joined, seen, ports, source, conn, published>>
      /\ Running(s) /\ ib # <<>> /\ feed' = [feed EXCEPT ![s] = Tail(ib)]
      /\ Post(ports, m)
  BY DEF SourceMessage, pageVars, Running
<1>2. /\ ib \in Seq(Msg) /\ feed \in [Source -> Seq(Msg)] /\ published \in Nat
      /\ \A q \in Page : inbox[q] \in Seq(Msg) /\ seen[q] \in Seq(Source \X Nat)
  BY FanoutConstants DEF OInv, SInv, RInv, TypeOK
<1>3. /\ feed'[s] = Tail(ib)
      /\ \A t \in Source \ {s} : feed'[t] = feed[t]
      /\ \A q \in Page : inbox'[q] = IF Hears(q) THEN Append(inbox[q], m) ELSE inbox[q]
  BY <1>1, <1>2 DEF Post, Hears
<1>4. Stream(s) /\ Rising(ib) /\ \A n : Carries(s, n) <=> In(ib, s, n)
  BY DEF OInv, Stream, Carries
<1>5. /\ m \in Msg /\ m.n \in Nat
      /\ m.type = "event" => m.from = s
  BY <1>1, <1>2, <1>4, Taken, MsgParts DEF Stream
<1> HIDE DEF ib, m
<1>6. /\ \A n : Carries(s, n)' <=> In(Tail(ib), s, n)
      /\ \A n : Carries(s, n) <=> Carries(s, n)' \/ (m.type = "event" /\ n = m.n)
      /\ m.type = "event" => \A n : Carries(s, n)' => m.n < n
  <2>1. \A n : Carries(s, n)' <=> In(Tail(ib), s, n)
    BY <1>3, CarriesNext
  <2>2. \A n : In(ib, s, n) <=> In(Tail(ib), s, n) \/ (m.type = "event" /\ n = m.n)
    BY <1>1, <1>2, <1>5, TakenIn DEF m
  <2>3. m.type = "event" => \A n : In(Tail(ib), s, n) => m.n < n
    BY <1>1, <1>2, <1>4, TakenRising DEF m
  <2> QED
    BY <1>4, <2>1, <2>2, <2>3
<1>7. m.type = "event" => Carries(s, m.n) /\ m.n <= published
  BY <1>4, <1>5, <1>6 DEF Stream
<1>8. ASSUME NEW q \in Page, Hears(q)
      PROVE  /\ Joint(q, s) /\ Tidy(q)'
             /\ \A t, n : Knows(q, t, n)' <=>
                            Knows(q, t, n) \/ (m.type = "event" /\ t = s /\ n = m.n)
  <2> DEFINE sn == seen[q]
             xb == inbox[q]
  <2>1. Joint(q, s) /\ Ordered(sn, xb) /\ xb \in Seq(Msg) /\ sn \in Seq(Source \X Nat)
    BY <1>1, <1>2, <1>8 DEF OInv, Tidy
  <2>2. \A t, n : Knows(q, t, n) <=> Has(sn, xb, t, n)
    BY DEF Knows
  <2>3. seen'[q] = sn /\ inbox'[q] = Append(xb, m)
    BY <1>1, <1>3, <1>8
  <2> HIDE DEF sn, xb
  <2>4. m.type = "event" => \A t \in Source, n \in Nat : Has(sn, xb, t, n) => n < m.n
    BY <1>5, <1>7, <2>1, <2>2 DEF Joint
  <2>5. /\ Ordered(sn, Append(xb, m))
        /\ \A t, n : Has(sn, Append(xb, m), t, n) <=>
                       Has(sn, xb, t, n) \/ (m.type = "event" /\ m.from = t /\ m.n = n)
    BY <1>5, <2>1, <2>4, AppendedLine
  <2>6. Tidy(q)'
    BY <2>3, <2>5, TidyNext
  <2>7. \A t, n : Knows(q, t, n)' <=> Has(sn, Append(xb, m), t, n)
    BY <2>3, KnowsNext
  <2> QED
    BY <1>5, <2>1, <2>2, <2>5, <2>6, <2>7
<1>9. ASSUME NEW q \in Page, ~Hears(q)
      PROVE  Tidy(q)' /\ \A t, n : Knows(q, t, n)' <=> Knows(q, t, n)
  BY <1>1, <1>3, <1>9, SameKeeps, KnowsNext DEF Keeps
<1>10. \A q \in Page : Tidy(q)' /\ Fresh(q)' /\ (Hears(q)' <=> Hears(q))
  <2>1. \A q \in Page : Hears(q)' <=> Hears(q)
    BY <1>1 DEF Hears
  <2> QED
    BY <1>1, <1>8, <1>9, <2>1, FreshSame
<1>11. \A t \in Source : Held(t)' /\ (Running(t) => t = s)
  BY <1>1 DEF OInv, Held, Running
<1>12. ASSUME NEW t \in Source
       PROVE  Stream(t)'
  <2>1. CASE t = s
    <3>1. \A i \in DOMAIN Tail(ib) : Tail(ib)[i].type = "event" => Tail(ib)[i].from = s
      BY <1>1, <1>2, <1>4, Taken DEF Stream, ib
    <3>2. Rising(Tail(ib))
      BY <1>1, <1>2, <1>4, TakenRising
    <3>3. \A n \in Nat : Carries(s, n)' => n <= published
      BY <1>4, <1>6 DEF Stream
    <3>4. \A a, b \in Nat : Carries(s, a)' /\ Carries(s, b)' => \A k \in a..b : Carries(s, k)'
      BY <1>4, <1>5, <1>6 DEF Stream
    <3>5. \A n \in Nat : conn[s] = "live" /\ Carries(s, n)' => \A k : k = published => Carries(s, k)'
      BY <1>2, <1>4, <1>5, <1>6 DEF Stream
    <3>6. conn[s] \notin {"none", "pending"}
      BY <1>1 DEF Running
    <3> QED
      BY <1>1, <1>3, <2>1, <3>1, <3>2, <3>3, <3>4, <3>5, <3>6 DEF Stream, Rising
  <2>2. CASE t # s
    <3>1. \A n : Carries(t, n)' <=> Carries(t, n)
      BY <1>3, <2>2 DEF Carries, In
    <3>2. Stream(t)
      BY DEF OInv
    <3> QED
      BY <1>1, <1>3, <2>2, <3>1, <3>2 DEF Stream, Rising
  <2> QED
    BY <2>1, <2>2
<1>13. ASSUME NEW q \in Page, NEW t \in Source
       PROVE  Line(q, t)'
  <2>1. Line(q, t)
    BY DEF OInv
  <2>2. CASE ~Hears(q) \/ m.type # "event" \/ t # s
    <3>1. \A n : Knows(q, t, n)' <=> Knows(q, t, n)
      BY <1>8, <1>9, <2>2
    <3> QED
      BY <1>1, <2>1, <3>1 DEF Line
  <2>3. CASE Hears(q) /\ m.type = "event" /\ t = s
    <3>1. \A n : Knows(q, s, n)' <=> Knows(q, s, n) \/ n = m.n
      BY <1>8, <2>3
    <3>2. \A n \in Nat : Knows(q, s, n) => n < m.n
      BY <1>5, <1>7, <1>8, <2>3 DEF Joint
    <3>3. ASSUME NEW a \in Nat, NEW b \in Nat, Knows(q, s, a)', Knows(q, s, b)', NEW k \in a..b
          PROVE  Knows(q, s, k)'
      <4>1. CASE Knows(q, s, a) /\ Knows(q, s, b)
        BY <2>1, <2>3, <3>1, <3>3, <4>1 DEF Line
      <4>2. CASE Knows(q, s, a) /\ b = m.n
        <5>1. Knows(q, s, k) \/ Carries(s, k)
          BY <1>7, <1>8, <2>3, <3>3, <4>2 DEF Joint
        <5>2. Carries(s, k) => k = m.n
          BY <1>5, <1>6, <2>3, <3>3, <4>2
        <5> QED
          BY <3>1, <5>1, <5>2
      <4>3. CASE a = m.n
        <5>1. k = m.n
          BY <1>5, <3>1, <3>2, <3>3, <4>3
        <5> QED
          BY <3>1, <5>1
      <4> QED
        BY <3>1, <3>3, <4>1, <4>2, <4>3
    <3>4. \A n \in Nat : Knows(q, s, n)' => n <= published
      BY <1>7, <2>1, <2>3, <3>1 DEF Line
    <3>5. conn[s] \notin {"none", "pending"}
      BY <1>1 DEF Running
    <3> QED
      BY <1>1, <2>3, <3>3, <3>4, <3>5 DEF Line
  <2> QED
    BY <2>2, <2>3
<1>14. ASSUME NEW q \in Page, Hears(q)
       PROVE  Joint(q, s)'
  <2>1. Joint(q, s)
    BY <1>8, <1>14
  <2>2. \A t, n : Knows(q, t, n)' <=> Knows(q, t, n) \/ (m.type = "event" /\ t = s /\ n = m.n)
    BY <1>8, <1>14
  <2>3. \A n : Knows(q, s, n)' \/ Carries(s, n)' <=> Knows(q, s, n) \/ Carries(s, n)
    BY <1>6, <2>2
  <2>4. \A t \in Source, n, k \in Nat : Knows(q, t, n)' /\ Carries(s, k)' => n < k
    BY <1>6, <2>1, <2>2 DEF Joint
  <2>5. ASSUME NEW a \in Nat, NEW b \in Nat, Knows(q, s, a)', Carries(s, b)', NEW k \in a..b
        PROVE  Knows(q, s, k)' \/ Carries(s, k)'
    <3>1. Carries(s, b)
      BY <1>6, <2>5
    <3>2. Knows(q, s, a) \/ (m.type = "event" /\ a = m.n)
      BY <2>2, <2>5
    <3>3. CASE Knows(q, s, a)
      BY <2>1, <2>3, <2>5, <3>1, <3>3 DEF Joint
    <3>4. CASE m.type = "event" /\ a = m.n
      BY <1>4, <1>7, <2>3, <2>5, <3>1, <3>4 DEF Stream
    <3> QED
      BY <3>2, <3>3, <3>4
  <2>6. ASSUME NEW n \in Nat, conn[s] = "live", Knows(q, s, n)'
        PROVE  \A k : k = published => Knows(q, s, k)' \/ Carries(s, k)'
    <3>1. Knows(q, s, n) \/ (m.type = "event" /\ n = m.n)
      BY <2>2, <2>6
    <3>2. Knows(q, s, published) \/ Carries(s, published)
      BY <1>4, <1>5, <1>7, <2>1, <2>6, <3>1 DEF Joint, Stream
    <3> QED
      BY <2>3, <3>2
  <2> QED
    BY <1>1, <2>4, <2>5, <2>6 DEF Joint
<1>15. \A q \in Page, t \in Source : Hears(q)' /\ Running(t)' => Joint(q, t)'
  BY <1>1, <1>10, <1>11, <1>14 DEF Running
<1> QED
  BY <1>10, <1>11, <1>12, <1>13, <1>15 DEF OInv

-----------------------------------------------------------------------------
LEMMA StepOrder == OInv /\ [Next]_vars => OInv'
<1> SUFFICES ASSUME OInv, [Next]_vars
             PROVE  OInv'
  OBVIOUS
<1>1. SInv'
  BY StepInformed DEF OInv
<1>2. CASE \E p \in Page : PageNext(p) \/ PortNext(p)
  BY <1>1, <1>2, PageOrder, PortOrder
<1>3. CASE (\E k \in Timer : TimerFires(k)) \/ UNCHANGED vars
  BY <1>1, <1>3, BreakOrder
<1>4. CASE \E s \in Source : SourceMessage(s) \/ SourceError(s) \/ Accept(s) \/ BreakOff(s)
  BY <1>1, <1>4, MessageOrder, BreakOrder, AcceptOrder
<1>5. CASE Publish
  BY <1>1, <1>5, PublishOrder
<1> QED
  BY <1>2, <1>3, <1>4, <1>5 DEF Next

(* Two events that a page applied one after the other: what the line has   *)
(* between them the page would have applied between them.                  *)
LEMMA OrderSeen == OInv => SeenInOrder
<1> SUFFICES ASSUME OInv, NEW p \in Page, NEW i \in 1..(Len(seen[p]) - 1)
             PROVE  /\ seen[p][i + 1][2] > seen[p][i][2]
                    /\ seen[p][i][1] = seen[p][i + 1][1] => seen[p][i + 1][2] = seen[p][i][2] + 1
  BY DEF SeenInOrder
<1> DEFINE sn == seen[p]
           e == sn[i]
           f == sn[i + 1]
<1>1. /\ sn \in Seq(Source \X Nat) /\ Len(sn) \in Nat /\ DOMAIN sn = 1..Len(sn)
      /\ i \in Nat /\ i \in DOMAIN sn /\ i + 1 \in DOMAIN sn
  <2>1. sn \in Seq(Source \X Nat)
    BY DEF OInv, SInv, RInv, TypeOK
  <2>2. i \in 1..(Len(sn) - 1)
    OBVIOUS
  <2> HIDE DEF sn
  <2>3. Len(sn) \in Nat /\ DOMAIN sn = 1..Len(sn)
    BY <2>1
  <2> QED
    BY <2>1, <2>2, <2>3
<1>2. /\ Ordered(sn, inbox[p])
      /\ \A s \in Source : Line(p, s)
      /\ \A s, n : Knows(p, s, n) <=> Has(sn, inbox[p], s, n)
  BY DEF OInv, Tidy, Knows
<1> HIDE DEF sn
<1>3. e[1] \in Source /\ e[2] \in Nat /\ f[2] \in Nat
  <2>1. e \in Source \X Nat /\ f \in Source \X Nat
    BY <1>1
  <2> QED
    BY <2>1
<1>4. /\ e[2] < f[2]
      /\ \A j \in DOMAIN sn : /\ j < i => sn[j][2] < e[2]
                              /\ j > i + 1 => f[2] < sn[j][2]
                              /\ j = i => sn[j][2] = e[2]
                              /\ j = i + 1 => sn[j][2] = f[2]
  <2>1. \A a, b \in DOMAIN sn : a < b => sn[a][2] < sn[b][2]
    BY <1>2 DEF Ordered
  <2>2. i < i + 1
    BY <1>1
  <2> QED
    BY <1>1, <2>1, <2>2
<1>5. ASSUME e[1] = f[1], f[2] # e[2] + 1
      PROVE  FALSE
  <2>1. Knows(p, e[1], e[2]) /\ Knows(p, e[1], f[2])
    BY <1>1, <1>2, <1>5 DEF Has
  <2>2. Knows(p, e[1], e[2] + 1)
    <3>1. e[2] + 1 \in e[2]..f[2]
      BY <1>3, <1>4
    <3> QED
      BY <1>2, <1>3, <2>1, <3>1 DEF Line
  <2>3. e[2] + 1 < f[2]
    BY <1>3, <1>4, <1>5
  <2>4. CASE \E j \in DOMAIN sn : sn[j][2] = e[2] + 1
    <3>1. PICK j \in DOMAIN sn : sn[j][2] = e[2] + 1
      BY <2>4
    <3>2. CASE j < i \/ j = i
      <4>1. e[2] + 1 <= e[2]
        BY <1>3, <1>4, <3>1, <3>2
      <4> QED
        BY <1>3, <4>1
    <3>3. CASE j > i + 1 \/ j = i + 1
      <4>1. f[2] <= e[2] + 1
        BY <1>3, <1>4, <3>1, <3>3
      <4> QED
        BY <1>3, <2>3, <4>1
    <3>4. j \in Nat /\ i \in Nat
      BY <1>1
    <3>5. j < i \/ j = i \/ j > i + 1 \/ j = i + 1
      BY <3>4
    <3> QED
      BY <3>2, <3>3, <3>5
  <2>5. CASE In(inbox[p], e[1], e[2] + 1)
    <3>1. f[2] < e[2] + 1
      BY <1>1, <1>2, <2>5 DEF Ordered, In
    <3> QED
      BY <1>3, <2>3, <3>1
  <2> QED
    BY <1>2, <2>2, <2>4, <2>5 DEF Has
<1> QED
  BY <1>3, <1>4, <1>5 DEF sn

(* However streams break off and are opened again, and however far events- *)
(* sse.worker.ts is behind its streams and a page behind its port, a page  *)
(* applies events in the order they were published, none twice, and none   *)
(* is missing between two of the same connection.                          *)
THEOREM SeenInOrderAlways == Spec => []SeenInOrder
<1>1. Init => OInv
  BY InitOrder
<1>2. OInv /\ [Next]_vars => OInv'
  BY StepOrder
<1>3. OInv => SeenInOrder
  BY OrderSeen
<1> QED
  BY <1>1, <1>2, <1>3, PTL DEF Spec
=============================================================================
