----------------------------- MODULE EventFanout -----------------------------
(***************************************************************************)
(* The browser end of the realtime stream: the events SharedWorker with    *)
(* its one EventSource (apps/web/src/workers/events-sse.worker.ts), the    *)
(* pages that subscribe to it (app/event-stream.ts, and the calls of it in *)
(* boot, login and logout), and the BFF's end of each EventSource as far   *)
(* as the worker can tell: it takes the connection or refuses it, sends    *)
(* "connected" and then every event published, and may break off.          *)
(* Published events are numbered; heartbeats change no data and are left   *)
(* out.                                                                    *)
(***************************************************************************)
EXTENDS Naturals, Sequences, FiniteSets

CONSTANTS Page,         \* pages loaded into tabs; each has one port
          Source,       \* EventSource objects; their number bounds reconnects
          Timer,        \* setTimeout handles
          None,         \* null, or the empty client id
          MaxEvents,    \* bound: events published
          Closer        \* the pages that may be closed while they are subscribed

ASSUME FanoutConstants == /\ None \notin Source \cup Timer
                          /\ Cardinality(Timer) + 1 >= Cardinality(Source)
                          /\ MaxEvents \in Nat
                          /\ Closer \subseteq Page

VARIABLES page,         \* "unloaded", "out" (no session), "in" (signed in), "gone"
          joined,       \* event-stream.ts's "worker" of the page is not null
          owners,       \* loaded pages that ever made a SharedWorker object
          status,       \* sseStatus
          client,       \* sseClientId: the connection it names
          seen,         \* history: the events applied, as <<source, number>>
          inbox,        \* worker to page
          outbox,       \* page to worker; "connect" is the port itself
          ports,        \* the worker's ports
          source,       \* eventSource
          clientId,     \* connectedClientId
          handle,       \* reconnectTimer
          armed,        \* timers that will fire
          conn,         \* each EventSource: none yet, pending, live, dead at the
                        \* BFF's end, or closed by the worker
          feed,         \* what is under way on it
          published     \* events published so far

pageVars   == <<page, joined, owners, status, client, seen>>
portVars   == <<inbox, outbox>>
workerVars == <<ports, source, clientId, handle, armed>>
bffVars    == <<conn, feed, published>>
vars       == <<pageVars, portVars, workerVars, bffVars>>

Msg == [type : {"connected", "event"}, from : Source, n : Nat]
         \cup [type : {"reconnecting"}, from : {None}, n : {0}]
Note(type, s) == [type |-> type, from |-> s, n |-> 0]
Event(s, n)   == [type |-> "event", from |-> s, n |-> n]

TypeOK ==
  /\ page \in [Page -> {"unloaded", "out", "in", "gone"}]
  /\ joined \subseteq owners /\ owners \subseteq Page
  /\ status \in [Page -> {"connecting", "connected", "reconnecting"}]
  /\ client \in [Page -> Source \cup {None}]
  /\ seen \in [Page -> Seq(Source \X Nat)]
  /\ inbox \in [Page -> Seq(Msg)]
  /\ outbox \in [Page -> Seq({"connect", "subscribe", "unsubscribe"})]
  /\ ports \subseteq Page
  /\ source \in Source \cup {None}
  /\ clientId \in Source \cup {None}
  /\ handle \in Timer \cup {None}
  /\ armed \subseteq Timer
  /\ conn \in [Source -> {"none", "pending", "live", "dead", "closed"}]
  /\ feed \in [Source -> Seq(Msg)]
  /\ published \in 0..MaxEvents

Init ==
  /\ page = [p \in Page |-> "unloaded"]
  /\ joined = {}
  /\ owners = {}
  /\ status = [p \in Page |-> "connecting"]
  /\ client = [p \in Page |-> None]
  /\ seen = [p \in Page |-> <<>>]
  /\ inbox = [p \in Page |-> <<>>]
  /\ outbox = [p \in Page |-> <<>>]
  /\ ports = {}
  /\ source = None
  /\ clientId = None
  /\ handle = None
  /\ armed = {}
  /\ conn = [s \in Source |-> "none"]
  /\ feed = [s \in Source |-> <<>>]
  /\ published = 0

-----------------------------------------------------------------------------
(* Pages. *)

(* connectEventStream *)
ConnectEventStream(p) ==
  IF p \in joined THEN UNCHANGED <<joined, owners, outbox>>
  ELSE /\ joined' = joined \cup {p}
       /\ owners' = owners \cup {p}
       /\ outbox' = [outbox EXCEPT ![p] = @ \o <<"connect", "subscribe">>]

(* _boot: the cookie still names a session, or the login view comes up. *)
BootSignedIn(p) == /\ page[p] = "unloaded"
                   /\ page' = [page EXCEPT ![p] = "in"]
                   /\ ConnectEventStream(p)
                   /\ UNCHANGED <<status, client, seen, inbox, workerVars, bffVars>>

BootSignedOut(p) == /\ page[p] = "unloaded"
                    /\ page' = [page EXCEPT ![p] = "out"]
                    /\ UNCHANGED <<joined, owners, status, client, seen, portVars, workerVars, bffVars>>

(* The login form sets the session and goes to the page that was asked for. *)
SubmitLogin(p) == /\ page[p] = "out"
                  /\ page' = [page EXCEPT ![p] = "in"]
                  /\ UNCHANGED <<joined, owners, status, client, seen, portVars, workerVars, bffVars>>

(* Logging out: clearSession, and in it disconnectEventStream. *)
ClearSession(p) ==
  /\ page[p] = "in"
  /\ page' = [page EXCEPT ![p] = "out"]
  /\ IF p \notin joined THEN UNCHANGED <<joined, status, client, portVars>>
     ELSE /\ outbox' = [outbox EXCEPT ![p] = Append(@, "unsubscribe")]
          /\ inbox' = [inbox EXCEPT ![p] = <<>>]
          /\ joined' = joined \ {p}
          /\ status' = [status EXCEPT ![p] = "connecting"]
          /\ client' = [client EXCEPT ![p] = None]
  /\ UNCHANGED <<owners, seen, workerVars, bffVars>>

(* The tab is closed or reloaded: nothing is posted.  The worker, with all *)
(* it holds, ends with the last page that owns it; the next page starts it *)
(* afresh.                                                                 *)
WorkerEnds == /\ ports' = {}
              /\ outbox' = [p \in Page |-> <<>>]
              /\ source' = None
              /\ clientId' = None
              /\ handle' = None
              /\ armed' = {}
              /\ conn' = [s \in Source |-> IF conn[s] = "none" THEN "none" ELSE "closed"]
              /\ UNCHANGED <<feed, published>>

Close(p) == /\ page[p] \in {"in", "out"}
            /\ page' = [page EXCEPT ![p] = "gone"]
            /\ joined' = joined \ {p}
            /\ owners' = owners \ {p}
            /\ inbox' = [inbox EXCEPT ![p] = <<>>]
            /\ IF owners = {p} THEN WorkerEnds
                              ELSE UNCHANGED <<outbox, workerVars, bffVars>>
            /\ UNCHANGED <<status, client, seen>>

(* handleWorkerMessage and applyEvent *)
HandleWorkerMessage(p) ==
  /\ p \in joined
  /\ inbox[p] # <<>>
  /\ inbox' = [inbox EXCEPT ![p] = Tail(@)]
  /\ LET m == Head(inbox[p]) IN
       \/ /\ m.type = "connected"
          /\ status' = [status EXCEPT ![p] = "connected"]
          /\ client' = [client EXCEPT ![p] = m.from]
          /\ UNCHANGED seen
       \/ /\ m.type = "reconnecting"
          /\ status' = [status EXCEPT ![p] = "reconnecting"]
          /\ UNCHANGED <<client, seen>>
       \/ /\ m.type = "event"
          /\ seen' = [seen EXCEPT ![p] = Append(@, <<m.from, m.n>>)]
          /\ UNCHANGED <<status, client>>
  /\ UNCHANGED <<page, joined, owners, outbox, workerVars, bffVars>>

-----------------------------------------------------------------------------
(* The SharedWorker. *)

(* postMessage to the ports of P; a closed port swallows it. *)
Post(P, m) ==
  inbox' = [p \in Page |-> IF p \in P \cap joined THEN Append(inbox[p], m) ELSE inbox[p]]

(* A bound: an EventSource is left for another attempt. *)
Spare == \E s \in Source : conn[s] = "none"

(* connect(), and a mutant of it without its guard. *)
ConnectUnguarded ==
  \E s \in Source : /\ conn[s] = "none"
                    /\ source' = s
                    /\ conn' = [conn EXCEPT ![s] = "pending"]

Connect ==
  \/ /\ source # None
     /\ UNCHANGED <<source, conn>>
  \/ /\ source = None
     /\ \E s \in Source : /\ conn[s] = "none"
                          /\ source' = s
                          /\ conn' = [conn EXCEPT ![s] = "pending"]

(* eventSource.close() and eventSource = null *)
CloseSource ==
  /\ source' = None
  /\ conn' = [s \in Source |-> IF s = source THEN "closed" ELSE conn[s]]

(* disconnect(): only the timer the handle names is cleared.  A mutant of  *)
(* it forgets to close the EventSource.                                    *)
DisconnectKeepsStream ==
  /\ armed' = armed \ {handle}
  /\ handle' = None
  /\ clientId' = None
  /\ source' = None
  /\ UNCHANGED conn

Disconnect ==
  /\ armed' = armed \ {handle}
  /\ handle' = None
  /\ clientId' = None
  /\ CloseSource

Take(p, m) == /\ outbox[p] # <<>>
              /\ Head(outbox[p]) = m
              /\ outbox' = [outbox EXCEPT ![p] = Tail(@)]

OnConnect(p) == /\ Take(p, "connect")
                /\ ports' = ports \cup {p}
                /\ UNCHANGED <<pageVars, inbox, source, clientId, handle, armed, bffVars>>

(* Mutants: a port that joins late is told nothing, or always something. *)
OnSubscribeSilent(p) ==
  /\ Take(p, "subscribe")
  /\ IF source = None THEN Connect ELSE UNCHANGED <<source, conn>>
  /\ UNCHANGED <<pageVars, inbox, ports, clientId, handle, armed, feed, published>>

OnSubscribeAlwaysTells(p) ==
  /\ Take(p, "subscribe")
  /\ IF source = None THEN Connect ELSE UNCHANGED <<source, conn>>
  /\ Post({p}, Note("connected", clientId))
  /\ UNCHANGED <<pageVars, ports, clientId, handle, armed, feed, published>>

OnSubscribe(p) ==
  /\ Take(p, "subscribe")
  /\ IF source = None THEN Connect ELSE UNCHANGED <<source, conn>>
  /\ IF clientId = None THEN UNCHANGED inbox
                        ELSE Post({p}, Note("connected", clientId))
  /\ UNCHANGED <<pageVars, ports, clientId, handle, armed, feed, published>>

(* removePort *)
OnUnsubscribe(p) == /\ Take(p, "unsubscribe")
                    /\ ports' = ports \ {p}
                    /\ IF ports' # {} THEN UNCHANGED <<source, clientId, handle, armed, conn>>
                       ELSE Disconnect
                    /\ UNCHANGED <<pageVars, inbox, feed, published>>

(* The listeners of an EventSource that has not been closed. *)
SourceMessage(s) ==
  /\ conn[s] \in {"live", "dead"}
  /\ feed[s] # <<>>
  /\ feed' = [feed EXCEPT ![s] = Tail(@)]
  /\ clientId' = IF Head(feed[s]).type = "connected" THEN s ELSE clientId
  /\ Post(ports, Head(feed[s]))
  /\ UNCHANGED <<pageVars, outbox, ports, source, handle, armed, conn, published>>

(* onerror: refused or broken off.  The next attempt is five seconds away. *)
(* Mutants: no attempt follows; the client id outlives its connection.     *)
SourceErrorGivesUp(s) ==
  /\ conn[s] = "dead"
  /\ Post(ports, Note("reconnecting", None))
  /\ CloseSource
  /\ clientId' = None
  /\ UNCHANGED <<pageVars, outbox, ports, handle, armed, feed, published>>

SourceErrorKeepsId(s) ==
  /\ conn[s] = "dead"
  /\ Spare
  /\ Post(ports, Note("reconnecting", None))
  /\ CloseSource
  /\ \E k \in Timer \ armed : handle' = k /\ armed' = armed \cup {k}
  /\ UNCHANGED <<pageVars, outbox, ports, clientId, feed, published>>

SourceError(s) ==
  /\ conn[s] = "dead"
  /\ Spare
  /\ Post(ports, Note("reconnecting", None))
  /\ CloseSource
  /\ clientId' = None
  /\ \E k \in Timer \ armed : handle' = k /\ armed' = armed \cup {k}
  /\ UNCHANGED <<pageVars, outbox, ports, feed, published>>

TimerFires(k) ==
  /\ k \in armed
  /\ armed' = armed \ {k}
  /\ Connect
  /\ UNCHANGED <<pageVars, portVars, ports, clientId, handle, feed, published>>

-----------------------------------------------------------------------------
(* The BFF's end. *)
Accept(s) == /\ conn[s] = "pending"
             /\ conn' = [conn EXCEPT ![s] = "live"]
             /\ feed' = [feed EXCEPT ![s] = <<Note("connected", s)>>]
             /\ UNCHANGED <<pageVars, portVars, workerVars, published>>

BreakOff(s) == /\ conn[s] \in {"pending", "live"}
               /\ conn' = [conn EXCEPT ![s] = "dead"]
               /\ UNCHANGED <<pageVars, portVars, workerVars, feed, published>>

Publish == /\ published < MaxEvents
           /\ published' = published + 1
           /\ feed' = [s \in Source |-> IF conn[s] = "live"
                                        THEN Append(feed[s], Event(s, published'))
                                        ELSE feed[s]]
           /\ UNCHANGED <<pageVars, portVars, workerVars, conn>>

PageNext(p) == \/ BootSignedIn(p) \/ BootSignedOut(p) \/ SubmitLogin(p) \/ ClearSession(p)
               \/ p \in Closer /\ Close(p)
               \/ HandleWorkerMessage(p)

PortNext(p) == OnConnect(p) \/ OnSubscribe(p) \/ OnUnsubscribe(p)

Next == \/ \E p \in Page : PageNext(p) \/ PortNext(p)
        \/ \E k \in Timer : TimerFires(k)
        \/ \E s \in Source : SourceMessage(s) \/ SourceError(s) \/ Accept(s) \/ BreakOff(s)
        \/ Publish

Spec == Init /\ [][Next]_vars

(* Message ports deliver, timers fire, an EventSource hands over what came *)
(* and reports that it broke, and the BFF answers a request.               *)
Fairness == /\ \A p \in Page : WF_vars(PortNext(p)) /\ WF_vars(HandleWorkerMessage(p))
            /\ \A k \in Timer : WF_vars(TimerFires(k))
            /\ \A s \in Source : /\ WF_vars(SourceMessage(s)) /\ WF_vars(SourceError(s))
                                 /\ WF_vars(conn[s] = "pending" /\ (Accept(s) \/ BreakOff(s)))

FairSpec == Spec /\ Fairness

-----------------------------------------------------------------------------
(* However many pages subscribe, reconnect or leave, the BFF never holds   *)
(* more than one open stream of this browser.                              *)
OneStream == Cardinality({s \in Source : conn[s] \in {"pending", "live"}}) <= 1

(* A page applies events in the order they were published, none twice, and *)
(* within one connection none is missing.                                  *)
SeenInOrder ==
  \A p \in Page : \A i \in 1..(Len(seen[p]) - 1) :
    LET e == seen[p][i]
        f == seen[p][i + 1]
    IN  IF e[1] = f[1] THEN f[2] = e[2] + 1 ELSE f[2] > e[2]

(* Once nothing is under way to or from a subscribed page, its indicator   *)
(* agrees with the worker: "connected" under the worker's own client id,   *)
(* and not "connected" while the worker has no stream.                     *)
StatusAgrees ==
  \A p \in joined \cap ports : inbox[p] = <<>> /\ outbox[p] = <<>> =>
    IF clientId # None THEN status[p] = "connected" /\ client[p] = clientId
                       ELSE status[p] # "connected"

(* While pages are subscribed and there is no EventSource, an attempt to   *)
(* open one is ahead.                                                      *)
ReconnectIsAhead ==
  source = None /\ ports # {} =>
    armed # {} \/ \E p \in ports : "subscribe" \in {outbox[p][i] : i \in DOMAIN outbox[p]}

(* A page that subscribes, or is told that it is reconnecting, is told of  *)
(* a live stream in the end, unless the stream keeps failing (until the    *)
(* EventSources of the bound are used up).                                 *)
Recovers ==
  \A p \in Page : (p \in joined /\ status[p] # "connected")
                     ~> (p \notin joined \/ status[p] = "connected" \/ ~Spare)

(* No EventSource without a page that subscribes to it.                    *)
NoIdleStream == source # None => ports # {}
=============================================================================
