---------------------------- MODULE EventChannel ----------------------------
(***************************************************************************)
(* The way of a snapshot from the polling worker to a page: Redis, whose   *)
(* pub/sub keeps nothing for whoever is not subscribed, the EventsService  *)
(* of the BFF (apps/api/src/modules/events/events.service.ts), the stream  *)
(* of the browser, which the SessionGuard of events.controller.ts admits,  *)
(* and the live data of a page (apps/web/src/app/event-stream.ts).  What   *)
(* happens on the stream is the subject of EventFanout.                    *)
(***************************************************************************)
EXTENDS Naturals

CONSTANTS Node,         \* the nodes of the cluster
          None,         \* null: no node, no ticket
          Schedules,    \* which nodes may be online at which version
          MaxChanges,   \* bound: versions of the cluster's state
          MaxFaults     \* bound: failures of any kind


VARIABLES world,        \* the version the cluster is in
          online,       \* the nodes that are online, by version
          faults,       \* how much has failed so far
          redis,        \* "up", "down"
          bff,          \* EventsService: "off", "subscribed", "cut" (ioredis is
                        \* reconnecting), "deaf" (the start failed)
          stream,       \* the stream of the browser: "open", "closed"
          signed,       \* the BFF has the session that the cookie names
          live          \* the version on show of each topic, 0 for none

clusterVars == <<world, online>>
browserVars == <<stream, signed>>
channelVars == <<clusterVars, faults, redis, bff, browserVars, live>>

Kinds   == {"guests", "storage", "tasks"}
NodeList == <<None, "nodes">>
Topic   == {NodeList} \cup (Node \X Kinds)
Version == 1..MaxChanges

ASSUME ChannelConstants == /\ None \notin Node
                           /\ MaxChanges \in Nat \ {0}
                           /\ MaxFaults \in Nat
                           /\ Schedules \subseteq [Version -> SUBSET Node]

ChannelOK == /\ world \in Version
             /\ online \in Schedules
             /\ faults \in 0..MaxFaults
             /\ redis \in {"up", "down"}
             /\ bff \in {"off", "subscribed", "cut", "deaf"}
             /\ stream \in {"open", "closed"}
             /\ signed \in BOOLEAN
             /\ live \in [Topic -> 0..MaxChanges]

NothingLive == [topic \in Topic |-> 0]

(* A browser is signed in and has its stream, before the polling worker    *)
(* starts; the BFF found Redis when it started, or did not.                *)
ChannelInit == /\ world = 1
               /\ online \in Schedules
               /\ faults = 0
               /\ redis = "up"
               /\ bff \in {"subscribed", "deaf"}
               /\ stream = "open" /\ signed = TRUE
               /\ live = NothingLive

(* A bound on what goes wrong. *)
Fault == faults < MaxFaults /\ faults' = faults + 1

(* redis.publish, the subscriber's "message", the stream and applyEvent:   *)
(* nothing is kept for a browser that has no stream at the time.           *)
Deliver(topic, v) ==
  live' = IF bff = "subscribed" /\ stream = "open" THEN [live EXCEPT ![topic] = v] ELSE live

(* The promise that publish() returns is settled.  When the connection is  *)
(* lost before Redis has answered, ioredis sends the command again.        *)
Published(topic, v) == /\ redis = "up"
                       /\ Deliver(topic, v)
                       /\ UNCHANGED <<clusterVars, faults, redis, bff, browserVars>>

Cut == IF bff = "subscribed" THEN "cut" ELSE bff

PublishedUnanswered(topic, v) == /\ redis = "up"
                                 /\ Fault
                                 /\ Deliver(topic, v)
                                 /\ redis' = "down"
                                 /\ bff' = Cut
                                 /\ UNCHANGED <<clusterVars, browserVars>>

PublishRejected == redis = "down" /\ UNCHANGED channelVars

-----------------------------------------------------------------------------
(* Nodes, guests, storage or tasks change at Proxmox. *)
Change == /\ world < MaxChanges
          /\ world' = world + 1
          /\ UNCHANGED <<online, faults, redis, bff, browserVars, live>>

RedisFails == /\ redis = "up"
              /\ Fault
              /\ redis' = "down"
              /\ bff' = Cut
              /\ UNCHANGED <<clusterVars, browserVars, live>>

RedisReturns == /\ redis = "down"
                /\ redis' = "up"
                /\ UNCHANGED <<clusterVars, faults, bff, browserVars, live>>

(* onModuleInit: when the first connection fails, subscribe and the        *)
(* listener of "message" are skipped for good.                             *)
Start == /\ bff = "off"
         /\ bff' = IF redis = "up" THEN "subscribed" ELSE "deaf"
         /\ UNCHANGED <<clusterVars, faults, redis, browserVars, live>>

(* ioredis has reconnected and subscribed to the same channels again. *)
Resubscribe == /\ bff = "cut"
               /\ redis = "up"
               /\ bff' = "subscribed"
               /\ UNCHANGED <<clusterVars, faults, redis, browserVars, live>>

(* The sessions of AuthService are in its memory. *)
Restart == /\ bff # "off"
           /\ Fault
           /\ bff' = "off"
           /\ stream' = "closed"
           /\ signed' = FALSE
           /\ UNCHANGED <<clusterVars, redis, live>>

(* The network breaks the stream, or the page is loaded again; the session *)
(* may have come to its end in the meantime.                               *)
StreamBreaks == /\ stream = "open"
                /\ Fault
                /\ stream' = "closed"
                /\ signed' \in {signed, FALSE}
                /\ live' \in {live, NothingLive}
                /\ UNCHANGED <<clusterVars, redis, bff>>

(* The SharedWorker tries every five seconds (EventFanout); SessionGuard   *)
(* answers 401 as long as the cookie names no session.                     *)
Reconnect == /\ stream = "closed"
             /\ bff # "off"
             /\ signed
             /\ stream' = "open"
             /\ UNCHANGED <<clusterVars, faults, redis, bff, signed, live>>

(* Someone signs in, in this page or in another one of the browser. *)
SignIn == /\ ~signed
          /\ bff # "off"
          /\ signed' = TRUE
          /\ UNCHANGED <<clusterVars, faults, redis, bff, stream, live>>

ChannelStep == \/ Change \/ RedisFails \/ RedisReturns \/ Start \/ Resubscribe \/ Restart
               \/ StreamBreaks \/ Reconnect \/ SignIn

ChannelFairness == /\ WF_channelVars(RedisReturns)
                   /\ WF_channelVars(Start)
                   /\ WF_channelVars(Resubscribe)
                   /\ WF_channelVars(Reconnect)
=============================================================================
