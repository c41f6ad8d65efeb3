------------------------------- MODULE Poller -------------------------------
(***************************************************************************)
(* The polling worker (apps/worker/src/poller.ts, index.ts): polls are     *)
(* started by setInterval whether or not the one before has ended, share   *)
(* one Proxmox ticket, and publish what they fetched on the EventChannel.  *)
(* A request is answered with a version the cluster had between the moment *)
(* it was sent and the moment its answer is handled; Promise.allSettled    *)
(* hands over the answers of one node together.                            *)
(***************************************************************************)
EXTENDS EventChannel, Sequences

CONSTANTS Poll,         \* polls under way at a time (a bound)
          Ticket,       \* Proxmox tickets; names are used again
          Broken        \* the topics this worker's account may not read

ASSUME PollerConstants == /\ None \notin Ticket
                          /\ Broken \subseteq Node \X Kinds

VARIABLES worker,       \* "down", "first" (awaits the first poll), "ticking"
          session,      \* Poller.session
          aged,         \* its expiresAt has passed
          lost,         \* the tickets Proxmox does not accept any more
          at,           \* where a poll is
          ticket,       \* the ticket it uses
          since,        \* when it sent the request it waits for
          list,         \* the node list it has to publish
          asking,       \* the nodes whose three requests are under way
          todo          \* what it has to publish for each node

ticketVars == <<session, aged, lost>>
pollVars   == <<at, ticket, since, list, asking, todo>>
vars       == <<channelVars, worker, ticketVars, pollVars>>

Item == Kinds \X Version

TypeOK == /\ ChannelOK
          /\ worker \in {"down", "first", "ticking"}
          /\ session \in Ticket \cup {None}
          /\ aged \in BOOLEAN
          /\ lost \subseteq Ticket
          /\ at \in [Poll -> {"idle", "login", "nodes", "announce", "each"}]
          /\ ticket \in [Poll -> Ticket \cup {None}]
          /\ since \in [Poll -> 0..world]
          /\ list \in [Poll -> 0..world]
          /\ asking \in [Poll -> SUBSET Node]
          /\ todo \in [Poll -> [Node -> Seq(Item)]]
          /\ \A i \in Poll : at[i] \in {"nodes", "announce", "each"} => ticket[i] \in Ticket

Nothing == [n \in Node |-> <<>>]

Init == /\ ChannelInit
        /\ worker = "down"
        /\ session = None
        /\ aged = FALSE /\ lost = {}
        /\ at = [i \in Poll |-> "idle"]
        /\ ticket = [i \in Poll |-> None]
        /\ since = [i \in Poll |-> 0]
        /\ list = [i \in Poll |-> 0]
        /\ asking = [i \in Poll |-> {}]
        /\ todo = [i \in Poll |-> Nothing]

-----------------------------------------------------------------------------
(* poll(): with the ticket at hand, or a new one.  A mutant looks at the   *)
(* time only.                                                              *)
BeginUnlessAged(i) ==
  /\ IF ~aged
     THEN /\ at' = [at EXCEPT ![i] = "nodes"]
          /\ ticket' = [ticket EXCEPT ![i] = session]
          /\ since' = [since EXCEPT ![i] = world]
     ELSE /\ at' = [at EXCEPT ![i] = "login"]
          /\ UNCHANGED <<ticket, since>>
  /\ UNCHANGED <<ticketVars, list, asking, todo>>

Begin(i) ==
  /\ IF session # None /\ ~aged
     THEN /\ at' = [at EXCEPT ![i] = "nodes"]
          /\ ticket' = [ticket EXCEPT ![i] = session]
          /\ since' = [since EXCEPT ![i] = world]
     ELSE /\ at' = [at EXCEPT ![i] = "login"]
          /\ UNCHANGED <<ticket, since>>
  /\ UNCHANGED <<ticketVars, list, asking, todo>>

(* main(): a worker that finds no Redis exits and is started again. *)
StartWorker(i) == /\ worker = "down"
                  /\ redis = "up"
                  /\ worker' = "first"
                  /\ Begin(i)
                  /\ UNCHANGED channelVars

Tick(i) == /\ worker = "ticking"
           /\ at[i] = "idle"
           /\ Begin(i)
           /\ UNCHANGED <<channelVars, worker>>

(* A poll is over; after the first one main() sets the interval.  Its      *)
(* variables go with it.                                                   *)
End(i) == /\ at' = [at EXCEPT ![i] = "idle"]
          /\ ticket' = [ticket EXCEPT ![i] = None]
          /\ since' = [since EXCEPT ![i] = 0]
          /\ list' = [list EXCEPT ![i] = 0]
          /\ worker' = "ticking"

InUse == ({session} \cup {ticket[j] : j \in Poll}) \ {None}

(* getSession: two polls may both be here; the later answer is kept. *)
Authenticated(i) ==
  /\ at[i] = "login"
  /\ \E t \in Ticket \ InUse :
       /\ session' = t
       /\ lost' = lost \ {t}
       /\ ticket' = [ticket EXCEPT ![i] = t]
  /\ aged' = FALSE
  /\ at' = [at EXCEPT ![i] = "nodes"]
  /\ since' = [since EXCEPT ![i] = world]
  /\ UNCHANGED <<channelVars, worker, list, asking, todo>>

AuthenticationFailed(i) == /\ at[i] = "login"
                           /\ Fault
                           /\ session' = None /\ aged' = FALSE
                           /\ End(i)
                           /\ UNCHANGED <<clusterVars, redis, bff, browserVars, live, lost, asking, todo>>

(* GET /nodes. *)
NodesAnswered(i) == /\ at[i] = "nodes"
                    /\ ticket[i] \notin lost
                    /\ \E v \in since[i]..world : list' = [list EXCEPT ![i] = v]
                    /\ at' = [at EXCEPT ![i] = "announce"]
                    /\ since' = [since EXCEPT ![i] = 0]
                    /\ UNCHANGED <<channelVars, worker, ticketVars, ticket, asking, todo>>

(* poll()'s catch, and a mutant of it that keeps the session. *)
NodesRefusedKeepsSession(i) ==
  /\ at[i] = "nodes"
  /\ ticket[i] \in lost
  /\ End(i)
  /\ UNCHANGED <<channelVars, session, aged, lost, asking, todo>>

NodesRefused(i) == /\ at[i] = "nodes"
                   /\ ticket[i] \in lost
                   /\ session' = None /\ aged' = FALSE
                   /\ End(i)
                   /\ UNCHANGED <<channelVars, lost, asking, todo>>

NodesFailed(i) == /\ at[i] = "nodes"
                  /\ Fault
                  /\ End(i)
                  /\ UNCHANGED <<clusterVars, redis, bff, browserVars, live, ticketVars, asking, todo>>

(* publishNodes; then the requests for every node that is online. *)
Announced(i) ==
  /\ at[i] = "announce"
  /\ Published(NodeList, list[i])
  /\ IF online[list[i]] = {} THEN End(i) /\ UNCHANGED asking
     ELSE /\ at' = [at EXCEPT ![i] = "each"]
          /\ asking' = [asking EXCEPT ![i] = online[list[i]]]
          /\ since' = [since EXCEPT ![i] = world]
          /\ list' = [list EXCEPT ![i] = 0]
          /\ UNCHANGED <<worker, ticket>>
  /\ UNCHANGED <<ticketVars, todo>>

AnnounceUnanswered(i) == /\ at[i] = "announce"
                         /\ PublishedUnanswered(NodeList, list[i])
                         /\ UNCHANGED <<worker, ticketVars, pollVars>>

AnnounceRejected(i) == /\ at[i] = "announce"
                       /\ PublishRejected
                       /\ End(i)
                       /\ UNCHANGED <<ticketVars, asking, todo>>

(* Whether poll i is over once asking and todo are what they become. *)
Proceed(i) ==
  IF asking'[i] = {} /\ todo'[i] = Nothing
  THEN End(i)
  ELSE UNCHANGED <<worker, at, ticket, since, list>>

(* What has been answered, in the order in which it is published.          *)
Answers(answered, v) ==
  LET Of(k) == IF k \in answered THEN << <<k, v[k]>> >> ELSE <<>>
  IN  Of("guests") \o Of("storage") \o Of("tasks")

(* The three requests of a node are settled: answered, or not for reasons  *)
(* of the account, of the ticket, or of the network.  A 401 is swallowed   *)
(* like the others: the session stays, and the next poll begins with it.   *)
Settle(i, n, answered) ==
  /\ at[i] = "each"
  /\ n \in asking[i]
  /\ asking' = [asking EXCEPT ![i] = @ \ {n}]
  /\ \E v \in [Kinds -> since[i]..world] :
       todo' = [todo EXCEPT ![i][n] = Answers(answered, v)]
  /\ Proceed(i)
  /\ UNCHANGED <<clusterVars, redis, bff, browserVars, live, ticketVars>>

Readable(i, n) == IF ticket[i] \notin lost THEN {k \in Kinds : <<n, k>> \notin Broken} ELSE {}


NodeSettled(i, n) == Settle(i, n, Readable(i, n)) /\ UNCHANGED faults

NodeSettledInPart(i, n) ==
  \E k \in Readable(i, n) : Settle(i, n, Readable(i, n) \ {k}) /\ Fault

NodePublished(i, n) ==
  /\ todo[i][n] # <<>>
  /\ Published(<<n, Head(todo[i][n])[1]>>, Head(todo[i][n])[2])
  /\ todo' = [todo EXCEPT ![i][n] = Tail(@)]
  /\ UNCHANGED asking
  /\ Proceed(i)
  /\ UNCHANGED ticketVars

NodeUnanswered(i, n) ==
  /\ todo[i][n] # <<>>
  /\ PublishedUnanswered(<<n, Head(todo[i][n])[1]>>, Head(todo[i][n])[2])
  /\ UNCHANGED <<worker, ticketVars, pollVars>>

(* A publish that fails takes the rest of its node with it. *)
NodeRejected(i, n) ==
  /\ todo[i][n] # <<>>
  /\ PublishRejected
  /\ todo' = [todo EXCEPT ![i][n] = <<>>]
  /\ UNCHANGED asking
  /\ Proceed(i)
  /\ UNCHANGED ticketVars

-----------------------------------------------------------------------------
(* expiresAt of the session passes; Proxmox forgets a ticket; the worker   *)
(* is stopped or dies.                                                     *)
Age == /\ session # None /\ ~aged
       /\ aged' = TRUE
       /\ UNCHANGED <<channelVars, worker, session, lost, pollVars>>

Revoke(t) == /\ t \in InUse \ lost
             /\ Fault
             /\ lost' = lost \cup {t}
             /\ UNCHANGED <<clusterVars, redis, bff, browserVars, live, worker, session, aged, pollVars>>

StopWorker == /\ worker # "down"
              /\ Fault
              /\ worker' = "down"
              /\ session' = None /\ aged' = FALSE
              /\ at' = [i \in Poll |-> "idle"]
              /\ ticket' = [i \in Poll |-> None]
              /\ since' = [i \in Poll |-> 0]
              /\ list' = [i \in Poll |-> 0]
              /\ asking' = [i \in Poll |-> {}]
              /\ todo' = [i \in Poll |-> Nothing]
              /\ UNCHANGED <<clusterVars, redis, bff, browserVars, live, lost>>

(* What a poll does when it gets an answer. *)
LoginStep(i) == Authenticated(i) \/ AuthenticationFailed(i)
NodesStep(i) == NodesAnswered(i) \/ NodesRefused(i) \/ NodesFailed(i)
AnnounceStep(i) == Announced(i) \/ AnnounceUnanswered(i) \/ AnnounceRejected(i)
NodeStep(i, n) == \/ NodeSettled(i, n) \/ NodeSettledInPart(i, n)
                  \/ NodePublished(i, n) \/ NodeUnanswered(i, n) \/ NodeRejected(i, n)

PollStep(i) == \/ LoginStep(i) \/ NodesStep(i) \/ AnnounceStep(i)
               \/ \E n \in Node : NodeStep(i, n)

Next == \/ \E i \in Poll : StartWorker(i) \/ Tick(i) \/ PollStep(i)
        \/ Age \/ (\E t \in Ticket : Revoke(t)) \/ StopWorker
        \/ ChannelStep /\ UNCHANGED <<worker, ticketVars, pollVars>>

Spec == Init /\ [][Next]_vars

(* Requests are answered or time out, the interval goes on, the container  *)
(* is started again, Redis comes back and ioredis with it.                 *)
Fairness == /\ ChannelFairness
            /\ WF_vars(\E i \in Poll : StartWorker(i))
            /\ WF_vars(\E i \in Poll : Tick(i))
            /\ \A i \in Poll : /\ WF_vars(LoginStep(i) \/ NodesStep(i) \/ AnnounceStep(i))
                               /\ \A n \in Node : WF_vars(NodeStep(i, n))

FairSpec == Spec /\ Fairness

-----------------------------------------------------------------------------
(* A worker does not go on for ever with a ticket that Proxmox no longer   *)
(* accepts, although polls share it, the 401s of a node's requests change  *)
(* nothing, and a poll that is refused may end after another has logged    *)
(* in: some poll asks for the nodes with it and is told so.                *)
LostIsReplaced == session \in lost ~> session \notin lost

(* What a page shows of a topic: what an account that may not read it all  *)
(* can show of the nodes that are online in the end.                       *)
Shown == {NodeList} \cup ((online[MaxChanges] \X Kinds) \ Broken)

Stale == {topic \in Shown : live[topic] # MaxChanges}

=============================================================================
