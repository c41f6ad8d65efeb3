---------------------------- MODULE PollerProofs ----------------------------
(***************************************************************************)
(* Theorems about Poller, for any number of overlapping polls, tickets,    *)
(* nodes and failures.                                                     *)
(***************************************************************************)
EXTENDS Poller, TLAPS

(* A request has been sent in some version, and what is to be announced    *)
(* has one: with it TypeOK is inductive.                                   *)
Asked == \A i \in Poll : /\ at[i] \in {"nodes", "each"} => since[i] # 0
                         /\ at[i] = "announce" => list[i] # 0

TInv == TypeOK /\ Asked

USE ChannelConstants, PollerConstants DEF TInv

LEMMA InitTyped == Init => TInv
<1> SUFFICES ASSUME Init
             PROVE  TInv
  OBVIOUS
<1>1. ChannelOK
  <2>1. NothingLive \in [Topic -> 0..MaxChanges]
    BY DEF NothingLive
  <2> QED
    BY <2>1 DEF Init, ChannelInit, ChannelOK, Version
<1>2. 0 \in 0..world /\ Nothing \in [Node -> Seq(Item)]
  BY DEF Init, ChannelInit, Nothing
<1>3. todo \in [Poll -> [Node -> Seq(Item)]]
  BY <1>2 DEF Init
<1>4. since \in [Poll -> 0..world] /\ list \in [Poll -> 0..world]
  BY <1>2 DEF Init
<1>5. Asked
  BY DEF Init, Asked
<1> QED
  BY <1>1, <1>3, <1>4, <1>5 DEF Init, TypeOK

LEMMA World == TypeOK => world \in Version /\ world \in Nat /\ world # 0 /\ 0..world = {0} \cup 1..world
  BY DEF TypeOK, ChannelOK, Version

(* What the steps of a poll do to the channel.                             *)
LEMMA ChannelTyped ==
  ASSUME ChannelOK, NEW v \in Version, NEW topic \in Topic,
         \/ UNCHANGED channelVars
         \/ UNCHANGED <<clusterVars, redis, bff, browserVars, live>> /\ (UNCHANGED faults \/ Fault)
         \/ Published(topic, v)
         \/ PublishedUnanswered(topic, v)
  PROVE  ChannelOK' /\ world' = world
<1>1. faults' \in 0..MaxFaults
  BY DEF ChannelOK, channelVars, Fault, Published, PublishedUnanswered
<1>2. live' \in [Topic -> 0..MaxChanges]
  BY DEF ChannelOK, channelVars, Published, PublishedUnanswered, Deliver, Version
<1>3. bff' \in {"off", "subscribed", "cut", "deaf"} /\ redis' \in {"up", "down"}
  BY DEF ChannelOK, channelVars, Published, PublishedUnanswered, Cut
<1>4. UNCHANGED <<clusterVars, browserVars>>
  BY DEF channelVars, Published, PublishedUnanswered
<1> QED
  BY <1>1, <1>2, <1>3, <1>4 DEF ChannelOK, clusterVars, browserVars

LEMMA EndTyped ==
  ASSUME TInv, NEW i \in Poll, End(i), ChannelOK', world' = world,
         session' \in Ticket \cup {None}, aged' \in BOOLEAN,
         lost' \subseteq Ticket,
         asking' \in [Poll -> SUBSET Node], todo' \in [Poll -> [Node -> Seq(Item)]]
  PROVE  TInv'
<1>1. 0 \in 0..world
  BY World
<1> QED
  BY <1>1 DEF End, TypeOK, Asked

LEMMA BeginTyped ==
  ASSUME TInv, NEW i \in Poll, Begin(i), UNCHANGED channelVars, worker' \in {"down", "first", "ticking"}
  PROVE  TInv'
<1>1. world \in 0..world /\ world # 0
  BY World
<1>2. ChannelOK' /\ world' = world
  BY DEF channelVars, clusterVars, browserVars, ChannelOK, TypeOK
<1>3. since' \in [Poll -> 0..world] /\ list' = list
  <2>1. since' = since \/ since' = [since EXCEPT ![i] = world]
    BY DEF Begin
  <2>2. since \in [Poll -> 0..world]
    BY DEF TypeOK
  <2> QED
    BY <1>1, <2>1, <2>2 DEF Begin
<1>4. ticket' \in [Poll -> Ticket \cup {None}] /\ at' \in [Poll -> {"idle", "login", "nodes", "announce", "each"}]
  <2>1. ticket' = ticket \/ ticket' = [ticket EXCEPT ![i] = session]
    BY DEF Begin
  <2>2. at' = [at EXCEPT ![i] = "nodes"] \/ at' = [at EXCEPT ![i] = "login"]
    BY DEF Begin
  <2>3. session \in Ticket \cup {None} /\ ticket \in [Poll -> Ticket \cup {None}]
    BY DEF TypeOK
  <2>4. at \in [Poll -> {"idle", "login", "nodes", "announce", "each"}]
    BY DEF TypeOK
  <2> QED
    BY <2>1, <2>2, <2>3, <2>4
<1>5. UNCHANGED <<session, aged, lost, asking, todo>>
  BY DEF Begin, ticketVars
<1>6. \A j \in Poll : at'[j] \in {"nodes", "announce", "each"} => ticket'[j] \in Ticket
  BY DEF Begin, TypeOK
<1>7. Asked'
  BY <1>1, <1>3 DEF Begin, TypeOK, Asked
<1> QED
  BY <1>2, <1>3, <1>4, <1>5, <1>6, <1>7 DEF TypeOK

LEMMA LoginTyped == ASSUME TInv, NEW i \in Poll, LoginStep(i) PROVE TInv'
<1>1. CASE Authenticated(i)
  <2>1. world \in 0..world /\ world # 0
    BY World
  <2>2. ChannelOK' /\ world' = world
    BY <1>1 DEF Authenticated, channelVars, clusterVars, browserVars, ChannelOK, TypeOK
  <2>3. PICK t \in Ticket : /\ session' = t
                            /\ lost' = lost \ {t}
                            /\ ticket' = [ticket EXCEPT ![i] = t]
    BY <1>1 DEF Authenticated
  <2> QED
    BY <1>1, <2>1, <2>2, <2>3 DEF Authenticated, TypeOK, Asked
<1>2. CASE AuthenticationFailed(i)
  <2>1. ChannelOK' /\ world' = world
    BY <1>2, World, ChannelTyped DEF AuthenticationFailed, TypeOK, Topic
  <2> QED
    BY <1>2, <2>1, EndTyped DEF AuthenticationFailed, TypeOK
<1> QED
  BY <1>1, <1>2 DEF LoginStep

LEMMA NodesTyped == ASSUME TInv, NEW i \in Poll, NodesStep(i) PROVE TInv'
<1>1. ChannelOK' /\ world' = world
  BY World, ChannelTyped DEF NodesStep, NodesAnswered, NodesRefused, NodesFailed, TypeOK, Topic
<1>2. CASE NodesAnswered(i)
  <2>1. PICK v \in since[i]..world : list' = [list EXCEPT ![i] = v]
    BY <1>2 DEF NodesAnswered
  <2>2. since[i] # 0
    BY <1>2 DEF NodesAnswered, Asked
  <2>3. since[i] \in 0..world
    BY DEF TypeOK
  <2>4. v \in 0..world /\ v # 0 /\ 0 \in 0..world
    BY <2>1, <2>2, <2>3, World
  <2> QED
    BY <1>1, <1>2, <2>1, <2>4 DEF NodesAnswered, TypeOK, Asked, ticketVars
<1>3. CASE NodesRefused(i)
  BY <1>1, <1>3, EndTyped DEF NodesRefused, TypeOK
<1>4. CASE NodesFailed(i)
  BY <1>1, <1>4, EndTyped DEF NodesFailed, TypeOK, ticketVars
<1> QED
  BY <1>2, <1>3, <1>4 DEF NodesStep

LEMMA AnnounceTyped == ASSUME TInv, NEW i \in Poll, AnnounceStep(i) PROVE TInv'
<1>0. at[i] = "announce" /\ list[i] \in Version
  BY World DEF AnnounceStep, Announced, AnnounceUnanswered, AnnounceRejected, TypeOK, ChannelOK, Asked, Version
<1>1. ChannelOK' /\ world' = world
  BY <1>0, ChannelTyped DEF AnnounceStep, Announced, AnnounceUnanswered, AnnounceRejected, PublishRejected, TypeOK, Topic
<1>2. CASE Announced(i)
  <2>1. CASE online[list[i]] = {}
    BY <1>1, <1>2, <2>1, EndTyped DEF Announced, TypeOK, ticketVars
  <2>2. CASE online[list[i]] # {}
    <3>1. online[list[i]] \in SUBSET Node
      BY <1>0 DEF TypeOK, ChannelOK
    <3>2. world \in 0..world /\ world # 0 /\ 0 \in 0..world
      BY World
    <3>3. /\ at' = [at EXCEPT ![i] = "each"]
          /\ asking' = [asking EXCEPT ![i] = online[list[i]]]
          /\ since' = [since EXCEPT ![i] = world]
          /\ list' = [list EXCEPT ![i] = 0]
          /\ UNCHANGED <<worker, ticket, ticketVars, todo>>
      BY <1>2, <2>2 DEF Announced
    <3>4. asking' \in [Poll -> SUBSET Node] /\ since' \in [Poll -> 0..world] /\ list' \in [Poll -> 0..world]
      BY <3>1, <3>2, <3>3 DEF TypeOK
    <3>5. at' \in [Poll -> {"idle", "login", "nodes", "announce", "each"}]
      BY <3>3 DEF TypeOK
    <3>6. \A j \in Poll : at'[j] \in {"nodes", "announce", "each"} => ticket'[j] \in Ticket
      BY <1>0, <3>3 DEF TypeOK
    <3>7. Asked'
      BY <3>2, <3>3 DEF TypeOK, Asked
    <3> QED
      BY <1>1, <3>3, <3>4, <3>5, <3>6, <3>7 DEF TypeOK, ticketVars
  <2> QED
    BY <2>1, <2>2
<1>3. CASE AnnounceUnanswered(i)
  BY <1>1, <1>3 DEF AnnounceUnanswered, TypeOK, Asked, ticketVars, pollVars
<1>4. CASE AnnounceRejected(i)
  BY <1>1, <1>4, EndTyped DEF AnnounceRejected, TypeOK, ticketVars
<1> QED
  BY <1>2, <1>3, <1>4 DEF AnnounceStep

LEMMA ProceedTyped ==
  ASSUME TInv, NEW i \in Poll, Proceed(i), UNCHANGED ticketVars, ChannelOK', world' = world,
         asking' \in [Poll -> SUBSET Node], todo' \in [Poll -> [Node -> Seq(Item)]]
  PROVE  TInv'
<1>1. CASE End(i)
  BY <1>1, EndTyped DEF TypeOK, ticketVars
<1>2. CASE UNCHANGED <<worker, at, ticket, since, list>>
  BY <1>2 DEF TypeOK, Asked, ticketVars
<1> QED
  BY <1>1, <1>2 DEF Proceed

LEMMA AnswersTyped ==
  ASSUME NEW answered, NEW v \in [Kinds -> Version]
  PROVE  Answers(answered, v) \in Seq(Item)
<1> DEFINE Of(k) == IF k \in answered THEN << <<k, v[k]>> >> ELSE <<>>
<1>1. ASSUME NEW k \in Kinds
      PROVE  Of(k) \in Seq(Item)
  <2>1. <<k, v[k]>> \in Item
    BY DEF Item
  <2> QED
    BY <2>1
<1>2. Of("guests") \in Seq(Item) /\ Of("storage") \in Seq(Item) /\ Of("tasks") \in Seq(Item)
  BY <1>1 DEF Kinds
<1> HIDE DEF Of
<1>3. Of("guests") \o Of("storage") \o Of("tasks") \in Seq(Item)
  BY <1>2
<1> QED
  BY <1>3 DEF Of, Answers

LEMMA SettleTyped ==
  ASSUME TInv, NEW i \in Poll, NEW n \in Node, NEW answered, Settle(i, n, answered), UNCHANGED faults \/ Fault
  PROVE  TInv'
<1>1. ChannelOK' /\ world' = world
  BY World, ChannelTyped DEF Settle, TypeOK, Topic
<1>2. asking' \in [Poll -> SUBSET Node]
  BY DEF Settle, TypeOK
<1>3. PICK v \in [Kinds -> since[i]..world] : todo' = [todo EXCEPT ![i][n] = Answers(answered, v)]
  BY DEF Settle
<1>4. since[i]..world \subseteq Version
  <2>1. since[i] # 0
    BY DEF Settle, Asked
  <2>2. since[i] \in 0..world
    BY DEF TypeOK
  <2>3. world \in Nat /\ world \in 1..MaxChanges
    BY World DEF Version
  <2> QED
    BY <2>1, <2>2, <2>3 DEF Version
<1>5. Answers(answered, v) \in Seq(Item)
  BY <1>4, AnswersTyped
<1>6. todo' \in [Poll -> [Node -> Seq(Item)]]
  BY <1>3, <1>5 DEF TypeOK
<1> QED
  BY <1>1, <1>2, <1>6, ProceedTyped DEF Settle

LEMMA NodeTyped ==
  ASSUME TInv, NEW i \in Poll, NEW n \in Node, NodeStep(i, n)
  PROVE  TInv'
<1>1. CASE NodeSettled(i, n)
  BY <1>1, SettleTyped DEF NodeSettled
<1>2. CASE NodeSettledInPart(i, n)
  BY <1>2, SettleTyped DEF NodeSettledInPart
<1>3. CASE NodePublished(i, n) \/ NodeUnanswered(i, n) \/ NodeRejected(i, n)
  <2>1. todo[i][n] \in Seq(Item) /\ todo[i][n] # <<>>
    BY <1>3 DEF NodePublished, NodeUnanswered, NodeRejected, TypeOK
  <2>2. Head(todo[i][n])[2] \in Version /\ <<n, Head(todo[i][n])[1]>> \in Topic
    <3>1. Head(todo[i][n]) \in Kinds \X Version
      BY <2>1 DEF Item
    <3> QED
      BY <3>1 DEF Topic
  <2>3. ChannelOK' /\ world' = world
    BY <1>3, <2>2, ChannelTyped DEF NodePublished, NodeUnanswered, NodeRejected, PublishRejected, TypeOK
  <2>4. Tail(todo[i][n]) \in Seq(Item) /\ <<>> \in Seq(Item)
    BY <2>1
  <2>5. CASE NodeUnanswered(i, n)
    BY <2>3, <2>5 DEF NodeUnanswered, TypeOK, Asked, ticketVars, pollVars
  <2>6. CASE NodePublished(i, n) \/ NodeRejected(i, n)
    <3>0. PICK rest \in Seq(Item) : todo' = [todo EXCEPT ![i][n] = rest]
      BY <2>4, <2>6 DEF NodePublished, NodeRejected
    <3>1. todo' \in [Poll -> [Node -> Seq(Item)]]
      BY <3>0 DEF TypeOK
    <3>2. asking' \in [Poll -> SUBSET Node]
      BY <2>6 DEF NodePublished, NodeRejected, TypeOK
    <3> QED
      BY <2>3, <2>6, <3>1, <3>2, ProceedTyped DEF NodePublished, NodeRejected
  <2> QED
    BY <1>3, <2>5, <2>6
<1> QED
  BY <1>1, <1>2, <1>3 DEF NodeStep

LEMMA ChannelStepTyped ==
  ASSUME TInv, ChannelStep, UNCHANGED <<worker, ticketVars, pollVars>>
  PROVE  TInv'
<1>1. world' = world \/ Change
  BY DEF ChannelStep, RedisFails, RedisReturns, Start, Resubscribe, Restart,
         StreamBreaks, Reconnect, SignIn, clusterVars
<1>2. world' \in Version /\ 0..world \subseteq 0..world'
  BY <1>1, World DEF Change, Version
<1>3. online' = online /\ faults' \in 0..MaxFaults
  <2>1. online' = online /\ (faults' = faults \/ Fault)
    BY DEF ChannelStep, Change, RedisFails, RedisReturns, Start, Resubscribe, Restart,
           StreamBreaks, Reconnect, SignIn, clusterVars
  <2> QED
    BY <2>1, ChannelConstants DEF Fault, TypeOK, ChannelOK
<1>4. redis' \in {"up", "down"} /\ bff' \in {"off", "subscribed", "cut", "deaf"}
  BY DEF ChannelStep, Change, RedisFails, RedisReturns, Start, Resubscribe, Restart,
         StreamBreaks, Reconnect, SignIn, Cut, TypeOK, ChannelOK
<1>5. stream' \in {"open", "closed"} /\ signed' \in BOOLEAN
  BY DEF ChannelStep, Change, RedisFails, RedisReturns, Start, Resubscribe, Restart,
         StreamBreaks, Reconnect, SignIn, browserVars, TypeOK, ChannelOK
<1>6. live' \in [Topic -> 0..MaxChanges]
  <2>1. NothingLive \in [Topic -> 0..MaxChanges]
    BY DEF NothingLive
  <2> QED
    BY <2>1 DEF ChannelStep, Change, RedisFails, RedisReturns, Start, Resubscribe, Restart,
                StreamBreaks, Reconnect, SignIn, TypeOK, ChannelOK
<1>7. ChannelOK'
  BY <1>2, <1>3, <1>4, <1>5, <1>6 DEF TypeOK, ChannelOK
<1>8. since' \in [Poll -> 0..world'] /\ list' \in [Poll -> 0..world']
  BY <1>2 DEF TypeOK, pollVars
<1> QED
  BY <1>2, <1>7, <1>8 DEF TypeOK, Asked, ticketVars, pollVars

LEMMA StepTyped == TInv /\ [Next]_vars => TInv'
<1> SUFFICES ASSUME TInv, [Next]_vars
             PROVE  TInv'
  OBVIOUS
<1>1. CASE \E i \in Poll : StartWorker(i) \/ Tick(i)
  BY <1>1, BeginTyped DEF StartWorker, Tick, TypeOK
<1>2. CASE \E i \in Poll : PollStep(i)
  BY <1>2, LoginTyped, NodesTyped, AnnounceTyped, NodeTyped DEF PollStep
<1>3. CASE Age
  BY <1>3 DEF Age, TypeOK, Asked, ChannelOK, channelVars, clusterVars, browserVars, pollVars
<1>4. CASE \E t \in Ticket : Revoke(t)
  <2>1. ChannelOK' /\ world' = world
    BY <1>4, World, ChannelTyped DEF Revoke, TypeOK, Topic
  <2> QED
    BY <1>4, <2>1 DEF Revoke, TypeOK, Asked, pollVars
<1>5. CASE StopWorker
  <2>1. ChannelOK' /\ world' = world
    BY <1>5, World, ChannelTyped DEF StopWorker, TypeOK, Topic
  <2>2. 0 \in 0..world /\ Nothing \in [Node -> Seq(Item)]
    BY World DEF Nothing
  <2> QED
    BY <1>5, <2>1, <2>2 DEF StopWorker, TypeOK, Asked
<1>6. CASE ChannelStep /\ UNCHANGED <<worker, ticketVars, pollVars>>
  BY <1>6, ChannelStepTyped
<1>7. CASE UNCHANGED vars
  BY <1>7 DEF TypeOK, Asked, ChannelOK, vars, channelVars, clusterVars, browserVars, ticketVars, pollVars
<1> QED
  BY <1>1, <1>2, <1>3, <1>4, <1>5, <1>6, <1>7 DEF Next

(* Every variable of poller.ts and of the channel keeps its type: no poll  *)
(* announces or publishes what it has not been given by Proxmox.           *)
THEOREM TypeCorrect == Spec => []TypeOK
<1>1. Init => TInv
  BY InitTyped
<1>2. TInv /\ [Next]_vars => TInv'
  BY StepTyped
<1>3. TInv => TypeOK
  OBVIOUS
<1> QED
  BY <1>1, <1>2, <1>3, PTL DEF Spec
=============================================================================
