----------------------------- MODULE HKBusRaces -----------------------------
(***************************************************************************)
(* publish and route decide under one critical section and act under a     *)
(* later one: what the steps in between cannot spoil, and whom a publish   *)
(* reaches. And no receiver sleeps beside a message nobody was woken for.  *)
(* For every number of threads, connections and messages.                  *)
(***************************************************************************)
EXTENDS HKBusProofs, HKBusReach, FiniteSetTheorems

\* The candidate of a route in progress still has a queue no longer than the
\* count that made it the candidate.
ChoiceOK(t) ==
  pc[t] \in {"route_scan", "route_push"} /\ call[t].min_q # NoLimit
    => /\ call[t].best \in Conns
       /\ queue[call[t].best].count <= call[t].min_q

ChoiceInv == \A t \in Threads : ChoiceOK(t)

\* Connection c is due the message of t's call, or an unsubscribe came between.
Due(t, c) ==
  Addressed(call[t].msg, c) \/ Subscribed(c, call[t].msg.topic) \/ stale[c] = 0

DueInv ==
  /\ \A t \in Threads :
       /\ pc[t] = "pub_push" => Due(t, conns[call[t].i])
       /\ pc[t] \in {"route_scan", "route_push"} /\ call[t].best # NoConn
            => Due(t, call[t].best)
  /\ OneStaleDelivery

Known == IInv /\ OnInv

----------------------------------------------------------------------------
\* What the steps of the other threads may do to a thread inside publish or
\* route: receivers shorten queues, subscriptions come and go.
Bystander ==
  /\ UNCHANGED <<conns, call, id>>
  /\ \A t \in Threads : pc'[t] \in BusPCs => pc'[t] = pc[t]
  /\ queue' \in [Conns -> Ring]
  /\ \A c \in Conns : queue'[c].count <= queue[c].count
  /\ \A c \in Conns :
       \/ stale'[c] = 0
       \/ /\ stale'[c] = stale[c]
          /\ \A m \in Msg : Subscribed(c, m.topic) => Subscribed(c, m.topic)'

LEMMA BystanderKeeps ==
  ASSUME Known, ChoiceInv, DueInv, Bystander
  PROVE  ChoiceInv' /\ DueInv'
<1>0. /\ call \in [Threads -> Calls] /\ queue \in [Conns -> Ring]
      /\ conns \in Seq(Conns) /\ stale \in [Conns -> Nat]
      /\ \A t \in Threads : call[t] \in Calls
  BY DEF Known, IInv, TypeOK
<1>1. \A t \in Threads : pc'[t] \in BusPCs => pc'[t] = pc[t]
  BY DEF Bystander
<1>2. ChoiceInv'
  <2>1. ASSUME NEW t \in Threads,
               pc'[t] \in {"route_scan", "route_push"}, call[t].min_q # NoLimit
        PROVE  call[t].best \in Conns /\ queue'[call[t].best].count <= call[t].min_q
    <3>1. pc[t] \in {"route_scan", "route_push"}
      BY <1>1, <2>1 DEF BusPCs
    <3>2. call[t].best \in Conns /\ queue[call[t].best].count <= call[t].min_q
      BY <2>1, <3>1 DEF ChoiceInv, ChoiceOK
    <3>3. call[t].min_q \in Int
      BY <1>0, QueueAssumption DEF Calls, NoLimit
    <3>4. queue'[call[t].best].count <= queue[call[t].best].count
      BY <3>2 DEF Bystander
    <3>5. queue[call[t].best].count \in Int /\ queue'[call[t].best].count \in Int
      <4>1. queue' \in [Conns -> Ring]
        BY DEF Bystander
      <4> QED BY <3>2, <4>1, <1>0 DEF Ring
    <3> QED BY <3>2, <3>3, <3>4, <3>5
  <2> QED BY <2>1 DEF ChoiceInv, ChoiceOK, Bystander
<1>3. ASSUME NEW t \in Threads, NEW c \in Conns, call[t].msg \in Msg, Due(t, c)
      PROVE  Due(t, c)'
  BY <1>3 DEF Due, Bystander, Addressed
<1>4. OneStaleDelivery'
  BY DEF OneStaleDelivery, DueInv, Bystander
<1>5. ASSUME NEW t \in Threads, pc'[t] = "pub_push"
      PROVE  Due(t, conns[call[t].i])'
  <2>1. pc[t] = "pub_push"
    BY <1>1, <1>5 DEF BusPCs
  <2>2. conns[call[t].i] \in Conns /\ call[t].msg \in Msg
    BY <2>1, PushPlace DEF Known
  <2>3. UNCHANGED <<conns, call>>
    BY DEF Bystander
  <2> DEFINE c == conns[call[t].i]
  <2>4. Due(t, c) /\ c' = c
    BY <2>1, <2>3 DEF DueInv
  <2>5. c \in Conns
    BY <2>2
  <2> HIDE DEF c
  <2>6. Due(t, c)'
    BY <1>3, <2>2, <2>4, <2>5 DEF Due, Bystander, Addressed
  <2> QED BY <2>6 DEF c
<1>6. ASSUME NEW t \in Threads, pc'[t] \in {"route_scan", "route_push"}, call'[t].best # NoConn
      PROVE  Due(t, call[t].best)'
  <2>1. pc[t] \in {"route_scan", "route_push"} /\ pc[t] \in BusPCs
    BY <1>1, <1>6 DEF BusPCs
  <2>2. UNCHANGED <<conns, call>>
    BY DEF Bystander
  <2>3. call[t].best # NoConn /\ call[t].best \in Conns /\ call[t].msg \in Msg
    BY <1>6, <2>1, <2>2, CallTyped DEF Known, IInv, CallInv, CallOK
  <2> DEFINE c == call[t].best
  <2>4. Due(t, c) /\ c' = c /\ c \in Conns
    BY <2>1, <2>2, <2>3 DEF DueInv
  <2> HIDE DEF c
  <2>5. Due(t, c)'
    BY <1>3, <2>3, <2>4 DEF Due, Bystander, Addressed
  <2> QED BY <2>5 DEF c
<1> QED BY <1>2, <1>4, <1>5, <1>6 DEF DueInv

\* Nobody is inside publish or route after the step.
LEMMA NobodySends ==
  ASSUME IInv', busLock' = NoThread, OneStaleDelivery'
  PROVE  ChoiceInv' /\ DueInv'
<1>1. \A t \in Threads : pc'[t] \notin BusPCs
  BY BusAssumption DEF IInv, LockInv
<1> QED BY <1>1 DEF ChoiceInv, ChoiceOK, DueInv, BusPCs

\* Thread t is the only one inside publish or route after the step.
LEMMA OneSends ==
  ASSUME IInv', NEW t \in Threads, busLock' = t, OneStaleDelivery', ChoiceOK(t)',
         pc'[t] = "pub_push" => Due(t, conns[call[t].i])',
         pc'[t] \in {"route_scan", "route_push"} /\ call'[t].best # NoConn
           => Due(t, call[t].best)'
  PROVE  ChoiceInv' /\ DueInv'
<1>1. \A u \in Threads \ {t} : pc'[u] \notin BusPCs
  BY DEF IInv, LockInv
<1> QED BY <1>1 DEF ChoiceInv, ChoiceOK, DueInv, BusPCs

\* A push of a message that is due leaves at most one stale message.
LEMMA PushIsDue ==
  ASSUME Known, DueInv, NEW t \in Threads, NEW c \in Conns, NEW next,
         Due(t, c), Enqueue(t, c, next)
  PROVE  OneStaleDelivery'
<1>1. stale \in [Conns -> Nat] /\ \A d \in Conns : stale[d] <= 1
  BY DEF Known, IInv, TypeOK, DueInv, OneStaleDelivery
<1>2. CASE stale' = stale
  BY <1>1, <1>2 DEF OneStaleDelivery
<1>3. CASE /\ stale' = [stale EXCEPT ![c] = @ + 1]
           /\ ~(Addressed(call[t].msg, c) \/ Subscribed(c, call[t].msg.topic))
  <2>1. stale[c] = 0
    BY <1>3 DEF Due
  <2> QED BY <1>1, <1>3, <2>1 DEF OneStaleDelivery
<1> QED BY <1>2, <1>3 DEF Enqueue

LEMMA PublishRaces ==
  ASSUME Known, ChoiceInv, DueInv, IInv', NEW t \in Threads,
         \/ \E r \in Requests : PublishBegin(t, r)
         \/ PublishScan(t) \/ PublishPush(t) \/ PublishEnd(t)
  PROVE  ChoiceInv' /\ DueInv'
<1>0. pc \in [Threads -> PCs] /\ call \in [Threads -> Calls] /\ conns \in Seq(Conns)
  BY CallTyped DEF Known
<1>1. CASE \E r \in Requests : PublishBegin(t, r)
  <2>1. pc'[t] = "pub_scan" /\ busLock' = t
    BY <1>0, <1>1 DEF PublishBegin, Begin
  <2>2. OneStaleDelivery'
    BY <1>1 DEF DueInv, OneStaleDelivery, PublishBegin, connVars
  <2> QED BY <2>1, <2>2, OneSends DEF ChoiceOK
<1>2. CASE PublishScan(t)
  <2> DEFINE c == conns[call[t].i]
  <2>1. /\ UNCHANGED <<conns, busLock, stale, subs, id>>
        /\ pc[t] = "pub_scan" /\ call[t].i <= Len(conns)
    BY <1>2 DEF PublishScan, connVars, busVars
  <2>2. busLock = t
    BY <2>1 DEF Known, IInv, LockInv, BusPCs
  <2>3. OneStaleDelivery'
    BY <2>1 DEF DueInv, OneStaleDelivery
  <2>4. \/ /\ pc' = [pc EXCEPT ![t] = "pub_push"] /\ UNCHANGED call
           /\ Addressed(call[t].msg, c) \/ Subscribed(c, call[t].msg.topic)
        \/ UNCHANGED pc
    BY <1>2 DEF PublishScan
  <2>5. pc'[t] \in {"pub_scan", "pub_push"}
    BY <1>0, <2>1, <2>4
  <2>6. pc'[t] = "pub_push" => Due(t, conns[call[t].i])'
    BY <1>0, <2>1, <2>4 DEF Due, Addressed, Subscribed
  <2> QED BY <2>1, <2>2, <2>3, <2>5, <2>6, OneSends DEF ChoiceOK
<1>3. CASE PublishPush(t)
  <2> DEFINE c == conns[call[t].i]
  <2>1. pc[t] = "pub_push" /\ pc[t] \in BusPCs /\ busLock = t /\ c \in Conns /\ Due(t, c)
    BY <1>3, PushPlace DEF PublishPush, Known, DueInv
  <2>2. Enqueue(t, c, "pub_scan") \/ Drop(t, c, "pub_scan")
    BY <1>3 DEF PublishPush
  <2> HIDE DEF c
  <2>3. OneStaleDelivery'
    <3>1. CASE Drop(t, c, "pub_scan")
      BY <3>1 DEF Drop, DueInv, OneStaleDelivery
    <3> QED BY <2>1, <2>2, <3>1, PushIsDue
  <2>4. pc'[t] = "pub_scan"
    <3>1. "pub_scan" \in PCs
      BY DEF PCs, BusPCs
    <3> QED BY <2>1, <2>2, <3>1, EnqueueEffect, DropEffect DEF Known, PcStep
  <2>5. busLock' = t
    BY <1>3, <2>1 DEF PublishPush
  <2> QED BY <2>3, <2>4, <2>5, OneSends DEF ChoiceOK
<1>4. CASE PublishEnd(t)
  BY <1>4, NobodySends DEF PublishEnd, Finish, connVars, DueInv, OneStaleDelivery
<1> QED BY <1>1, <1>2, <1>3, <1>4

LEMMA RouteRaces ==
  ASSUME Known, ChoiceInv, DueInv, IInv', NEW t \in Threads,
         \/ \E r \in Requests : RouteBegin(t, r)
         \/ RouteScan(t) \/ RouteChosen(t) \/ RoutePush(t) \/ RouteNobody(t)
  PROVE  ChoiceInv' /\ DueInv'
<1>0. /\ pc \in [Threads -> PCs] /\ call \in [Threads -> Calls] /\ call[t] \in Calls
      /\ NoCall \in Calls
  BY CallTyped DEF Known
<1>1. ASSUME NEW r \in Requests, RouteBegin(t, r)
      PROVE  ChoiceInv' /\ DueInv'
  <2>1. UNCHANGED <<stale, id, subs>> /\ busLock' = t
    BY <1>1 DEF RouteBegin, Begin, connVars
  <2>2. \/ call' = [call EXCEPT ![t] = [NoCall EXCEPT !.msg = Message(r)]]
        \/ \E k \in DOMAIN conns :
             /\ Addressed(Message(r), conns[k])
             /\ call' = [call EXCEPT ![t] =
                           [[NoCall EXCEPT !.best = conns[k]] EXCEPT !.msg = Message(r)]]
    BY <1>1 DEF RouteBegin, Begin
  <2>3. /\ call'[t].min_q = NoLimit
        /\ call'[t].best # NoConn => Addressed(call'[t].msg, call'[t].best)
    <3>1. CASE call' = [call EXCEPT ![t] = [NoCall EXCEPT !.msg = Message(r)]]
      BY <1>0, <3>1 DEF NoCall
    <3>2. ASSUME NEW k \in DOMAIN conns, Addressed(Message(r), conns[k]),
                 call' = [call EXCEPT ![t] =
                           [[NoCall EXCEPT !.best = conns[k]] EXCEPT !.msg = Message(r)]]
          PROVE  /\ call'[t].min_q = NoLimit
                 /\ Addressed(call'[t].msg, call'[t].best)
      <4> DEFINE f == [[NoCall EXCEPT !.best = conns[k]] EXCEPT !.msg = Message(r)]
      <4>1. f.min_q = NoLimit /\ f.msg = Message(r) /\ f.best = conns[k]
        BY DEF NoCall
      <4>2. call'[t] = f
        BY <1>0, <3>2
      <4> HIDE DEF f
      <4> QED BY <3>2, <4>1, <4>2
    <3> QED BY <2>2, <3>1, <3>2
  <2>4. pc'[t] \in {"route_scan", "route_push"}
    BY <1>0, <1>1 DEF RouteBegin, Begin
  <2>5. OneStaleDelivery'
    BY <2>1 DEF DueInv, OneStaleDelivery
  <2> QED BY <2>1, <2>3, <2>4, <2>5, OneSends DEF ChoiceOK, Due, Addressed
<1>2. CASE RouteScan(t)
  <2> DEFINE c == conns[call[t].i]
             n == queue[c].count
  <2>1. /\ UNCHANGED <<conns, busLock, pc, stale, subs, id, queue>> /\ pc[t] = "route_scan"
    BY <1>2 DEF RouteScan, connVars, busVars
  <2>2. busLock = t
    BY <2>1 DEF Known, IInv, LockInv, BusPCs
  <2>3. c \in Conns
    <3>1. call[t].i \in Nat /\ call[t].i >= 1 /\ call[t].i <= Len(conns)
      BY <1>0, <1>2, <2>1 DEF Known, IInv, CallInv, CallOK, BusPCs, Calls, RouteScan
    <3> QED BY <3>1, CallTyped DEF Known
  <2>4. \/ /\ Subscribed(c, call[t].msg.topic)
           /\ call' = [call EXCEPT ![t] =
                        [call[t] EXCEPT !.i = call[t].i + 1, !.best = c, !.min_q = n]]
        \/ call' = [call EXCEPT ![t] = [call[t] EXCEPT !.i = call[t].i + 1]]
    BY <1>2 DEF RouteScan
  <2> HIDE DEF c
  <2>5. n \in Int
    <3>1. queue[c] \in Ring
      BY <2>3 DEF Known, IInv, TypeOK
    <3> QED BY <3>1, QueueAssumption DEF Ring
  <2> HIDE DEF n
  <2>6. \/ /\ Subscribed(c, call[t].msg.topic)
           /\ call'[t].msg = call[t].msg /\ call'[t].best = c /\ call'[t].min_q = n
        \/ /\ call'[t].msg = call[t].msg /\ call'[t].best = call[t].best
           /\ call'[t].min_q = call[t].min_q
    <3> DEFINE a == [call[t] EXCEPT !.i = call[t].i + 1, !.best = c, !.min_q = n]
               b == [call[t] EXCEPT !.i = call[t].i + 1]
    <3>1. /\ a.msg = call[t].msg /\ a.best = c /\ a.min_q = n
          /\ b.msg = call[t].msg /\ b.best = call[t].best /\ b.min_q = call[t].min_q
      BY <1>0 DEF Calls
    <3>2. \/ Subscribed(c, call[t].msg.topic) /\ call' = [call EXCEPT ![t] = a]
          \/ call' = [call EXCEPT ![t] = b]
      BY <2>4
    <3> HIDE DEF a, b
    <3>3. \/ Subscribed(c, call[t].msg.topic) /\ call'[t] = a
          \/ call'[t] = b
      BY <1>0, <3>2
    <3> QED BY <3>1, <3>3
  <2>7. OneStaleDelivery'
    BY <2>1 DEF DueInv, OneStaleDelivery
  <2>8. ChoiceOK(t)'
    BY <2>1, <2>3, <2>5, <2>6 DEF ChoiceInv, ChoiceOK, n
  <2>9. call'[t].best # NoConn => Due(t, call[t].best)'
    BY <2>1, <2>6 DEF DueInv, Due, Addressed, Subscribed
  <2> QED BY <2>1, <2>2, <2>7, <2>8, <2>9, OneSends
<1>3. CASE RouteChosen(t)
  <2>1. /\ UNCHANGED <<conns, busLock, stale, subs, id, queue, call>>
        /\ pc[t] = "route_scan" /\ pc'[t] = "route_push"
    BY <1>0, <1>3 DEF RouteChosen, connVars, busVars
  <2>2. busLock = t
    BY <2>1 DEF Known, IInv, LockInv, BusPCs
  <2>3. OneStaleDelivery' /\ ChoiceOK(t)'
    BY <2>1 DEF DueInv, OneStaleDelivery, ChoiceInv, ChoiceOK
  <2>4. call'[t].best # NoConn => Due(t, call[t].best)'
    BY <2>1 DEF DueInv, Due, Addressed, Subscribed
  <2> QED BY <2>1, <2>2, <2>3, <2>4, OneSends
<1>4. CASE RoutePush(t)
  <2> DEFINE c == call[t].best
  <2>1. c \in Conns /\ Due(t, c)
    <3>1. pc[t] = "route_push" /\ c # NoConn
      BY <1>4 DEF RoutePush, Known, IInv, CallInv, CallOK, BusPCs
    <3> QED BY <1>0, <3>1 DEF DueInv, Calls
  <2>2. /\ Enqueue(t, c, "idle") \/ Drop(t, c, "idle")
        /\ busLock' = NoThread
    BY <1>4 DEF RoutePush, Finish
  <2> HIDE DEF c
  <2>3. OneStaleDelivery'
    <3>1. CASE Drop(t, c, "idle")
      BY <3>1 DEF Drop, DueInv, OneStaleDelivery
    <3> QED BY <2>1, <2>2, <3>1, PushIsDue
  <2> QED BY <2>2, <2>3, NobodySends
<1>5. CASE RouteNobody(t)
  BY <1>5, NobodySends DEF RouteNobody, Finish, connVars, DueInv, OneStaleDelivery
<1> QED BY <1>1, <1>2, <1>3, <1>4, <1>5

\* Receivers, clocks and subscriptions only stand by.
LEMMA OthersStandBy ==
  ASSUME Known, NEW t \in Threads,
         \/ BusInit(t) \/ DisconnectMark(t) \/ DisconnectWake(t)
         \/ \E c \in Conns, p \in Patterns : Subscribe(t, c, p) \/ Unsubscribe(t, c, p)
         \/ \E c \in Conns : RecvNow(t, c) \/ RecvTimed(t, c)
         \/ RecvStep(t) \/ DeadlinePasses(t) \/ RecvSpurious(t)
  PROVE  Bystander
<1>0. /\ pc \in [Threads -> PCs] /\ queue \in [Conns -> Ring]
      /\ subs \in [Conns -> Seq(Patterns)] /\ stale \in [Conns -> Nat]
      /\ \A c \in Conns : queue[c].count \in Nat
  <2>1. /\ pc \in [Threads -> PCs] /\ queue \in [Conns -> Ring]
        /\ subs \in [Conns -> Seq(Patterns)] /\ stale \in [Conns -> Nat]
    BY DEF Known, IInv, TypeOK
  <2> QED BY <2>1, QueueAssumption DEF Ring
<1>1. ASSUME UNCHANGED <<conns, call, id, queue, stale, subs>>,
             \A u \in Threads : pc'[u] \in BusPCs => pc'[u] = pc[u]
      PROVE  Bystander
  BY <1>0, <1>1 DEF Bystander, Subscribed
<1>2. ASSUME NEW c \in Conns, PopAndReturn(t, c)
      PROVE  Bystander
  <2>1. UNCHANGED <<conns, call, id, stale, subs>> /\ pc' = [pc EXCEPT ![t] = "idle"]
    BY <1>2 DEF PopAndReturn, busVars
  <2>2. \A u \in Threads : pc'[u] \in BusPCs => pc'[u] = pc[u]
    BY <1>0, <2>1 DEF BusPCs
  <2>3. queue' \in [Conns -> Ring]
    BY <1>2, PopEffect DEF Known
  <2>4. \A d \in Conns : queue'[d].count <= queue[d].count
    <3>1. CASE UNCHANGED queue
      BY <1>0, <3>1
    <3>2. CASE queue' = [queue EXCEPT ![c] = q_pop(queue[c])]
      BY <1>0, <3>2 DEF q_pop
    <3> QED BY <1>2, <3>1, <3>2 DEF PopAndReturn
  <2> QED BY <2>1, <2>2, <2>3, <2>4 DEF Bystander, Subscribed
<1>3. ASSUME NEW c \in Conns, RecvTest(t, c)
      PROVE  Bystander
  <2>1. CASE /\ pc' = [pc EXCEPT ![t] = "recv_block"]
             /\ UNCHANGED <<connVars, busVars, busLock, late, call, calls>>
    BY <1>0, <1>1, <2>1 DEF connVars, busVars, BusPCs
  <2> QED BY <1>2, <1>3, <2>1 DEF RecvTest
<1>4. CASE BusInit(t)
  BY <1>1, <1>4 DEF BusInit, connVars, thrVars
<1>5. CASE DisconnectMark(t) \/ DisconnectWake(t)
  BY <1>0, <1>1, <1>5 DEF DisconnectMark, DisconnectWake, connVars, busVars, BusPCs
<1>6. ASSUME NEW c \in Conns, NEW p \in Patterns, Subscribe(t, c, p)
      PROVE  Bystander
  <2>1. UNCHANGED <<conns, call, id, queue, stale, pc>>
    BY <1>6 DEF Subscribe, busVars, thrVars
  <2>2. subs' = subs \/ subs' = [subs EXCEPT ![c] = Append(subs[c], Stored[p])]
    BY <1>6 DEF Subscribe
  <2>3. ASSUME NEW d \in Conns, NEW k \in DOMAIN subs[d]
        PROVE  k \in DOMAIN subs'[d] /\ subs'[d][k] = subs[d][k]
    <3>1. CASE subs' = [subs EXCEPT ![c] = Append(subs[c], Stored[p])]
      <4>1. subs[c] \in Seq(Patterns) /\ Stored[p] \in Patterns
        BY <1>0, BusAssumption
      <4>2. \A j \in DOMAIN subs[c] :
              /\ j \in DOMAIN Append(subs[c], Stored[p])
              /\ Append(subs[c], Stored[p])[j] = subs[c][j]
        BY <4>1, AppendProperties
      <4> QED BY <1>0, <3>1, <4>2
    <3> QED BY <2>2, <3>1
  <2>4. \A d \in Conns, m \in Msg : Subscribed(d, m.topic) => Subscribed(d, m.topic)'
    BY <2>3 DEF Subscribed
  <2> QED BY <1>0, <2>1, <2>4 DEF Bystander
<1>7. ASSUME NEW c \in Conns, NEW p \in Patterns, Unsubscribe(t, c, p)
      PROVE  Bystander
  <2>1. UNCHANGED <<conns, call, id, queue, pc>>
    BY <1>7 DEF Unsubscribe, busVars, thrVars
  <2>2. CASE UNCHANGED <<subs, stale>>
    BY <1>0, <2>1, <2>2 DEF Bystander, Subscribed
  <2>3. CASE stale' = [stale EXCEPT ![c] = 0]
             /\ subs' \in {[subs EXCEPT ![c] = SwapRemove(subs[c], k)] : k \in DOMAIN subs[c]}
    <3>1. \A d \in Conns : stale'[d] = 0 \/ (stale'[d] = stale[d] /\ subs'[d] = subs[d])
      BY <1>0, <2>3
    <3>2. \A d \in Conns :
            \/ stale'[d] = 0
            \/ /\ stale'[d] = stale[d]
               /\ \A m \in Msg : Subscribed(d, m.topic) => Subscribed(d, m.topic)'
      BY <3>1 DEF Subscribed
    <3> QED BY <1>0, <2>1, <3>2 DEF Bystander
  <2> QED BY <1>7, <2>2, <2>3 DEF Unsubscribe
<1>8. CASE RecvStep(t)
  <2>1. CASE RecvBlock(t) \/ RecvTimeout(t)
    BY <1>0, <1>1, <2>1 DEF RecvBlock, RecvTimeout, connVars, busVars, BusPCs
  <2>2. CASE RecvAgain(t)
    BY <1>3, <2>2 DEF RecvAgain, Known, OnInv, RecvPCs
  <2>3. CASE RecvGiveUp(t)
    BY <1>2, <2>3 DEF RecvGiveUp, Known, OnInv, RecvPCs
  <2> QED BY <1>8, <2>1, <2>2, <2>3 DEF RecvStep
<1>9. CASE DeadlinePasses(t) \/ RecvSpurious(t)
  BY <1>0, <1>1, <1>9 DEF DeadlinePasses, RecvSpurious, connVars, busVars, BusPCs
<1>10. CASE \E c \in Conns : RecvNow(t, c) \/ RecvTimed(t, c)
  BY <1>2, <1>3, <1>10 DEF RecvNow, RecvTimed
<1> QED BY <1>4, <1>5, <1>6, <1>7, <1>8, <1>9, <1>10

\* The table changes only while nobody is inside publish or route.
LEMMA TableRaces ==
  ASSUME Known, DueInv, IInv', NEW t \in Threads,
         \/ BusDestroy(t)
         \/ \E c \in Conns : Disconnect(t, c) \/ \E i \in Ids : Connect(t, c, i)
  PROVE  ChoiceInv' /\ DueInv'
<1>1. stale \in [Conns -> Nat] /\ \A c \in Conns : stale[c] <= 1
  BY DEF Known, IInv, TypeOK, DueInv, OneStaleDelivery
<1>2. busLock' = NoThread
  <2>1. CASE BusDestroy(t)
    <3>1. \A u \in Threads : busLock # u
      BY <2>1 DEF BusDestroy, Known, IInv, LockInv, BusPCs
    <3> QED BY <2>1, <3>1 DEF BusDestroy, thrVars, Known, IInv, TypeOK
  <2>2. CASE \E c \in Conns : Disconnect(t, c) \/ \E i \in Ids : Connect(t, c, i)
    BY <2>2 DEF Disconnect, Connect, thrVars
  <2> QED BY <2>1, <2>2
<1>3. OneStaleDelivery'
  <2>1. stale' = stale \/ \E c \in Conns : stale' = [stale EXCEPT ![c] = 0]
    BY DEF BusDestroy, Disconnect, Connect, connVars
  <2> QED BY <1>1, <2>1 DEF OneStaleDelivery
<1> QED BY <1>2, <1>3, NobodySends

LEMMA NextRaces ==
  ASSUME Known, ChoiceInv, DueInv, [Next]_vars
  PROVE  ChoiceInv' /\ DueInv'
<1> DEFINE G == ChoiceInv' /\ DueInv'
<1>0. IInv'
  BY NextKeeps DEF Known
<1>1. UNCHANGED vars => G
  <2> SUFFICES ASSUME UNCHANGED vars PROVE Bystander
    BY BystanderKeeps
  <2>1. queue \in [Conns -> Ring] /\ \A c \in Conns : queue[c].count \in Nat
    <3>1. queue \in [Conns -> Ring]
      BY DEF Known, IInv, TypeOK
    <3> QED BY <3>1, QueueAssumption DEF Ring
  <2> QED BY <2>1 DEF vars, connVars, busVars, thrVars, Bystander, Subscribed
<1>2. ASSUME NEW t \in Threads
      PROVE  /\ BusInit(t) \/ BusDestroy(t) => G
             /\ DisconnectMark(t) \/ DisconnectWake(t) => G
             /\ \A c \in Conns : Disconnect(t, c) => G
             /\ \A c \in Conns, i \in Ids : Connect(t, c, i) => G
             /\ \A c \in Conns, p \in Patterns : Subscribe(t, c, p) \/ Unsubscribe(t, c, p) => G
             /\ \A r \in Requests : PublishBegin(t, r) \/ RouteBegin(t, r) => G
             /\ PublishScan(t) \/ PublishPush(t) \/ PublishEnd(t) => G
             /\ RouteScan(t) \/ RouteChosen(t) \/ RoutePush(t) \/ RouteNobody(t) => G
             /\ \A c \in Conns : RecvNow(t, c) \/ RecvTimed(t, c) => G
             /\ RecvStep(t) \/ DeadlinePasses(t) \/ RecvSpurious(t) => G
  BY <1>0, BystanderKeeps, OthersStandBy, TableRaces, PublishRaces, RouteRaces
<1> HIDE DEF G
<1>3. G
  BY <1>1, <1>2, NextCases
<1> QED BY <1>3 DEF G

LEMMA InitRaces == Init => ChoiceInv /\ DueInv
<1> SUFFICES ASSUME Init PROVE ChoiceInv /\ DueInv
  OBVIOUS
<1>1. \A t \in Threads : pc[t] = "idle"
  BY DEF Init
<1>2. OneStaleDelivery
  <2>1. \A c \in Conns : stale[c] = 0
    BY DEF Init
  <2> QED BY <2>1 DEF OneStaleDelivery
<1> QED BY <1>1, <1>2 DEF ChoiceInv, ChoiceOK, DueInv

LEMMA RacesInvariant == Spec => [](ChoiceInv /\ DueInv)
<1>1. Init => ChoiceInv /\ DueInv
  BY InitRaces
<1>2. Known /\ ChoiceInv /\ DueInv /\ [Next]_vars => (ChoiceInv /\ DueInv)'
  BY NextRaces
<1>3. Spec => []Known
  BY Invariant DEF Known
<1> QED BY <1>1, <1>2, <1>3, PTL DEF Spec

\* The queue hk_bus_route chose as the shortest is no longer when the message
\* is pushed than it was when its count was read.
THEOREM ChoiceStaysSafe == Spec => []ChoiceStillSafe
<1>1. ChoiceInv => ChoiceStillSafe
  BY DEF ChoiceInv, ChoiceOK, ChoiceStillSafe
<1> QED BY <1>1, RacesInvariant, PTL

\* At most one message arrives after the unsubscribe that made it unwanted.
THEOREM AtMostOneStaleDelivery == Spec => []OneStaleDelivery
<1>1. DueInv => OneStaleDelivery
  BY DEF DueInv
<1> QED BY <1>1, RacesInvariant, PTL

(***************************************************************************)
(* The walk of a publish over the table: with the memory of HKBusReach.    *)
(***************************************************************************)

PubPCs == {"pub_scan", "pub_push"}

ReachInv == NobodyIsSkipped /\ (~Publishing => offered = {})

LEMMA InitReach == ReachInit => ReachInv
<1> SUFFICES ASSUME ReachInit PROVE ReachInv
  OBVIOUS
<1>1. \A t \in Threads : pc[t] = "idle"
  BY DEF ReachInit, Init
<1> QED BY <1>1 DEF ReachInv, NobodyIsSkipped, ReachInit

\* No publish is in progress after the step: nothing is left to say.
LEMMA NobodyPublishes ==
  ASSUME Remember, \A t \in Threads : pc'[t] \notin PubPCs
  PROVE  ReachInv'
BY DEF ReachInv, NobodyIsSkipped, Publishing, Remember, PubPCs

\* The step is not one of the publish in progress, if there is one: connections
\* may become inactive and subscriptions change, the table may not.
LEMMA WalkStands ==
  ASSUME ReachInv, Remember, conns \in Seq(Conns),
         UNCHANGED <<conns, id>>,
         \A c \in Conns : active'[c] => active[c],
         \A t \in Threads : pc'[t] \in PubPCs => pc'[t] = pc[t] /\ call'[t] = call[t]
  PROVE  ReachInv'
<1>1. CASE \A t \in Threads : pc'[t] \notin PubPCs
  BY <1>1, NobodyPublishes
<1>2. CASE \E t \in Threads : pc'[t] \in PubPCs
  <2>1. Publishing' /\ Publishing
    BY <1>2 DEF Publishing, PubPCs
  <2>2. JustOffered = {}
    BY DEF JustOffered, PubPCs
  <2>3. offered' = offered /\ steady' = {c \in steady : subs'[c] = subs[c]}
    BY <2>1, <2>2 DEF Remember
  <2>4. ASSUME NEW m, NEW c \in Conns, Entitled(m, c)'
        PROVE  Entitled(m', c)
    BY <2>3, <2>4 DEF Entitled, Addressed, Subscribed
  <2>5. ASSUME NEW t \in Threads, pc'[t] \in PubPCs
        PROVE  WalkedTo(call[t].msg, call[t].i)'
    <3>1. pc[t] \in PubPCs /\ call'[t] = call[t]
      BY <2>5
    <3>2. WalkedTo(call[t].msg, call[t].i)
      BY <3>1 DEF ReachInv, NobodyIsSkipped, PubPCs
    <3>3. \A k \in DOMAIN conns : conns[k] \in Conns
      OBVIOUS
    <3>4. ASSUME NEW c \in Conns, Entitled(call[t].msg, c)'
          PROVE  Entitled(call[t].msg, c)
      BY <2>3, <3>1, <3>4 DEF Entitled, Addressed, Broadcast, Subscribed
    <3> QED BY <2>3, <3>1, <3>2, <3>3, <3>4 DEF WalkedTo
  <2> QED BY <2>1, <2>5 DEF ReachInv, NobodyIsSkipped, PubPCs
<1> QED BY <1>1, <1>2

\* Threads other than the owner of bus->lock publish nothing.
LEMMA OnlyTheOwner ==
  ASSUME IInv, NEW t \in Threads, busLock \in {t, NoThread}
  PROVE  \A u \in Threads \ {t} : pc[u] \notin PubPCs
BY BusAssumption DEF IInv, LockInv, BusPCs, PubPCs

LEMMA PublishBeginReaches ==
  ASSUME Known, IInv', ReachInv, Remember,
         NEW t \in Threads, NEW r \in Requests, PublishBegin(t, r)
  PROVE  ReachInv'
<1>1. "pub_scan" \in PCs /\ NoCall \in Calls /\ NoCall.i = 1
  BY CallTyped DEF PCs, BusPCs, NoCall, Known
<1>2. /\ call' = [call EXCEPT ![t] = [NoCall EXCEPT !.msg = Message(r)]]
      /\ busLock = NoThread /\ busLock' = t /\ PcStep(t, "pub_scan")
  BY <1>1, BeginEffect DEF PublishBegin, Known
<1>3. \A u \in Threads : pc[u] \notin PubPCs
  BY <1>2, BusAssumption DEF Known, IInv, LockInv, BusPCs, PubPCs
<1>4. offered = {} /\ JustOffered = {}
  BY <1>3 DEF ReachInv, Publishing, JustOffered, PubPCs
<1>5. offered' = {}
  BY <1>4 DEF Remember
<1>6. call'[t].i = 1
  <2>1. call \in [Threads -> Calls]
    BY CallTyped DEF Known
  <2> QED BY <1>1, <1>2, <2>1 DEF Calls
<1>7. \A k \in DOMAIN conns' : ~(k < 1)
  <2>1. conns' \in Seq(Conns)
    BY DEF IInv, TypeOK
  <2> QED BY <2>1
<1>8. WalkedTo(call[t].msg, call[t].i)'
  BY <1>5, <1>6, <1>7 DEF WalkedTo
<1>9. \A u \in Threads \ {t} : pc'[u] \notin PubPCs
  BY <1>2, BusAssumption DEF IInv, LockInv, BusPCs, PubPCs
<1> QED BY <1>5, <1>8, <1>9 DEF ReachInv, NobodyIsSkipped, PubPCs

\* What every turn of the loop leaves as it was.
LEMMA TurnKeeps ==
  ASSUME Known, Remember, ReachInv, NEW t \in Threads, pc[t] \in PubPCs,
         UNCHANGED <<conns, id, active, subs, busLock>>, IInv', pc'[t] \in PubPCs
  PROVE  /\ \A u \in Threads \ {t} : pc'[u] \notin PubPCs
         /\ steady' = steady /\ Publishing'
         /\ WalkedTo(call[t].msg, call[t].i)
         /\ call[t].i \in Nat /\ \A k \in DOMAIN conns : k \in Nat
<1>1. busLock = t
  BY DEF Known, IInv, LockInv, BusPCs, PubPCs
<1>2. \A u \in Threads \ {t} : pc'[u] \notin PubPCs
  BY <1>1, BusAssumption DEF IInv, LockInv, BusPCs, PubPCs
<1>3. Publishing'
  BY DEF Publishing, PubPCs
<1>4. steady' = steady
  <2>1. steady \subseteq steady /\ steady' = {c \in steady : subs'[c] = subs[c]}
    BY <1>3 DEF Remember
  <2> QED BY <2>1
<1>5. WalkedTo(call[t].msg, call[t].i)
  BY DEF ReachInv, NobodyIsSkipped, PubPCs
<1>6. call[t].i \in Nat /\ conns \in Seq(Conns)
  BY CallTyped DEF Known, Calls
<1> QED BY <1>2, <1>3, <1>4, <1>5, <1>6

\* The only publish in progress has walked as far as its index says.
LEMMA TurnEnds ==
  ASSUME NEW t \in Threads, \A u \in Threads \ {t} : pc'[u] \notin PubPCs,
         Publishing', WalkedTo(call[t].msg, call[t].i)'
  PROVE  ReachInv'
BY DEF ReachInv, NobodyIsSkipped, PubPCs

LEMMA PublishScanReaches ==
  ASSUME Known, IInv', ReachInv, Remember, NEW t \in Threads, PublishScan(t)
  PROVE  ReachInv'
<1> DEFINE i == call[t].i
           m == call[t].msg
<1>0. pc \in [Threads -> PCs] /\ call \in [Threads -> Calls]
  BY CallTyped DEF Known
<1>1. /\ pc[t] = "pub_scan" /\ UNCHANGED <<conns, id, active, subs, busLock>>
      /\ \/ pc' = [pc EXCEPT ![t] = "pub_push"] /\ UNCHANGED call
         \/ /\ ~(active[conns[i]] /\ (\/ Addressed(m, conns[i])
                                      \/ Broadcast(m) /\ Subscribed(conns[i], m.topic)))
            /\ call' = [call EXCEPT ![t].i = @ + 1] /\ UNCHANGED pc
  BY DEF PublishScan, connVars, busVars
<1>2. pc[t] \in PubPCs /\ pc'[t] \in PubPCs
  BY <1>0, <1>1 DEF PubPCs
<1>3. /\ \A u \in Threads \ {t} : pc'[u] \notin PubPCs
      /\ steady' = steady /\ Publishing' /\ WalkedTo(m, i)
      /\ i \in Nat /\ \A k \in DOMAIN conns : k \in Nat
  BY <1>1, <1>2, TurnKeeps
<1>4. JustOffered = {}
  <2>1. \A u \in Threads : ~(pc[u] = "pub_push" /\ pc'[u] = "pub_scan")
    BY <1>1, <1>3 DEF PubPCs
  <2> QED BY <2>1 DEF JustOffered
<1>5. offered' = offered
  BY <1>3, <1>4 DEF Remember
<1>6. CASE UNCHANGED call
  BY <1>1, <1>3, <1>5, <1>6, TurnEnds
     DEF WalkedTo, Entitled, Addressed, Broadcast, Subscribed
<1>7. CASE call' = [call EXCEPT ![t].i = @ + 1] /\ ~Entitled(m, conns[i])
  <2>1. call'[t].i = i + 1 /\ call'[t].msg = m
    BY <1>0, <1>7 DEF Calls
  <2>2. WalkedTo(m, i + 1)
    BY <1>3, <1>7 DEF WalkedTo
  <2>3. ASSUME NEW c, Entitled(call[t].msg, c)'
        PROVE  Entitled(m, c)
    BY <1>1, <1>3, <2>1, <2>3 DEF Entitled, Addressed, Broadcast, Subscribed
  <2>4. WalkedTo(call[t].msg, call[t].i)'
    BY <1>1, <1>5, <2>1, <2>2, <2>3 DEF WalkedTo
  <2> QED BY <1>3, <2>4, TurnEnds
<1> QED BY <1>1, <1>6, <1>7 DEF Entitled

LEMMA PublishPushReaches ==
  ASSUME Known, IInv', ReachInv, Remember, NEW t \in Threads, PublishPush(t)
  PROVE  ReachInv'
<1> DEFINE i == call[t].i
           m == call[t].msg
           c == conns[i]
<1>0. /\ pc[t] = "pub_push" /\ pc[t] \in BusPCs /\ "pub_scan" \in PCs
      /\ call \in [Threads -> Calls]
  BY CallTyped DEF PublishPush, PCs, BusPCs, Known
<1>1. c \in Conns /\ i \in DOMAIN conns
  BY <1>0, PushPlace, CallTyped DEF Known
<1>2. Enqueue(t, c, "pub_scan") \/ Drop(t, c, "pub_scan")
  BY DEF PublishPush
<1>3. PcStep(t, "pub_scan") /\ UNCHANGED <<conns, id, active, subs>>
  BY <1>0, <1>1, <1>2, EnqueueEffect, DropEffect DEF Known
<1>4. pc[t] \in PubPCs /\ pc'[t] \in PubPCs /\ pc'[t] = "pub_scan" /\ busLock' = busLock
  BY <1>0, <1>3 DEF PubPCs, PcStep, PublishPush
<1>5. /\ \A u \in Threads \ {t} : pc'[u] \notin PubPCs
      /\ steady' = steady /\ Publishing' /\ WalkedTo(m, i)
      /\ i \in Nat /\ \A k \in DOMAIN conns : k \in Nat
  BY <1>3, <1>4, TurnKeeps
<1>6. JustOffered = {c}
  <2>1. \A u \in Threads : pc[u] = "pub_push" /\ pc'[u] = "pub_scan" <=> u = t
    BY <1>0, <1>4, <1>5 DEF PubPCs
  <2> QED BY <2>1 DEF JustOffered
<1>7. offered' = offered \cup {c}
  BY <1>5, <1>6 DEF Remember
<1>8. call'[t].i = i + 1 /\ call'[t].msg = m
  <2>1. \/ call' = [call EXCEPT ![t].i = @ + 1, ![t].delivered = @ + 1]
        \/ call' = [call EXCEPT ![t].i = @ + 1]
    BY DEF PublishPush
  <2> QED BY <1>0, <2>1 DEF Calls
<1>9. \A k \in DOMAIN conns : conns[k] = c => k = i
  BY <1>1 DEF Known, IInv, TableInv, Injective
<1>10. ASSUME NEW k \in DOMAIN conns
       PROVE  IF k < i + 1 THEN Entitled(m, conns[k]) => conns[k] \in offered'
              ELSE conns[k] \notin offered'
  <2>1. IF k < i THEN Entitled(m, conns[k]) => conns[k] \in offered
        ELSE conns[k] \notin offered
    BY <1>5 DEF WalkedTo
  <2> HIDE DEF c, m, i
  <2> QED BY <1>5, <1>7, <1>9, <2>1 DEF c
<1>11. ASSUME NEW d, Entitled(call[t].msg, d)'
       PROVE  Entitled(m, d)
  BY <1>3, <1>5, <1>8, <1>11 DEF Entitled, Addressed, Broadcast, Subscribed
<1>12. WalkedTo(call[t].msg, call[t].i)'
  BY <1>3, <1>8, <1>10, <1>11 DEF WalkedTo
<1> QED BY <1>5, <1>12, TurnEnds

\* Route calls, and the end of a publish: nobody publishes afterwards.
LEMMA RouteReaches ==
  ASSUME Known, IInv', Remember, NEW t \in Threads,
         \/ \E r \in Requests : RouteBegin(t, r)
         \/ RouteScan(t) \/ RouteChosen(t) \/ RoutePush(t) \/ RouteNobody(t)
         \/ PublishEnd(t)
  PROVE  ReachInv'
<1>0. pc \in [Threads -> PCs]
  BY CallTyped DEF Known
<1>1. pc'[t] \notin PubPCs /\ busLock' \in {t, NoThread}
  <2>1. CASE \E r \in Requests : RouteBegin(t, r)
    BY <1>0, <2>1 DEF RouteBegin, Begin, PubPCs
  <2>2. CASE RouteScan(t) \/ RouteChosen(t)
    BY <1>0, <2>2 DEF RouteScan, RouteChosen, PubPCs, Known, IInv, LockInv, BusPCs
  <2>3. CASE RouteNobody(t) \/ PublishEnd(t)
    BY <1>0, <2>3 DEF RouteNobody, PublishEnd, Finish, PubPCs
  <2>4. CASE RoutePush(t)
    <3>1. /\ pc[t] = "route_push" /\ pc[t] \in BusPCs /\ "idle" \in PCs
          /\ call[t].best \in Conns
      BY <2>4, CallTyped DEF RoutePush, BusPCs, PCs, Known, IInv, CallInv, CallOK
    <3>2. PcStep(t, "idle") /\ busLock' = NoThread
      BY <2>4, <3>1, EnqueueEffect, DropEffect DEF RoutePush, Finish, Known
    <3> QED BY <3>2 DEF PcStep, PubPCs
  <2> QED BY <2>1, <2>2, <2>3, <2>4
<1>2. \A u \in Threads \ {t} : pc'[u] \notin PubPCs
  BY <1>1, BusAssumption DEF IInv, LockInv, BusPCs, PubPCs
<1> QED BY <1>1, <1>2, NobodyPublishes

\* The table changes only while nobody is inside publish or route.
LEMMA TableReaches ==
  ASSUME Known, IInv', Remember, NEW t \in Threads,
         \/ BusDestroy(t)
         \/ \E c \in Conns : Disconnect(t, c) \/ \E i \in Ids : Connect(t, c, i)
  PROVE  ReachInv'
<1>1. busLock' = NoThread
  <2>1. CASE BusDestroy(t)
    <3>1. \A u \in Threads : busLock # u
      BY <2>1 DEF BusDestroy, Known, IInv, LockInv, BusPCs
    <3> QED BY <2>1, <3>1 DEF BusDestroy, thrVars, Known, IInv, TypeOK
  <2>2. CASE \E c \in Conns : Disconnect(t, c) \/ \E i \in Ids : Connect(t, c, i)
    BY <2>2 DEF Disconnect, Connect, thrVars
  <2> QED BY <2>1, <2>2
<1>2. \A u \in Threads : pc'[u] \notin PubPCs
  BY <1>1, BusAssumption DEF IInv, LockInv, BusPCs, PubPCs
<1> QED BY <1>2, NobodyPublishes

\* The other steps leave the walk alone.
LEMMA OthersLetWalk ==
  ASSUME Known, ReachInv, Remember, NEW t \in Threads,
         \/ BusInit(t) \/ DisconnectMark(t) \/ DisconnectWake(t)
         \/ \E c \in Conns, p \in Patterns : Subscribe(t, c, p) \/ Unsubscribe(t, c, p)
         \/ \E c \in Conns : RecvNow(t, c) \/ RecvTimed(t, c)
         \/ RecvStep(t) \/ DeadlinePasses(t) \/ RecvSpurious(t)
  PROVE  ReachInv'
<1>1. /\ UNCHANGED <<conns, call, id>>
      /\ \A u \in Threads : pc'[u] \in PubPCs => pc'[u] = pc[u]
  BY OthersStandBy DEF Bystander, PubPCs, BusPCs
<1>2. \A c \in Conns : active'[c] => active[c]
  <2>1. active \in [Conns -> BOOLEAN] /\ conns \in Seq(Conns)
    BY DEF Known, IInv, TypeOK
  <2>2. CASE DisconnectMark(t)
    BY <2>1, <2>2 DEF DisconnectMark
  <2>3. CASE UNCHANGED active
    BY <2>3
  <2>4. DisconnectMark(t) \/ UNCHANGED active
    BY DEF BusInit, DisconnectWake, Subscribe, Unsubscribe, RecvNow, RecvTimed, RecvTest,
           PopAndReturn, RecvStep, RecvAgain, RecvBlock, RecvTimeout, RecvGiveUp,
           DeadlinePasses, RecvSpurious, connVars
  <2> QED BY <2>2, <2>3, <2>4
<1>3. conns \in Seq(Conns)
  BY DEF Known, IInv, TypeOK
<1> QED BY <1>1, <1>2, <1>3, WalkStands

LEMMA NextReaches ==
  ASSUME Known, ReachInv, [Next /\ Remember]_reachVars
  PROVE  ReachInv'
<1>1. CASE UNCHANGED reachVars
  BY <1>1 DEF reachVars, vars, connVars, busVars, thrVars, ReachInv, NobodyIsSkipped,
              Publishing, WalkedTo, Entitled, Addressed, Broadcast, Subscribed
<1>2. CASE Next /\ Remember
  <2>0. IInv'
    BY <1>2, NextKeeps DEF Known
  <2>1. UNCHANGED vars => ReachInv'
    <3>1. conns \in Seq(Conns)
      BY DEF Known, IInv, TypeOK
    <3> QED BY <1>2, <3>1, WalkStands DEF vars, connVars, busVars, thrVars
  <2>2. ASSUME NEW t \in Threads
        PROVE  /\ BusInit(t) \/ BusDestroy(t) => ReachInv'
               /\ DisconnectMark(t) \/ DisconnectWake(t) => ReachInv'
               /\ \A c \in Conns : Disconnect(t, c) => ReachInv'
               /\ \A c \in Conns, i \in Ids : Connect(t, c, i) => ReachInv'
               /\ \A c \in Conns, p \in Patterns :
                    Subscribe(t, c, p) \/ Unsubscribe(t, c, p) => ReachInv'
               /\ \A r \in Requests : PublishBegin(t, r) \/ RouteBegin(t, r) => ReachInv'
               /\ PublishScan(t) \/ PublishPush(t) \/ PublishEnd(t) => ReachInv'
               /\ RouteScan(t) \/ RouteChosen(t) \/ RoutePush(t) \/ RouteNobody(t)
                    => ReachInv'
               /\ \A c \in Conns : RecvNow(t, c) \/ RecvTimed(t, c) => ReachInv'
               /\ RecvStep(t) \/ DeadlinePasses(t) \/ RecvSpurious(t) => ReachInv'
    BY <1>2, <2>0, OthersLetWalk, TableReaches, RouteReaches, PublishBeginReaches,
       PublishScanReaches, PublishPushReaches
  <2> DEFINE G == ReachInv'
  <2>3. [Next]_vars
    BY <1>2
  <2> QED BY <2>1, <2>2, <2>3, NextCases
<1> QED BY <1>1, <1>2

\* A publish skips no connection and asks none twice, however many connections
\* come, go and change their subscriptions while it walks the table.
THEOREM PublishReachesAll == ReachSpec => []NobodyIsSkipped
<1>1. ReachInit => ReachInv /\ Init
  BY InitReach DEF ReachInit
<1>2. Known /\ ReachInv /\ [Next /\ Remember]_reachVars => ReachInv'
  BY NextReaches
<1>3. [Next /\ Remember]_reachVars => [Next]_vars
  BY DEF reachVars
<1>4. Spec => []Known
  BY Invariant DEF Known
<1>5. ReachInv => NobodyIsSkipped
  BY DEF ReachInv
<1> QED BY <1>1, <1>2, <1>3, <1>4, <1>5, PTL DEF ReachSpec, Spec

(***************************************************************************)
(* The counting argument of the condition variable: as many receivers are  *)
(* awake as messages are queued, whenever one waits.                       *)
(***************************************************************************)

\* The receivers of c that will look into its queue again without being woken.
Awake(c) == {t \in Threads : on[t] = c /\ pc[t] \in {"recv_woken", "recv_timedout"}}

Covered(c) == Waiters(c) # {} => queue[c].count <= Cardinality(Awake(c))

\* A receiver between its test and its wait still holds the lock under which it
\* found the queue empty, so nothing can be queued and signalled in between.
BlockOK(t) == pc[t] = "recv_block" => qLock[on[t]] = t /\ queue[on[t]].count = 0

WakeInv == (\A t \in Threads : BlockOK(t)) /\ (\A c \in Conns : Covered(c))

KnownAround == IInv /\ OnInv /\ IInv'

\* Every thread keeps its place in the waiting room of connection c.
Undisturbed(c) ==
  \A u \in Threads :
    /\ (pc'[u] = "recv_wait" /\ on'[u] = c) <=> (pc[u] = "recv_wait" /\ on[u] = c)
    /\ (pc'[u] \in {"recv_woken", "recv_timedout"} /\ on'[u] = c)
         <=> (pc[u] \in {"recv_woken", "recv_timedout"} /\ on[u] = c)

----------------------------------------------------------------------------
LEMMA Counts ==
  ASSUME IInv, NEW c \in Conns
  PROVE  queue[c].count \in Nat /\ IsFiniteSet(Awake(c)) /\ Cardinality(Awake(c)) \in Nat
<1>1. queue[c].count \in Nat
  <2>1. queue[c] \in Ring
    BY DEF IInv, TypeOK
  <2> QED BY <2>1, QueueAssumption DEF Ring
<1>2. Awake(c) \in SUBSET Threads
  BY DEF Awake
<1> QED BY <1>1, <1>2, ThreadsAssumption, FS_Subset, FS_CardinalityType

\* The queue got no longer and the waiting room is as it was.
LEMMA UndisturbedCovered ==
  ASSUME NEW c \in Conns, Covered(c), KnownAround, Undisturbed(c),
         queue'[c].count <= queue[c].count
  PROVE  Covered(c)'
<1>1. Waiters(c)' = Waiters(c) /\ Awake(c)' = Awake(c)
  BY DEF Waiters, Awake, Undisturbed
<1>2. queue[c].count \in Nat /\ Cardinality(Awake(c)) \in Nat
  BY Counts DEF KnownAround
<1>3. queue'[c].count \in Nat
  <2>1. queue'[c] \in Ring
    BY DEF KnownAround, IInv, TypeOK
  <2> QED BY <2>1, QueueAssumption DEF Ring
<1> QED BY <1>1, <1>2, <1>3 DEF Covered

\* An empty queue leaves nothing to wake anybody for.
LEMMA EmptyCovered ==
  ASSUME NEW c \in Conns, KnownAround, queue'[c].count = 0
  PROVE  Covered(c)'
<1>1. Awake(c)' \in SUBSET Threads
  BY DEF Awake
<1>2. Cardinality(Awake(c)') \in Nat
  BY <1>1, ThreadsAssumption, FS_Subset, FS_CardinalityType
<1> QED BY <1>2 DEF Covered

\* The waiter w stops waiting, signalled for at most one more message.
LEMMA WokenCovered ==
  ASSUME NEW c \in Conns, Covered(c), KnownAround, NEW w \in Waiters(c),
         Awake(c)' = Awake(c) \cup {w},
         queue'[c].count \in {queue[c].count, queue[c].count + 1}
  PROVE  Covered(c)'
<1>1. queue[c].count \in Nat /\ IsFiniteSet(Awake(c)) /\ Cardinality(Awake(c)) \in Nat
  BY Counts DEF KnownAround
<1>2. queue[c].count <= Cardinality(Awake(c))
  BY DEF Covered
<1>3. w \notin Awake(c)
  BY DEF Waiters, Awake
<1>4. Cardinality(Awake(c) \cup {w}) = Cardinality(Awake(c)) + 1
  BY <1>1, <1>3, FS_AddElement
<1> QED BY <1>1, <1>2, <1>4 DEF Covered

\* An awake receiver takes a message with it.
LEMMA TakenCovered ==
  ASSUME NEW c \in Conns, Covered(c), KnownAround, NEW t \in Awake(c),
         Waiters(c)' = Waiters(c), Awake(c)' = Awake(c) \ {t},
         queue'[c].count = queue[c].count - 1
  PROVE  Covered(c)'
<1>1. queue[c].count \in Nat /\ IsFiniteSet(Awake(c)) /\ Cardinality(Awake(c)) \in Nat
  BY Counts DEF KnownAround
<1>2. Cardinality(Awake(c) \ {t}) = Cardinality(Awake(c)) - 1
  BY <1>1, FS_RemoveElement
<1> QED BY <1>1, <1>2 DEF Covered

----------------------------------------------------------------------------
\* A step that changes nobody's place inside a recv and lengthens no queue.
Aside ==
  /\ UNCHANGED qLock
  /\ \A c \in Conns : queue'[c].count <= queue[c].count
  /\ \A u \in Threads :
       \/ pc'[u] = pc[u] /\ on'[u] = on[u]
       \/ pc'[u] \notin RecvPCs /\ pc[u] \notin RecvPCs

LEMMA AsideKeeps ==
  ASSUME KnownAround, WakeInv, Aside
  PROVE  WakeInv'
<1>1. ASSUME NEW c \in Conns PROVE Covered(c)'
  <2>1. Undisturbed(c)
    BY DEF Aside, Undisturbed, RecvPCs
  <2> QED BY <2>1, UndisturbedCovered DEF Aside, WakeInv
<1>2. ASSUME NEW u \in Threads, pc'[u] = "recv_block" PROVE BlockOK(u)'
  <2>1. pc[u] = "recv_block" /\ on'[u] = on[u] /\ on[u] \in Conns
    BY <1>2 DEF Aside, RecvPCs, KnownAround, OnInv
  <2>2. qLock[on[u]] = u /\ queue[on[u]].count = 0
    BY <2>1 DEF WakeInv, BlockOK
  <2>3. queue'[on[u]] \in Ring
    BY <2>1 DEF KnownAround, IInv, TypeOK
  <2>4. queue'[on[u]].count \in Nat
    BY <2>3, QueueAssumption DEF Ring
  <2>5. queue'[on[u]].count = 0
    BY <2>1, <2>2, <2>4 DEF Aside
  <2> QED BY <2>1, <2>2, <2>5 DEF Aside, BlockOK
<1> QED BY <1>1, <1>2 DEF WakeInv, BlockOK

\* One thread moves between places outside of recv; the queues stay.
LEMMA StepAside ==
  ASSUME KnownAround, UNCHANGED <<queue, qLock>>,
         \A u \in Threads :
           \/ pc'[u] = pc[u] /\ on'[u] = on[u]
           \/ pc'[u] \notin RecvPCs /\ pc[u] \notin RecvPCs
  PROVE  Aside
BY Counts DEF KnownAround, Aside

LEMMA ClientsAside ==
  ASSUME KnownAround, NEW t \in Threads,
         \/ BusInit(t) \/ BusDestroy(t) \/ DisconnectMark(t)
         \/ \E c \in Conns : Disconnect(t, c)
         \/ \E c \in Conns, p \in Patterns : Subscribe(t, c, p) \/ Unsubscribe(t, c, p)
  PROVE  Aside
<1>1. UNCHANGED <<queue, qLock>>
  BY DEF BusInit, BusDestroy, DisconnectMark, Disconnect, Subscribe, Unsubscribe,
         connVars, thrVars
<1>2. \A u \in Threads :
        \/ pc'[u] = pc[u] /\ on'[u] = on[u]
        \/ pc'[u] \notin RecvPCs /\ pc[u] \notin RecvPCs
  <2>1. pc \in [Threads -> PCs] /\ on \in [Threads -> Conns \cup {NoConn}]
    BY DEF KnownAround, IInv, TypeOK
  <2>2. CASE \E c \in Conns : Disconnect(t, c)
    BY <2>1, <2>2 DEF Disconnect, RecvPCs
  <2>3. CASE DisconnectMark(t)
    BY <2>1, <2>3 DEF DisconnectMark, RecvPCs
  <2> QED BY <2>2, <2>3 DEF BusInit, BusDestroy, Subscribe, Unsubscribe, thrVars
<1> QED BY <1>1, <1>2, StepAside

LEMMA ConnectAside ==
  ASSUME KnownAround, NEW t \in Threads, NEW c \in Conns, NEW i \in Ids, Connect(t, c, i)
  PROVE  Aside
<1>1. queue \in [Conns -> Ring] /\ \A d \in Conns : queue[d].count \in Nat
  BY Counts DEF KnownAround, IInv, TypeOK
<1>2. queue' = [queue EXCEPT ![c] = EmptyRing] /\ EmptyRing.count = 0
  BY DEF Connect, EmptyRing
<1>3. \A d \in Conns : queue'[d].count <= queue[d].count
  BY <1>1, <1>2
<1> QED BY <1>3 DEF Connect, thrVars, Aside

LEMMA SendersAside ==
  ASSUME KnownAround, NEW t \in Threads,
         \/ \E r \in Requests : PublishBegin(t, r) \/ RouteBegin(t, r)
         \/ PublishScan(t) \/ PublishEnd(t)
         \/ RouteScan(t) \/ RouteChosen(t) \/ RouteNobody(t)
         \/ \E c \in Conns, next \in {"pub_scan", "idle"} :
              pc[t] \in BusPCs /\ Drop(t, c, next) /\ UNCHANGED on
  PROVE  Aside
<1>1. UNCHANGED <<queue, qLock, on>>
  BY DEF PublishBegin, RouteBegin, PublishScan, PublishEnd, RouteScan, RouteChosen,
         RouteNobody, Drop, Finish, connVars
<1>2. pc[t] \in {"idle"} \cup BusPCs
  BY DEF PublishBegin, RouteBegin, Begin, PublishScan, PublishEnd, RouteScan,
         RouteChosen, RouteNobody, BusPCs
<1>3. \E next \in {"idle"} \cup BusPCs : pc' = [pc EXCEPT ![t] = next]
  <2>1. pc = [pc EXCEPT ![t] = pc[t]]
    BY DEF KnownAround, IInv, TypeOK
  <2> QED BY <1>2, <2>1
        DEF PublishBegin, RouteBegin, Begin, PublishScan, PublishEnd, RouteScan,
            RouteChosen, RouteNobody, Drop, BusPCs
<1>4. \A u \in Threads :
        \/ pc'[u] = pc[u] /\ on'[u] = on[u]
        \/ pc'[u] \notin RecvPCs /\ pc[u] \notin RecvPCs
  <2>1. pc \in [Threads -> PCs]
    BY DEF KnownAround, IInv, TypeOK
  <2> QED BY <1>1, <1>2, <1>3, <2>1 DEF BusPCs, RecvPCs
<1> QED BY <1>1, <1>4, StepAside

----------------------------------------------------------------------------
\* A push: either nobody waits, or one who waits is signalled.
LEMMA EnqueueKeeps ==
  ASSUME KnownAround, WakeInv, NEW t \in Threads, pc[t] \in BusPCs, NEW c \in Conns,
         NEW next \in {"pub_scan", "idle"}, Enqueue(t, c, next), UNCHANGED on
  PROVE  WakeInv'
<1>0. /\ pc \in [Threads -> PCs] /\ queue \in [Conns -> Ring]
      /\ \A d \in Conns : queue[d].count \in Nat
  BY Counts DEF KnownAround, IInv, TypeOK
<1>1. /\ queue' = [queue EXCEPT ![c] = q_push(queue[c], call[t].msg)]
      /\ qLock[c] = NoThread /\ qLock' = qLock
  BY DEF Enqueue
<1>2. queue'[c].count = queue[c].count + 1 /\ \A d \in Conns \ {c} : queue'[d] = queue[d]
  BY <1>0, <1>1 DEF q_push
<1>3. next \notin RecvPCs /\ pc[t] \notin RecvPCs
  BY DEF BusPCs, RecvPCs
<1>4. ASSUME NEW u \in Threads, pc'[u] = "recv_block" PROVE BlockOK(u)'
  <2>1. pc[u] = "recv_block"
    BY <1>0, <1>3, <1>4 DEF Enqueue, SignalAndGo, Waiters, RecvPCs
  <2>2. qLock[on[u]] = u /\ queue[on[u]].count = 0 /\ on[u] \in Conns
    BY <2>1 DEF WakeInv, BlockOK, KnownAround, OnInv, RecvPCs
  <2>3. on[u] # c
    BY <1>1, <2>2, BusAssumption
  <2> QED BY <1>1, <1>2, <2>2, <2>3 DEF BlockOK
<1>5. ASSUME NEW d \in Conns PROVE Covered(d)'
  <2>1. CASE Waiters(c) = {} /\ pc' = [pc EXCEPT ![t] = next]
    <3>1. Undisturbed(d) /\ Waiters(d)' = Waiters(d)
      BY <1>0, <1>3, <2>1 DEF Undisturbed, Waiters, RecvPCs
    <3>2. CASE d = c
      BY <2>1, <3>1, <3>2 DEF Covered
    <3>3. CASE d # c
      BY <1>0, <1>2, <3>1, <3>3, UndisturbedCovered DEF WakeInv
    <3> QED BY <3>2, <3>3
  <2>2. ASSUME NEW w \in Waiters(c), pc' = [pc EXCEPT ![t] = next, ![w] = "recv_woken"]
        PROVE  Covered(d)'
    <3>1. w \in Threads /\ pc[w] = "recv_wait" /\ on[w] = c /\ w # t
      BY <1>3 DEF Waiters, RecvPCs
    <3>2. CASE d = c
      <4>1. Awake(c)' = Awake(c) \cup {w}
        BY <1>0, <1>3, <2>2, <3>1 DEF Awake, RecvPCs
      <4> QED BY <1>2, <3>2, <4>1, WokenCovered DEF WakeInv
    <3>3. CASE d # c
      <4>1. Undisturbed(d)
        BY <1>0, <1>3, <2>2, <3>1, <3>3 DEF Undisturbed, RecvPCs
      <4> QED BY <1>0, <1>2, <3>3, <4>1, UndisturbedCovered DEF WakeInv
    <3> QED BY <3>2, <3>3
  <2> QED BY <2>1, <2>2 DEF Enqueue, SignalAndGo
<1> QED BY <1>4, <1>5 DEF WakeInv, BlockOK

LEMMA PushStepKeeps ==
  ASSUME KnownAround, WakeInv, NEW t \in Threads, PublishPush(t) \/ RoutePush(t)
  PROVE  WakeInv'
<1>1. \E c \in Conns, next \in {"pub_scan", "idle"} :
        /\ pc[t] \in BusPCs /\ UNCHANGED on
        /\ Enqueue(t, c, next) \/ Drop(t, c, next)
  <2>1. CASE PublishPush(t)
    <3>1. conns[call[t].i] \in Conns
      BY <2>1, PushPlace DEF PublishPush, KnownAround
    <3> QED BY <2>1, <3>1 DEF PublishPush, BusPCs
  <2>2. CASE RoutePush(t)
    <3>1. call[t].best \in Conns
      BY <2>2 DEF RoutePush, KnownAround, IInv, TypeOK, CallInv, CallOK, BusPCs, Calls
    <3> QED BY <2>2, <3>1 DEF RoutePush, BusPCs, Finish
  <2> QED BY <2>1, <2>2
<1> QED BY <1>1, EnqueueKeeps, SendersAside, AsideKeeps

----------------------------------------------------------------------------
\* What the end of a recv does to the count: one less, or it was nought.
LEMMA PopCount ==
  ASSUME KnownAround, NEW t \in Threads, NEW c \in Conns, PopAndReturn(t, c)
  PROVE  /\ \/ queue'[c].count = queue[c].count - 1
            \/ queue'[c].count = queue[c].count /\ queue[c].count = 0
         /\ \A d \in Conns \ {c} : queue'[d] = queue[d]
         /\ UNCHANGED qLock
         /\ pc'[t] = "idle" /\ on'[t] = NoConn
         /\ \A u \in Threads \ {t} : pc'[u] = pc[u] /\ on'[u] = on[u]
<1>1. /\ queue \in [Conns -> Ring]
      /\ pc \in [Threads -> PCs] /\ on \in [Threads -> Conns \cup {NoConn}]
  BY DEF KnownAround, IInv, TypeOK
<1>2. CASE queue' = [queue EXCEPT ![c] = q_pop(queue[c])]
  BY <1>1, <1>2 DEF PopAndReturn, Return, q_pop
<1>3. CASE Empty(queue[c]) /\ UNCHANGED queue
  BY <1>1, <1>3 DEF PopAndReturn, Return, Empty
<1> QED BY <1>2, <1>3 DEF PopAndReturn

LEMMA PopKeepsWake ==
  ASSUME KnownAround, WakeInv, NEW t \in Threads, NEW c \in Conns, PopAndReturn(t, c),
         pc[t] = "idle" \/ t \in Awake(c)
  PROVE  WakeInv'
<1>1. \A d \in Conns : queue[d].count \in Nat
  BY Counts DEF KnownAround
<1>2. CASE pc[t] = "idle"
  <2>1. Aside
    BY <1>1, <1>2, PopCount DEF Aside, RecvPCs
  <2> QED BY <2>1, AsideKeeps
<1>3. CASE t \in Awake(c)
  <2>1. on[t] = c /\ pc[t] \in {"recv_woken", "recv_timedout"}
    BY <1>3 DEF Awake
  <2>2. ASSUME NEW u \in Threads, pc'[u] = "recv_block" PROVE BlockOK(u)'
    <3>1. u # t /\ pc[u] = "recv_block" /\ on'[u] = on[u]
      BY <2>2, PopCount
    <3>2. qLock[on[u]] = u /\ queue[on[u]].count = 0 /\ on[u] \in Conns
      BY <3>1 DEF WakeInv, BlockOK, KnownAround, OnInv, RecvPCs
    <3>3. queue'[on[u]].count \in Nat
      <4>1. queue'[on[u]] \in Ring
        BY <3>2 DEF KnownAround, IInv, TypeOK
      <4> QED BY <4>1, QueueAssumption DEF Ring
    <3>4. queue'[on[u]].count = 0
      BY <1>1, <3>2, <3>3, PopCount
    <3> QED BY <3>1, <3>2, <3>4, PopCount DEF BlockOK
  <2>3. ASSUME NEW d \in Conns PROVE Covered(d)'
    <3>1. CASE d = c
      <4>1. CASE queue'[c].count = queue[c].count - 1
        <5>1. Waiters(c)' = Waiters(c) /\ Awake(c)' = Awake(c) \ {t}
          BY <2>1, BusAssumption, PopCount DEF Waiters, Awake
        <5> QED BY <1>3, <3>1, <4>1, <5>1, TakenCovered DEF WakeInv
      <4>2. CASE queue'[c].count = 0
        BY <3>1, <4>2, EmptyCovered
      <4> QED BY <4>1, <4>2, PopCount
    <3>2. CASE d # c
      <4>1. Undisturbed(d) /\ queue'[d].count <= queue[d].count
        BY <1>1, <2>1, <3>2, BusAssumption, PopCount DEF Undisturbed
      <4> QED BY <4>1, UndisturbedCovered DEF WakeInv
    <3> QED BY <3>1, <3>2
  <2> QED BY <2>2, <2>3 DEF WakeInv, BlockOK
<1> QED BY <1>2, <1>3

\* A step of thread t on c that leaves the queue of c empty, and moves no other.
LEMMA OnEmptyCovered ==
  ASSUME KnownAround, WakeInv, NEW t \in Threads, NEW c \in Conns,
         pc[t] = "idle" \/ on[t] = c, on'[t] = c,
         queue[c].count = 0, UNCHANGED queue,
         \A u \in Threads \ {t} : pc'[u] = pc[u] /\ on'[u] = on[u],
         NEW d \in Conns
  PROVE  Covered(d)'
<1>1. CASE d = c
  BY <1>1, EmptyCovered
<1>2. CASE d # c
  <2>1. Undisturbed(d)
    BY <1>2 DEF Undisturbed
  <2> QED BY <1>2, <2>1, Counts, UndisturbedCovered DEF WakeInv, KnownAround
<1> QED BY <1>1, <1>2

LEMMA TestKeepsWake ==
  ASSUME KnownAround, WakeInv, NEW t \in Threads, NEW c \in Conns, RecvTest(t, c),
         pc[t] = "idle" \/ t \in Awake(c)
  PROVE  WakeInv'
<1>1. CASE PopAndReturn(t, c)
  BY <1>1, PopKeepsWake
<1>2. CASE /\ Empty(queue[c]) /\ qLock[c] = NoThread
           /\ qLock' = [qLock EXCEPT ![c] = t]
           /\ pc' = [pc EXCEPT ![t] = "recv_block"]
           /\ on' = [on EXCEPT ![t] = c]
           /\ UNCHANGED queue
  <2>1. /\ pc \in [Threads -> PCs] /\ on \in [Threads -> Conns \cup {NoConn}]
        /\ qLock \in [Conns -> Threads \cup {NoThread}]
    BY DEF KnownAround, IInv, TypeOK
  <2>2. /\ pc'[t] = "recv_block" /\ on'[t] = c /\ qLock'[c] = t /\ queue[c].count = 0
        /\ \A u \in Threads \ {t} : pc'[u] = pc[u] /\ on'[u] = on[u]
    BY <1>2, <2>1 DEF Empty
  <2>3. \A d \in Conns : Covered(d)'
    BY <1>2, <2>2, OnEmptyCovered DEF Awake
  <2>4. ASSUME NEW u \in Threads, pc'[u] = "recv_block" PROVE BlockOK(u)'
    <3>1. CASE u = t
      BY <1>2, <2>2, <3>1 DEF BlockOK
    <3>2. CASE u # t
      <4>1. qLock[on[u]] = u /\ queue[on[u]].count = 0 /\ on[u] \in Conns
        BY <2>2, <2>4, <3>2 DEF WakeInv, BlockOK, KnownAround, OnInv, RecvPCs
      <4>2. on[u] # c
        BY <1>2, <4>1, BusAssumption
      <4> QED BY <1>2, <2>1, <2>2, <3>2, <4>1, <4>2 DEF BlockOK
    <3> QED BY <3>1, <3>2
  <2> QED BY <2>3, <2>4 DEF WakeInv, BlockOK
<1> QED BY <1>1, <1>2 DEF RecvTest, connVars

\* The wait releases the lock: the queue it was found empty under is empty still.
LEMMA BlockKeepsWake ==
  ASSUME KnownAround, WakeInv, NEW t \in Threads, RecvBlock(t)
  PROVE  WakeInv'
<1> DEFINE c == on[t]
<1>1. /\ pc \in [Threads -> PCs] /\ qLock \in [Conns -> Threads \cup {NoThread}]
      /\ pc[t] = "recv_block" /\ c \in Conns
  BY DEF RecvBlock, KnownAround, IInv, TypeOK, OnInv, RecvPCs
<1>2. qLock[c] = t /\ queue[c].count = 0
  BY <1>1 DEF WakeInv, BlockOK
<1>3. /\ qLock' = [qLock EXCEPT ![c] = NoThread] /\ UNCHANGED <<queue, on>>
      /\ pc'[t] # "recv_block" /\ \A u \in Threads \ {t} : pc'[u] = pc[u]
  BY <1>1 DEF RecvBlock, connVars
<1>4. \A d \in Conns : Covered(d)'
  BY <1>1, <1>2, <1>3, OnEmptyCovered
<1>5. ASSUME NEW u \in Threads, pc'[u] = "recv_block" PROVE BlockOK(u)'
  <2>1. u # t /\ pc[u] = "recv_block"
    BY <1>3, <1>5
  <2>2. qLock[on[u]] = u /\ queue[on[u]].count = 0 /\ on[u] \in Conns
    BY <2>1 DEF WakeInv, BlockOK, KnownAround, OnInv, RecvPCs
  <2>3. on[u] # c
    BY <1>2, <2>1, <2>2
  <2> QED BY <1>1, <1>3, <2>2, <2>3 DEF BlockOK
<1> QED BY <1>4, <1>5 DEF WakeInv, BlockOK

\* A waiter that wakes up by itself.
LEMMA WakeUpKeepsWake ==
  ASSUME KnownAround, WakeInv, NEW t \in Threads, RecvTimeout(t) \/ RecvSpurious(t)
  PROVE  WakeInv'
<1>1. pc \in [Threads -> PCs] /\ pc[t] = "recv_wait" /\ on[t] \in Conns
  BY DEF RecvTimeout, RecvSpurious, KnownAround, IInv, TypeOK, OnInv, RecvPCs
<1>2. /\ pc'[t] \in {"recv_woken", "recv_timedout"}
      /\ \A u \in Threads \ {t} : pc'[u] = pc[u]
      /\ UNCHANGED <<queue, qLock, on>>
  BY <1>1 DEF RecvTimeout, RecvSpurious, connVars
<1>3. ASSUME NEW d \in Conns PROVE Covered(d)'
  <2>1. CASE d = on[t]
    <3>1. t \in Waiters(d) /\ Awake(d)' = Awake(d) \cup {t}
      BY <1>1, <1>2, <2>1 DEF Waiters, Awake
    <3> QED BY <1>2, <3>1, WokenCovered DEF WakeInv
  <2>2. CASE d # on[t]
    <3>1. Undisturbed(d)
      BY <1>2, <2>2 DEF Undisturbed
    <3> QED BY <1>2, <3>1, Counts, UndisturbedCovered DEF WakeInv, KnownAround
  <2> QED BY <2>1, <2>2
<1>4. ASSUME NEW u \in Threads, pc'[u] = "recv_block" PROVE BlockOK(u)'
  <2>1. pc[u] = "recv_block"
    BY <1>2, <1>4
  <2> QED BY <1>2, <2>1 DEF WakeInv, BlockOK
<1> QED BY <1>3, <1>4 DEF WakeInv, BlockOK

LEMMA RecvKeepsWake ==
  ASSUME KnownAround, WakeInv, NEW t \in Threads,
         \/ \E c \in Conns : RecvNow(t, c) \/ RecvTimed(t, c)
         \/ RecvStep(t) \/ DeadlinePasses(t) \/ RecvSpurious(t)
  PROVE  WakeInv'
<1>1. CASE \E c \in Conns : RecvNow(t, c) \/ RecvTimed(t, c)
  BY <1>1, PopKeepsWake, TestKeepsWake DEF RecvNow, RecvTimed
<1>2. CASE RecvAgain(t) \/ RecvGiveUp(t)
  <2>1. on[t] \in Conns /\ t \in Awake(on[t])
    BY <1>2 DEF RecvAgain, RecvGiveUp, Awake, KnownAround, OnInv, RecvPCs
  <2> QED BY <1>2, <2>1, PopKeepsWake, TestKeepsWake DEF RecvAgain, RecvGiveUp
<1>3. CASE DeadlinePasses(t)
  BY <1>3, StepAside, AsideKeeps DEF DeadlinePasses, connVars
<1> QED BY <1>1, <1>2, <1>3, BlockKeepsWake, WakeUpKeepsWake DEF RecvStep

\* The broadcast of a disconnect leaves nobody waiting on its connection.
LEMMA DisconnectKeepsWake ==
  ASSUME KnownAround, WakeInv, NEW t \in Threads, DisconnectWake(t)
  PROVE  WakeInv'
<1>1. /\ pc \in [Threads -> PCs] /\ on \in [Threads -> Conns \cup {NoConn}]
      /\ pc[t] = "disc_wake" /\ on[t] \in Conns
  BY DEF DisconnectWake, KnownAround, IInv, TypeOK, OnInv, DiscPCs
<1>2. /\ UNCHANGED <<queue, qLock>> /\ pc'[t] = "idle"
      /\ \A u \in Threads \ {t} :
           on'[u] = on[u] /\ pc'[u] = IF u \in Waiters(on[t]) THEN "recv_woken" ELSE pc[u]
  BY <1>1 DEF DisconnectWake, Return, connVars
<1>3. ASSUME NEW d \in Conns PROVE Covered(d)'
  <2>1. CASE d = on[t]
    <3>1. Waiters(d)' = {}
      BY <1>2, <2>1 DEF Waiters
    <3> QED BY <3>1 DEF Covered
  <2>2. CASE d # on[t]
    <3>1. Undisturbed(d)
      BY <1>1, <1>2, <2>2 DEF Undisturbed, Waiters
    <3> QED BY <1>2, <3>1, Counts, UndisturbedCovered DEF WakeInv, KnownAround
  <2> QED BY <2>1, <2>2
<1>4. ASSUME NEW u \in Threads, pc'[u] = "recv_block" PROVE BlockOK(u)'
  <2>1. pc[u] = "recv_block" /\ on'[u] = on[u]
    BY <1>2, <1>4 DEF Waiters
  <2> QED BY <1>2, <2>1 DEF WakeInv, BlockOK
<1> QED BY <1>3, <1>4 DEF WakeInv, BlockOK

----------------------------------------------------------------------------
LEMMA NextKeepsWake ==
  ASSUME IInv, OnInv, WakeInv, [Next]_vars
  PROVE  WakeInv'
<1>0. KnownAround
  BY NextKeeps DEF KnownAround
<1>1. UNCHANGED vars => WakeInv'
  BY <1>0, StepAside, AsideKeeps DEF vars, connVars, thrVars
<1>2. ASSUME NEW t \in Threads
      PROVE  /\ BusInit(t) \/ BusDestroy(t) => WakeInv'
             /\ DisconnectMark(t) \/ DisconnectWake(t) => WakeInv'
             /\ \A c \in Conns : Disconnect(t, c) => WakeInv'
             /\ \A c \in Conns, i \in Ids : Connect(t, c, i) => WakeInv'
             /\ \A c \in Conns, p \in Patterns :
                  Subscribe(t, c, p) \/ Unsubscribe(t, c, p) => WakeInv'
             /\ \A r \in Requests : PublishBegin(t, r) \/ RouteBegin(t, r) => WakeInv'
             /\ PublishScan(t) \/ PublishPush(t) \/ PublishEnd(t) => WakeInv'
             /\ RouteScan(t) \/ RouteChosen(t) \/ RoutePush(t) \/ RouteNobody(t) => WakeInv'
             /\ \A c \in Conns : RecvNow(t, c) \/ RecvTimed(t, c) => WakeInv'
             /\ RecvStep(t) \/ DeadlinePasses(t) \/ RecvSpurious(t) => WakeInv'
  BY <1>0, AsideKeeps, ClientsAside, ConnectAside, SendersAside, PushStepKeeps,
     RecvKeepsWake, DisconnectKeepsWake
<1> QED BY <1>1, <1>2, NextCases

LEMMA InitWake == Init => WakeInv
<1> SUFFICES ASSUME Init PROVE WakeInv
  OBVIOUS
<1>1. \A t \in Threads : pc[t] = "idle"
  BY DEF Init
<1>2. \A c \in Conns : Waiters(c) = {}
  BY <1>1 DEF Waiters
<1> QED BY <1>1, <1>2 DEF WakeInv, BlockOK, Covered

\* No lost wakeup: whatever the order of pushes, waits, timeouts, spurious
\* wakeups and disconnects, the messages of a queue beside which receivers
\* sleep are at most the receivers already awake for them (the while loop of
\* hk_bus_recv, the signal of publish and route).
THEOREM WakeupsAreNotLost == Spec => []NoLostWakeup
<1>1. WakeInv => NoLostWakeup
  BY DEF WakeInv, Covered, NoLostWakeup, Awake
<1>2. Init => WakeInv
  BY InitWake
<1>3. IInv /\ OnInv /\ WakeInv /\ [Next]_vars => WakeInv'
  BY NextKeepsWake
<1> QED BY <1>1, <1>2, <1>3, Invariant, PTL DEF Spec
=============================================================================
