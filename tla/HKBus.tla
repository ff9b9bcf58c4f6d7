------------------------------- MODULE HKBus -------------------------------
(***************************************************************************)
(* The in-process message bus of src/reasoning/hyperkitty_bus.c, at the    *)
(* granularity of its locks.  A critical section under a connection's      *)
(* q_lock is one step, except in hk_bus_recv, which evaluates its loop     *)
(* condition and then starts to wait.  publish and route hold bus->lock    *)
(* over many such steps.  Threads are the callers of the API.              *)
(***************************************************************************)
EXTENDS HKQueue, FiniteSets

CONSTANTS
  Senders,   \* the threads that publish and route
  Receivers, \* the threads that receive
  Clients,   \* the threads that connect, subscribe, disconnect and run the bus
  NoThread,  \* owner of a free mutex
  Conns,     \* the hk_conn_t objects calloc can return
  NoConn,    \* the NULL connection
  Ids,       \* connection ids (strings)
  Patterns,  \* subscription topics: [stem : STRING, wild : BOOLEAN]
  Prefix,    \* the pairs <<stem, topic>> where stem is a prefix of topic
  Stored,    \* a pattern as subscribe stores it, cut to HK_MAX_TOPIC_LEN - 1
  Requests,  \* the messages callers send: [to, topic]
  MaxConns,  \* HK_MAX_CONNS, 256 in the code
  MaxSubs,   \* HK_MAX_SUBS_PER_CONN, 64 in the code
  MaxCalls   \* bound of the model: publish and route calls in a behaviour

Threads == Senders \cup Receivers \cup Clients

ASSUME BusAssumption ==
  /\ NoThread \notin Threads
  /\ NoConn \notin Conns
  /\ MaxConns \in Nat \ {0} /\ MaxSubs \in Nat \ {0} /\ MaxCalls \in Nat
  /\ Stored \in [Patterns -> Patterns]
  /\ Msg = [to : {r.to : r \in Requests}, topic : {r.topic : r \in Requests},
            corr : 1 .. MaxCalls]

\* A process has finitely many threads.
ASSUME ThreadsAssumption == IsFiniteSet(Threads)

VARIABLES
  running,   \* bus->running: between hk_bus_init and hk_bus_destroy
  conns,     \* bus->conns[0 .. conn_count - 1]
  made,      \* connection objects that are allocated
  id, active, subs, queue, drops,          \* fields of each hk_conn
  published, routed, dropped,              \* bus->total_...
  busLock,   \* owner of bus->lock
  qLock,     \* owner of each q_lock that is held over several steps
  pc,        \* where each thread is
  on,        \* the connection a thread's recv or disconnect works on
  late,      \* the deadline of a thread's timed recv has passed
  call,      \* locals of a thread's publish or route
  calls,     \* publish and route calls so far
  stale      \* history: messages queued on a connection after an unsubscribe
             \* left it without a subscription for them

connVars == <<id, active, subs, queue, drops, stale>>
busVars  == <<running, conns, made, published, routed, dropped>>
thrVars  == <<busLock, qLock, pc, on, late, call, calls>>
vars     == <<connVars, busVars, thrVars>>

BusPCs  == {"pub_scan", "pub_push", "route_scan", "route_push"}
RecvPCs == {"recv_block", "recv_wait", "recv_woken", "recv_timedout"}
DiscPCs == {"disc_mark", "disc_wake"}
PCs     == {"idle"} \cup BusPCs \cup RecvPCs \cup DiscPCs

NoMsg   == Unused
NoLimit == QMax + 1   \* UINT32_MAX: larger than every q_count

Calls == [msg : Msg \cup {NoMsg}, i : Nat, delivered : Nat,
          best : Conns \cup {NoConn}, min_q : 0 .. NoLimit]

NoCall == [msg |-> NoMsg, i |-> 1, delivered |-> 0, best |-> NoConn, min_q |-> NoLimit]

Members == {conns[k] : k \in DOMAIN conns}

\* Overwrite the k-th element with the last one and forget the last one.
SwapRemove(s, k) ==
  [j \in 1 .. Len(s) - 1 |-> IF j = k THEN s[Len(s)] ELSE s[j]]

----------------------------------------------------------------------------
topic_matches(p, topic) ==
  IF p.wild THEN <<p.stem, topic>> \in Prefix ELSE p.stem = topic

Subscribed(c, topic) ==
  \E k \in DOMAIN subs[c] : topic_matches(subs[c][k], topic)

Addressed(m, c) == m.to # "" /\ m.to = id[c]
Broadcast(m)    == m.to \in {"", "*"}

Waiters(c) == {t \in Threads : pc[t] = "recv_wait" /\ on[t] = c}

\* Mutant: the message is queued and nobody is signalled.
SignalAndGo_Silent(t, c, next) == pc' = [pc EXCEPT ![t] = next]

\* pthread_cond_signal wakes one waiter if there is one; thread t goes on at next.
SignalAndGo(t, c, next) ==
  \/ /\ Waiters(c) = {}
     /\ pc' = [pc EXCEPT ![t] = next]
  \/ \E w \in Waiters(c) :
       pc' = [pc EXCEPT ![t] = next, ![w] = "recv_woken"]

\* A call returns; which code it returns is said where it does.
Return(t) ==
  /\ on' = [on EXCEPT ![t] = NoConn]
  /\ late' = [late EXCEPT ![t] = FALSE]

----------------------------------------------------------------------------
Init ==
  /\ running = TRUE
  /\ conns = << >>
  /\ made = {}
  /\ id = [c \in Conns |-> ""]
  /\ active = [c \in Conns |-> FALSE]
  /\ subs = [c \in Conns |-> << >>]
  /\ queue = [c \in Conns |-> EmptyRing]
  /\ drops = [c \in Conns |-> 0]
  /\ published = 0 /\ routed = 0 /\ dropped = 0
  /\ busLock = NoThread
  /\ qLock = [c \in Conns |-> NoThread]
  /\ pc = [t \in Threads |-> "idle"]
  /\ on = [t \in Threads |-> NoConn]
  /\ late = [t \in Threads |-> FALSE]
  /\ call = [t \in Threads |-> NoCall]
  /\ calls = 0
  /\ stale = [c \in Conns |-> 0]

\* hk_bus_init of a destroyed bus: memset clears the counters.
BusInit(t) ==
  /\ pc[t] = "idle" /\ ~running
  /\ running' = TRUE
  /\ published' = 0 /\ routed' = 0 /\ dropped' = 0
  /\ UNCHANGED <<connVars, conns, made, thrVars>>

\* hk_bus_destroy frees the registered connections.  Its contract, which every
\* caller in the repository keeps: no other thread is inside the bus.
BusDestroy(t) ==
  /\ running
  /\ \A u \in Threads : pc[u] = "idle"
  /\ running' = FALSE
  /\ active' = [c \in Conns |-> active[c] /\ c \notin Members]
  /\ made' = made \ Members
  /\ conns' = << >>
  /\ UNCHANGED <<id, subs, queue, drops, stale, published, routed, dropped, thrVars>>

\* hk_bus_connect: calloc outside the lock, append under it.
Connect(t, c, i) ==
  /\ pc[t] = "idle" /\ running /\ busLock = NoThread
  /\ c \notin made
  /\ Len(conns) < MaxConns
  /\ made' = made \cup {c}
  /\ conns' = Append(conns, c)
  /\ id' = [id EXCEPT ![c] = i]
  /\ active' = [active EXCEPT ![c] = TRUE]
  /\ subs' = [subs EXCEPT ![c] = << >>]
  /\ queue' = [queue EXCEPT ![c] = EmptyRing]
  /\ drops' = [drops EXCEPT ![c] = 0]
  /\ stale' = [stale EXCEPT ![c] = 0]
  /\ UNCHANGED <<running, published, routed, dropped, thrVars>>

\* The connection table is full: -1, and the new object is freed again.
ConnectRefused(t) ==
  /\ pc[t] = "idle" /\ running /\ busLock = NoThread
  /\ Len(conns) >= MaxConns
  /\ UNCHANGED vars
----------------------------------------------------------------------------
\* Mutant: the table is changed without bus->lock.
Disconnect_NoLock(t, c) ==
  /\ pc[t] = "idle" /\ running /\ c \in made
  /\ conns' = IF c \in Members
              THEN SwapRemove(conns, CHOOSE k \in DOMAIN conns : conns[k] = c)
              ELSE conns
  /\ pc' = [pc EXCEPT ![t] = "disc_mark"]
  /\ on' = [on EXCEPT ![t] = c]
  /\ UNCHANGED <<connVars, running, made, published, routed, dropped,
                 busLock, qLock, late, call, calls>>

\* Mutant: a publish holds bus->lock for a turn of its loop, not for the loop.
Disconnect_BetweenTurns(t, c) ==
  /\ pc[t] = "idle" /\ running /\ c \in made
  /\ \A u \in Threads : pc[u] # "pub_push"
  /\ conns' = IF c \in Members
              THEN SwapRemove(conns, CHOOSE k \in DOMAIN conns : conns[k] = c)
              ELSE conns
  /\ pc' = [pc EXCEPT ![t] = "disc_mark"]
  /\ on' = [on EXCEPT ![t] = c]
  /\ UNCHANGED <<connVars, running, made, published, routed, dropped,
                 busLock, qLock, late, call, calls>>

\* hk_bus_disconnect, under bus->lock: swap the entry out of the table.
Disconnect(t, c) ==
  /\ pc[t] = "idle" /\ running /\ busLock = NoThread
  /\ c \in made
  /\ conns' = IF c \in Members
              THEN SwapRemove(conns, CHOOSE k \in DOMAIN conns : conns[k] = c)
              ELSE conns
  /\ pc' = [pc EXCEPT ![t] = "disc_mark"]
  /\ on' = [on EXCEPT ![t] = c]
  /\ UNCHANGED <<connVars, running, made, published, routed, dropped,
                 busLock, qLock, late, call, calls>>

\* ... then, holding no lock: conn->active = false,
DisconnectMark(t) ==
  /\ pc[t] = "disc_mark"
  /\ active' = [active EXCEPT ![on[t]] = FALSE]
  /\ pc' = [pc EXCEPT ![t] = "disc_wake"]
  /\ UNCHANGED <<id, subs, queue, drops, stale, busVars, busLock, qLock, on, late,
                 call, calls>>

\* ... and a broadcast that wakes the receivers waiting at this moment.
DisconnectWake(t) ==
  /\ pc[t] = "disc_wake"
  /\ pc' = [u \in Threads |-> IF u = t THEN "idle"
                              ELSE IF u \in Waiters(on[t]) THEN "recv_woken"
                              ELSE pc[u]]
  /\ Return(t)
  /\ UNCHANGED <<connVars, busVars, busLock, qLock, call, calls>>

----------------------------------------------------------------------------
\* hk_bus_subscribe.  The limit is tested before the duplicate.
Subscribe(t, c, p) ==
  /\ pc[t] = "idle" /\ c \in made /\ qLock[c] = NoThread
  /\ \/ /\ Len(subs[c]) >= MaxSubs                          \* returns -1
        /\ UNCHANGED subs
     \/ /\ Len(subs[c]) < MaxSubs
        /\ subs' = IF \E k \in DOMAIN subs[c] : subs[c][k] = p THEN subs
                   ELSE [subs EXCEPT ![c] = Append(@, Stored[p])]
  /\ UNCHANGED <<id, active, queue, drops, stale, busVars, thrVars>>

\* hk_bus_unsubscribe: swap the first equal entry out of the array.
Unsubscribe(t, c, p) ==
  /\ pc[t] = "idle" /\ c \in made /\ qLock[c] = NoThread
  /\ LET hits == {k \in DOMAIN subs[c] : subs[c][k] = p}
     IN  \/ /\ hits = {}
            /\ UNCHANGED <<subs, stale>>
         \/ \E k \in hits :
              /\ \A j \in hits : k <= j
              /\ subs' = [subs EXCEPT ![c] = SwapRemove(@, k)]
              /\ stale' = [stale EXCEPT ![c] = 0]
  /\ UNCHANGED <<id, active, queue, drops, busVars, thrVars>>
----------------------------------------------------------------------------
\* Queue call[t].msg on c and wake a receiver; thread t goes on at next.
Enqueue(t, c, next) ==
  /\ qLock[c] = NoThread
  /\ ~Full(queue[c])
  /\ queue' = [queue EXCEPT ![c] = q_push(@, call[t].msg)]
  /\ routed' = routed + 1
  /\ stale' = IF Addressed(call[t].msg, c) \/ Subscribed(c, call[t].msg.topic)
              THEN stale ELSE [stale EXCEPT ![c] = @ + 1]
  /\ SignalAndGo(t, c, next)
  /\ UNCHANGED <<id, active, subs, drops, running, conns, made, published, dropped, qLock>>

\* The queue of c is full: count the drop.
Drop(t, c, next) ==
  /\ qLock[c] = NoThread
  /\ Full(queue[c])
  /\ drops' = [drops EXCEPT ![c] = @ + 1]
  /\ dropped' = dropped + 1
  /\ pc' = [pc EXCEPT ![t] = next]
  /\ UNCHANGED <<id, active, subs, queue, stale, running, conns, made, published, routed, qLock>>

\* A call starts: it takes bus->lock and works on a fresh message.
Begin(t, m, next, first) ==
  /\ pc[t] = "idle" /\ running /\ busLock = NoThread
  /\ calls < MaxCalls
  /\ calls' = calls + 1
  /\ busLock' = t
  /\ pc' = [pc EXCEPT ![t] = next]
  /\ call' = [call EXCEPT ![t] = [first EXCEPT !.msg = m]]

\* A call ends: it releases bus->lock.
Finish(t) ==
  /\ busLock' = NoThread
  /\ call' = [call EXCEPT ![t] = NoCall]
  /\ UNCHANGED <<on, late, calls>>

Message(r) == [to |-> r.to, topic |-> r.topic, corr |-> calls + 1]

----------------------------------------------------------------------------
\* hk_bus_publish: fan out to every matching connection of the table.
PublishBegin(t, r) ==
  /\ Begin(t, Message(r), "pub_scan", NoCall)
  /\ published' = published + 1
  /\ UNCHANGED <<connVars, running, conns, made, routed, dropped, qLock, on, late>>

\* Mutant: the loop does not step over a connection that is not selected.
PublishScan_Stuck(t) ==
  /\ pc[t] = "pub_scan" /\ call[t].i <= Len(conns)
  /\ LET c == conns[call[t].i]
         m == call[t].msg
     IN  /\ active[c] /\ (Addressed(m, c) \/ (Broadcast(m) /\ Subscribed(c, m.topic)))
         /\ pc' = [pc EXCEPT ![t] = "pub_push"]
  /\ UNCHANGED <<connVars, busVars, busLock, qLock, on, late, call, calls>>

\* Mutant: a broadcast goes to everybody, whatever they subscribed to.
PublishScan_Everyone(t) ==
  /\ pc[t] = "pub_scan" /\ call[t].i <= Len(conns)
  /\ LET c == conns[call[t].i]
         m == call[t].msg
     IN  IF active[c] /\ (Addressed(m, c) \/ Broadcast(m))
         THEN pc' = [pc EXCEPT ![t] = "pub_push"] /\ UNCHANGED call
         ELSE call' = [call EXCEPT ![t].i = @ + 1] /\ UNCHANGED pc
  /\ UNCHANGED <<connVars, busVars, busLock, qLock, on, late, calls>>

\* One turn of the loop up to `matches`: only a broadcast reads the
\* subscriptions, under the q_lock, which it then releases.
PublishScan(t) ==
  /\ pc[t] = "pub_scan" /\ call[t].i <= Len(conns)
  /\ LET c == conns[call[t].i]
         m == call[t].msg
     IN  /\ (active[c] /\ ~Addressed(m, c) /\ Broadcast(m)) => qLock[c] = NoThread
         /\ IF active[c] /\ (Addressed(m, c) \/ (Broadcast(m) /\ Subscribed(c, m.topic)))
            THEN pc' = [pc EXCEPT ![t] = "pub_push"] /\ UNCHANGED call
            ELSE call' = [call EXCEPT ![t].i = @ + 1] /\ UNCHANGED pc
  /\ UNCHANGED <<connVars, busVars, busLock, qLock, on, late, calls>>

\* The rest of the turn, after taking the q_lock again.
PublishPush(t) ==
  /\ pc[t] = "pub_push"
  /\ LET c == conns[call[t].i]
     IN  \/ /\ Enqueue(t, c, "pub_scan")
            /\ call' = [call EXCEPT ![t].i = @ + 1, ![t].delivered = @ + 1]
         \/ /\ Drop(t, c, "pub_scan")
            /\ call' = [call EXCEPT ![t].i = @ + 1]
  /\ UNCHANGED <<busLock, on, late, calls>>

\* Returns 0 if the message was queued anywhere, else -1.
PublishEnd(t) ==
  /\ pc[t] = "pub_scan" /\ call[t].i > Len(conns)
  /\ pc' = [pc EXCEPT ![t] = "idle"]
  /\ Finish(t)
  /\ UNCHANGED <<connVars, busVars, qLock>>

----------------------------------------------------------------------------
\* hk_bus_route: the first connection whose id is the address, or else a scan.
RouteBegin(t, r) ==
  /\ LET m    == Message(r)
         hits == {k \in DOMAIN conns : active[conns[k]] /\ Addressed(m, conns[k])}
     IN  \/ /\ hits = {}
            /\ Begin(t, m, "route_scan", NoCall)
         \/ \E k \in hits :
              /\ \A j \in hits : k <= j
              /\ Begin(t, m, "route_push", [NoCall EXCEPT !.best = conns[k]])
  /\ UNCHANGED <<connVars, busVars, qLock, on, late>>

\* Mutant: the scan remembers the smallest count and the last subscriber.
RouteScan_LastOne(t) ==
  /\ pc[t] = "route_scan" /\ call[t].i <= Len(conns)
  /\ LET l == call[t]
         c == conns[l.i]
         n == queue[c].count
     IN  /\ active[c] => qLock[c] = NoThread
         /\ call' = [call EXCEPT ![t] =
              IF active[c] /\ Subscribed(c, l.msg.topic)
              THEN [l EXCEPT !.i = l.i + 1, !.best = c,
                             !.min_q = IF n < l.min_q THEN n ELSE l.min_q]
              ELSE [l EXCEPT !.i = l.i + 1]]
  /\ UNCHANGED <<connVars, busVars, busLock, qLock, pc, on, late, calls>>

\* One turn of the fallback loop, under the q_lock of the connection.
RouteScan(t) ==
  /\ pc[t] = "route_scan" /\ call[t].i <= Len(conns)
  /\ LET l == call[t]
         c == conns[l.i]
         n == queue[c].count
     IN  /\ active[c] => qLock[c] = NoThread
         /\ call' = [call EXCEPT ![t] =
              IF active[c] /\ Subscribed(c, l.msg.topic) /\ n < l.min_q
              THEN [l EXCEPT !.i = l.i + 1, !.best = c, !.min_q = n]
              ELSE [l EXCEPT !.i = l.i + 1]]
  /\ UNCHANGED <<connVars, busVars, busLock, qLock, pc, on, late, calls>>

RouteChosen(t) ==
  /\ pc[t] = "route_scan" /\ call[t].i > Len(conns)
  /\ call[t].best # NoConn
  /\ pc' = [pc EXCEPT ![t] = "route_push"]
  /\ UNCHANGED <<connVars, busVars, busLock, qLock, on, late, call, calls>>

RoutePush(t) ==
  /\ pc[t] = "route_push"
  /\ \/ Enqueue(t, call[t].best, "idle") /\ Finish(t)        \* returns 0
     \/ Drop(t, call[t].best, "idle") /\ Finish(t)           \* returns -1

\* Nobody to deliver to: -1.
RouteNobody(t) ==
  /\ pc[t] = "route_scan" /\ call[t].i > Len(conns)
  /\ call[t].best = NoConn
  /\ pc' = [pc EXCEPT ![t] = "idle"]
  /\ Finish(t)
  /\ UNCHANGED <<connVars, busVars, qLock>>

----------------------------------------------------------------------------
\* The end of hk_bus_recv: q_pop, unlock, and return 0 with
\* a message or 1 without.
PopAndReturn(t, c) ==
  /\ \/ /\ ~Empty(queue[c])
        /\ queue' = [queue EXCEPT ![c] = q_pop(@)]
     \/ /\ Empty(queue[c])
        /\ UNCHANGED queue
  /\ Return(t)
  /\ pc' = [pc EXCEPT ![t] = "idle"]
  /\ UNCHANGED <<id, active, subs, drops, stale, busVars, busLock, qLock, call, calls>>

\* timeout_ms = 0: never waits.
RecvNow(t, c) ==
  /\ pc[t] = "idle" /\ c \in made /\ qLock[c] = NoThread
  /\ PopAndReturn(t, c)

\* Mutant: every turn of the loop computes a new deadline.
RecvTest_NewDeadline(t, c) ==
  /\ qLock[c] = NoThread
  /\ \/ /\ ~Empty(queue[c]) \/ ~active[c]
        /\ PopAndReturn(t, c)
     \/ /\ Empty(queue[c]) /\ active[c]
        /\ qLock' = [qLock EXCEPT ![c] = t]
        /\ pc' = [pc EXCEPT ![t] = "recv_block"]
        /\ on' = [on EXCEPT ![t] = c]
        /\ late' = [late EXCEPT ![t] = FALSE]
        /\ UNCHANGED <<connVars, busVars, busLock, call, calls>>

\* The loop condition of a timed recv, evaluated holding the q_lock: return
\* with what there is, or keep the lock and go on to wait.
RecvTest(t, c) ==
  /\ qLock[c] = NoThread
  /\ \/ /\ ~Empty(queue[c]) \/ ~active[c]
        /\ PopAndReturn(t, c)
     \/ /\ Empty(queue[c]) /\ active[c]
        /\ qLock' = [qLock EXCEPT ![c] = t]
        /\ pc' = [pc EXCEPT ![t] = "recv_block"]
        /\ on' = [on EXCEPT ![t] = c]
        /\ UNCHANGED <<connVars, busVars, busLock, late, call, calls>>

RecvTimed(t, c) == pc[t] = "idle" /\ c \in made /\ RecvTest(t, c)

RecvAgain(t) == pc[t] = "recv_woken" /\ RecvTest(t, on[t])

\* pthread_cond_timedwait releases the q_lock and waits, in one step; with the
\* deadline already past it only releases the lock and reports ETIMEDOUT.
RecvBlock(t) ==
  /\ pc[t] = "recv_block"
  /\ qLock' = [qLock EXCEPT ![on[t]] = NoThread]
  /\ pc' = [pc EXCEPT ![t] = IF late[t] THEN "recv_timedout" ELSE "recv_wait"]
  /\ UNCHANGED <<connVars, busVars, busLock, on, late, call, calls>>

DeadlinePasses(t) ==
  /\ pc[t] \in RecvPCs /\ ~late[t]
  /\ late' = [late EXCEPT ![t] = TRUE]
  /\ UNCHANGED <<connVars, busVars, busLock, qLock, pc, on, call, calls>>

RecvTimeout(t) ==
  /\ pc[t] = "recv_wait" /\ late[t]
  /\ pc' = [pc EXCEPT ![t] = "recv_timedout"]
  /\ UNCHANGED <<connVars, busVars, busLock, qLock, on, late, call, calls>>

\* POSIX lets a wait return without a signal.
RecvSpurious(t) ==
  /\ pc[t] = "recv_wait"
  /\ pc' = [pc EXCEPT ![t] = "recv_woken"]
  /\ UNCHANGED <<connVars, busVars, busLock, qLock, on, late, call, calls>>

\* ETIMEDOUT breaks the loop once the wait has the q_lock again.
RecvGiveUp(t) ==
  /\ pc[t] = "recv_timedout" /\ qLock[on[t]] = NoThread
  /\ PopAndReturn(t, on[t])

----------------------------------------------------------------------------
Lifecycle(t) ==
  \/ BusInit(t)
  \/ BusDestroy(t)
  \/ ConnectRefused(t)
  \/ \E c \in Conns : Disconnect(t, c) \/ \E i \in Ids : Connect(t, c, i)
  \/ DisconnectMark(t)
  \/ DisconnectWake(t)

Interest(t) ==
  \E c \in Conns, p \in Patterns : Subscribe(t, c, p) \/ Unsubscribe(t, c, p)

\* A step of a publish or route in progress.
SendStep(t) ==
  \/ PublishScan(t) \/ PublishPush(t) \/ PublishEnd(t)
  \/ RouteScan(t) \/ RouteChosen(t) \/ RoutePush(t) \/ RouteNobody(t)

Send(t) ==
  \/ \E r \in Requests : PublishBegin(t, r) \/ RouteBegin(t, r)
  \/ SendStep(t)

\* A step of a timed recv in progress that the thread itself takes.
RecvStep(t) == RecvAgain(t) \/ RecvBlock(t) \/ RecvTimeout(t) \/ RecvGiveUp(t)

Receive(t) ==
  \/ \E c \in Conns : RecvNow(t, c) \/ RecvTimed(t, c)
  \/ RecvStep(t)
  \/ DeadlinePasses(t)
  \/ RecvSpurious(t)

Next ==
  \/ \E t \in Clients : Lifecycle(t) \/ Interest(t)
  \/ \E t \in Senders : Send(t)
  \/ \E t \in Receivers : Receive(t)

Spec == Init /\ [][Next]_vars

\* Threads inside a call keep running, clocks reach deadlines, and a thread
\* that keeps asking for a mutex that keeps being released gets it.
Fairness ==
  \A t \in Threads :
    /\ SF_vars(SendStep(t))
    /\ SF_vars(RecvStep(t))
    /\ WF_vars(DeadlinePasses(t))
    /\ WF_vars(DisconnectMark(t))
    /\ WF_vars(DisconnectWake(t))

FairSpec == Spec /\ Fairness

----------------------------------------------------------------------------
TypeOK ==
  /\ running \in BOOLEAN
  /\ conns \in Seq(Conns)
  /\ made \in SUBSET Conns
  /\ id \in [Conns -> Ids \cup {""}]
  /\ active \in [Conns -> BOOLEAN]
  /\ subs \in [Conns -> Seq(Patterns)]
  /\ queue \in [Conns -> Ring]
  /\ drops \in [Conns -> Nat]
  /\ published \in Nat /\ routed \in Nat /\ dropped \in Nat
  /\ busLock \in Threads \cup {NoThread}
  /\ qLock \in [Conns -> Threads \cup {NoThread}]
  /\ pc \in [Threads -> PCs]
  /\ on \in [Threads -> Conns \cup {NoConn}]
  /\ late \in [Threads -> BOOLEAN]
  /\ call \in [Threads -> Calls]
  /\ calls \in 0 .. MaxCalls
  /\ stale \in [Conns -> Nat]

\* The indices of every ring agree with its slots, whatever the order of the
\* threads (q_push and q_pop under the q_lock).
RingsConsistent == \A c \in Conns : WellFormed(queue[c])

\* No lost wakeup of a message: while receivers sleep on a connection, every
\* message in its queue has a receiver already woken for it, or timed out and
\* about to look (the while loop of hk_bus_recv, the signal in publish/route).
NoLostWakeup ==
  \A c \in Conns :
    Waiters(c) # {} =>
      queue[c].count <= Cardinality({t \in Threads :
                          on[t] = c /\ pc[t] \in {"recv_woken", "recv_timedout"}})

\* publish decides under one q_lock section and pushes under another.  An
\* unsubscribe that comes between still lets a message through, but never more
\* than one: bus->lock admits one publish or route at a time.
OneStaleDelivery == \A c \in Conns : stale[c] <= 1

\* The least-loaded choice of hk_bus_route uses counts read under locks it has
\* released.  They can only have fallen since: the chosen queue is no longer
\* than it was, so a drop means that every subscriber was full when read.
ChoiceStillSafe ==
  \A t \in Threads :
    pc[t] = "route_push" /\ call[t].min_q # NoLimit
      => queue[call[t].best].count <= call[t].min_q

\* The bus implements the mailboxes it stands for: the ring of each connection
\* is its FIFO, members are the open clients, and the totals count the puts.
Box == INSTANCE Mailboxes WITH
         open <- Members, box <- [c \in Conns |-> Contents(queue[c])], refused <- drops
ImplementsMailboxes == Box!Spec

\* A timed recv returns, even when it slipped into its wait after the only
\* broadcast of the disconnect that should have woken it.
RecvReturns == \A t \in Threads : pc[t] \in RecvPCs ~> pc[t] = "idle"

\* publish and route give bus->lock back although they stop for every q_lock.
SendReturns == \A t \in Threads : busLock = t ~> busLock # t
============================================================================
