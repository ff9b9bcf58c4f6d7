----------------------------- MODULE HKBusProofs -----------------------------
(***************************************************************************)
(* What HKQueue and HKBus keep for every number of threads, connections    *)
(* and messages.                                                           *)
(***************************************************************************)
EXTENDS HKBus, SequenceTheorems, TLAPS

(***************************************************************************)
(* The ring of one connection: its FIFO queue as a sequence.               *)
(***************************************************************************)

\* The slot index of the k-th message is a slot.
LEMMA SlotOfIsSlot ==
  ASSUME NEW q \in Ring, NEW k \in 1 .. QMax
  PROVE  SlotOf(q, k) \in Slots
BY QueueAssumption DEF SlotOf, Slots, Ring

\* Distinct queue positions occupy distinct slots.
LEMMA SlotOfInjective ==
  ASSUME NEW q \in Ring, NEW k \in 1 .. QMax, NEW j \in 1 .. QMax,
         SlotOf(q, k) = SlotOf(q, j)
  PROVE  k = j
BY QueueAssumption DEF SlotOf, Slots, Ring

\* The FIFO queue of a ring is a sequence of q_count entries.
LEMMA ContentsIsSeq ==
  ASSUME NEW q \in Ring
  PROVE  /\ Contents(q) \in Seq(Msg \cup {Unused})
         /\ Len(Contents(q)) = q.count
         /\ \A k \in 1 .. q.count : Contents(q)[k] = q.slot[SlotOf(q, k)]
<1>1. q.count \in Nat /\ \A k \in 1 .. q.count : k \in 1 .. QMax
  BY QueueAssumption DEF Ring
<1>2. \A k \in 1 .. q.count : q.slot[SlotOf(q, k)] \in Msg \cup {Unused}
  BY <1>1, SlotOfIsSlot DEF Ring
<1>3. QED BY <1>1, <1>2 DEF Contents

\* The empty ring is a well-formed ring that holds nothing.
LEMMA EmptyRingOk ==
  /\ EmptyRing \in Ring
  /\ WellFormed(EmptyRing)
  /\ Contents(EmptyRing) = << >>
<1>1. EmptyRing \in Ring
  BY QueueAssumption DEF EmptyRing, Ring, Slots
<1>2. WellFormed(EmptyRing)
  BY QueueAssumption DEF EmptyRing, WellFormed, Slots, SlotOf
<1>3. Contents(EmptyRing) = << >>
  BY QueueAssumption DEF EmptyRing, Contents
<1>4. QED BY <1>1, <1>2, <1>3

\* q_push keeps the indices consistent and appends the message to the FIFO
\* queue the ring stands for (hyperkitty_bus.c q_push).
LEMMA PushIsAppend ==
  ASSUME NEW q \in Ring, NEW m \in Msg, WellFormed(q), ~Full(q)
  PROVE  /\ q_push(q, m) \in Ring
         /\ WellFormed(q_push(q, m))
         /\ Contents(q_push(q, m)) = Append(Contents(q), m)
<1> DEFINE p == q_push(q, m)
<1>1. /\ q.count \in Nat /\ q.count + 1 \in 1 .. QMax
      /\ q.head \in Slots /\ q.tail \in Slots
      /\ \A k \in 1 .. q.count : k \in 1 .. QMax /\ k # q.count + 1
  BY QueueAssumption DEF Ring, Full
<1>2. p \in Ring
  BY <1>1, QueueAssumption DEF Ring, q_push, Slots, NextSlot
<1>3. q.tail = SlotOf(q, q.count + 1)
  BY <1>1, QueueAssumption DEF WellFormed, SlotOf, Slots
<1>4. \A k : SlotOf(p, k) = SlotOf(q, k)
  BY DEF SlotOf, q_push
<1>5. p.count = q.count + 1 /\ p.head = q.head
  BY DEF q_push
<1>6. \A s \in Slots : p.slot[s] = IF s = q.tail THEN m ELSE q.slot[s]
  BY DEF q_push, Ring
<1>7. WellFormed(p)
  <2>1. p.tail = IF p.head + p.count < QMax THEN p.head + p.count
                                            ELSE p.head + p.count - QMax
    BY <1>1, QueueAssumption DEF WellFormed, q_push, NextSlot, Slots
  <2>2. ASSUME NEW s \in Slots
        PROVE (p.slot[s] # Unused) <=> (\E k \in 1 .. p.count : s = SlotOf(p, k))
    <3>1. CASE s = q.tail
      BY <3>1, <1>1, <1>3, <1>4, <1>5, <1>6, QueueAssumption
    <3>2. CASE s # q.tail
      <4>1. (q.slot[s] # Unused) <=> (\E k \in 1 .. q.count : s = SlotOf(q, k))
        BY DEF WellFormed
      <4>2. \A k \in 1 .. p.count : s = SlotOf(q, k) => k \in 1 .. q.count
        BY <3>2, <1>1, <1>3, <1>5
      <4>3. \A k \in 1 .. q.count : k \in 1 .. p.count
        BY <1>1, <1>5
      <4> QED BY <4>1, <4>2, <4>3, <3>2, <1>4, <1>6
    <3> QED BY <3>1, <3>2
  <2> QED BY <2>1, <2>2 DEF WellFormed
<1>8. Contents(p) = Append(Contents(q), m)
  <2>1. ASSUME NEW k \in 1 .. q.count
        PROVE  p.slot[SlotOf(p, k)] = q.slot[SlotOf(q, k)]
    <3>1. SlotOf(q, k) \in Slots
      BY SlotOfIsSlot, <1>1
    <3>2. SlotOf(q, k) # q.tail
      BY SlotOfInjective, <1>1, <1>3
    <3> QED BY <3>1, <3>2, <1>4, <1>6
  <2>2. p.slot[SlotOf(p, q.count + 1)] = m
    BY <1>1, <1>3, <1>4, <1>6
  <2>3. /\ Contents(p) \in Seq(Msg \cup {Unused})
        /\ Len(Contents(p)) = q.count + 1
        /\ \A k \in 1 .. q.count + 1 : Contents(p)[k] = p.slot[SlotOf(p, k)]
    BY <1>2, <1>5, ContentsIsSeq
  <2>4. /\ Append(Contents(q), m) \in Seq(Msg \cup {Unused})
        /\ Len(Append(Contents(q), m)) = q.count + 1
        /\ \A k \in 1 .. q.count : Append(Contents(q), m)[k] = q.slot[SlotOf(q, k)]
        /\ Append(Contents(q), m)[q.count + 1] = m
    BY ContentsIsSeq, <1>1
  <2>5. \A k \in 1 .. q.count + 1 : Contents(p)[k] = Append(Contents(q), m)[k]
    BY <2>1, <2>2, <2>3, <2>4, <1>1
  <2> HIDE DEF p
  <2> QED BY <2>3, <2>4, <2>5, SeqEqual
<1> QED BY <1>2, <1>7, <1>8

\* q_pop keeps the indices consistent, returns the oldest message and removes
\* exactly it from the FIFO queue (hyperkitty_bus.c q_pop).
LEMMA PopIsTail ==
  ASSUME NEW q \in Ring, WellFormed(q), ~Empty(q)
  PROVE  /\ q_pop(q) \in Ring
         /\ WellFormed(q_pop(q))
         /\ Contents(q) # << >>
         /\ Front(q) = Head(Contents(q))
         /\ Contents(q_pop(q)) = Tail(Contents(q))
<1> DEFINE p == q_pop(q)
<1>1. /\ q.count \in Nat /\ q.count \in 1 .. QMax /\ 1 \in 1 .. QMax
      /\ q.head \in Slots /\ q.tail \in Slots
      /\ \A k \in 1 .. q.count - 1 : k \in 1 .. QMax /\ k + 1 \in 1 .. QMax /\ k + 1 # 1
      /\ \A k \in 1 .. q.count : k \in 1 .. QMax
  BY QueueAssumption DEF Ring, Empty
<1>2. p \in Ring
  BY <1>1, QueueAssumption DEF Ring, q_pop, Slots, NextSlot
<1>3. q.head = SlotOf(q, 1)
  BY <1>1, QueueAssumption DEF SlotOf, Slots
<1>4. \A k \in 1 .. q.count - 1 : SlotOf(p, k) = SlotOf(q, k + 1)
  BY <1>1, QueueAssumption DEF SlotOf, q_pop, NextSlot, Slots
<1>5. p.count = q.count - 1
  BY DEF q_pop
<1>6. \A s \in Slots : p.slot[s] = IF s = q.head THEN Unused ELSE q.slot[s]
  BY DEF q_pop, Ring
<1>7. WellFormed(p)
  <2>1. p.tail = IF p.head + p.count < QMax THEN p.head + p.count
                                            ELSE p.head + p.count - QMax
    BY <1>1, QueueAssumption DEF WellFormed, q_pop, NextSlot, Slots
  <2>2. ASSUME NEW s \in Slots
        PROVE (p.slot[s] # Unused) <=> (\E k \in 1 .. p.count : s = SlotOf(p, k))
    <3>0. (q.slot[s] # Unused) <=> (\E k \in 1 .. q.count : s = SlotOf(q, k))
      BY DEF WellFormed
    <3>1. CASE s = q.head
      <4>1. \A k \in 1 .. p.count : s # SlotOf(p, k)
        <5>1. SUFFICES ASSUME NEW k \in 1 .. p.count, s = SlotOf(p, k)
                       PROVE  FALSE
          OBVIOUS
        <5>2. k + 1 \in 1 .. QMax /\ 1 \in 1 .. QMax
          BY <1>1, <1>5
        <5>3. SlotOf(q, k + 1) = SlotOf(q, 1)
          BY <5>1, <3>1, <1>1, <1>3, <1>4, <1>5
        <5>4. k + 1 = 1
          BY <5>2, <5>3, SlotOfInjective
        <5> QED BY <5>4
      <4> QED BY <4>1, <3>1, <1>6
    <3>2. CASE s # q.head
      <4>1. (\E k \in 1 .. p.count : s = SlotOf(p, k))
              => (\E k \in 1 .. q.count : s = SlotOf(q, k))
        BY <1>1, <1>4, <1>5
      <4>2. ASSUME NEW k \in 1 .. q.count, s = SlotOf(q, k)
            PROVE  \E j \in 1 .. p.count : s = SlotOf(p, j)
        <5>1. k # 1
          BY <4>2, <3>2, <1>3
        <5>2. k - 1 \in 1 .. q.count - 1 /\ (k - 1) + 1 = k
          BY <5>1, <1>1
        <5>3. SlotOf(p, k - 1) = SlotOf(q, k)
          BY <5>2, <1>4
        <5> QED BY <5>2, <5>3, <4>2, <1>5
      <4> QED BY <4>1, <4>2, <3>0, <3>2, <1>6
    <3> QED BY <3>1, <3>2
  <2> QED BY <2>1, <2>2 DEF WellFormed
<1>8. /\ Contents(q) \in Seq(Msg \cup {Unused})
      /\ Len(Contents(q)) = q.count
      /\ \A k \in 1 .. q.count : Contents(q)[k] = q.slot[SlotOf(q, k)]
  BY ContentsIsSeq
<1>9. Contents(q) # << >> /\ Front(q) = Head(Contents(q))
  BY <1>1, <1>3, <1>8 DEF Front
<1>10. Contents(p) = Tail(Contents(q))
  <2>1. ASSUME NEW k \in 1 .. q.count - 1
        PROVE  p.slot[SlotOf(p, k)] = q.slot[SlotOf(q, k + 1)]
    <3>1. k + 1 \in 1 .. QMax /\ 1 \in 1 .. QMax
      BY <1>1
    <3>2. SlotOf(q, k + 1) \in Slots
      BY <3>1, SlotOfIsSlot
    <3>3. SlotOf(q, k + 1) # q.head
      BY <3>1, <1>3, SlotOfInjective
    <3> QED BY <3>2, <3>3, <1>4, <1>6
  <2>2. /\ Tail(Contents(q)) \in Seq(Msg \cup {Unused})
        /\ Len(Tail(Contents(q))) = q.count - 1
        /\ \A k \in 1 .. q.count - 1 : Tail(Contents(q))[k] = Contents(q)[k + 1]
    BY <1>1, <1>8, <1>9, HeadTailProperties
  <2>3. \A k \in 1 .. q.count - 1 : Contents(q)[k + 1] = q.slot[SlotOf(q, k + 1)]
    BY <1>1, <1>8
  <2>4. /\ Contents(p) \in Seq(Msg \cup {Unused})
        /\ Len(Contents(p)) = q.count - 1
        /\ \A k \in 1 .. q.count - 1 : Contents(p)[k] = p.slot[SlotOf(p, k)]
    BY <1>2, <1>5, ContentsIsSeq
  <2>5. \A k \in 1 .. q.count - 1 : Contents(p)[k] = Tail(Contents(q))[k]
    BY <2>1, <2>2, <2>3, <2>4
  <2> HIDE DEF p
  <2> QED BY <2>2, <2>4, <2>5, SeqEqual
<1> QED BY <1>2, <1>7, <1>9, <1>10

(***************************************************************************)
(* The bus.                                                                *)
(***************************************************************************)

Injective(s) == \A j, k \in DOMAIN s : s[j] = s[k] => j = k

\* bus->lock is owned exactly while its owner is inside publish or route.
LockInv == \A t \in Threads : pc[t] \in BusPCs <=> busLock = t

\* A connection is in the table once, and only while it is allocated.
TableInv == Injective(conns) /\ Members \subseteq made

\* The locals of a publish or route in progress point into the table.
CallOK(t) ==
  pc[t] \in BusPCs =>
    /\ call[t].msg \in Msg /\ call[t].i >= 1
    /\ pc[t] = "pub_push" => call[t].i <= Len(conns)
    /\ call[t].best # NoConn => call[t].best \in Members
    /\ pc[t] = "route_push" => call[t].best # NoConn

CallInv == \A t \in Threads : CallOK(t)

IInv == TypeOK /\ RingsConsistent /\ LockInv /\ TableInv /\ CallInv

\* Thread t goes on at next; the others keep their place, or wake up.
PcStep(t, next) ==
  /\ pc' \in [Threads -> PCs]
  /\ pc'[t] = next
  /\ \A u \in Threads \ {t} :
       pc'[u] = pc[u] \/ (pc[u] = "recv_wait" /\ pc'[u] = "recv_woken")

----------------------------------------------------------------------------
\* Removing by swapping with the last element shortens a sequence by one.
LEMMA SwapRemoveIsSeq ==
  ASSUME NEW S, NEW s \in Seq(S), NEW k \in DOMAIN s
  PROVE  /\ SwapRemove(s, k) \in Seq(S)
         /\ Len(SwapRemove(s, k)) = Len(s) - 1
         /\ \A j \in 1 .. Len(s) - 1 :
              SwapRemove(s, k)[j] = IF j = k THEN s[Len(s)] ELSE s[j]
<1>1. Len(s) \in Nat /\ k \in 1 .. Len(s) /\ \A j \in 1 .. Len(s) : s[j] \in S
  OBVIOUS
<1>2. Len(s) - 1 \in Nat /\ Len(s) \in 1 .. Len(s)
  BY <1>1
<1>3. \A j \in 1 .. Len(s) - 1 : j \in 1 .. Len(s)
  BY <1>1
<1> QED BY <1>1, <1>2, <1>3 DEF SwapRemove

\* ... and, where no element occurs twice, takes out exactly the chosen one.
LEMMA SwapRemoveTakesOne ==
  ASSUME NEW S, NEW s \in Seq(S), NEW k \in DOMAIN s, Injective(s)
  PROVE  LET r == SwapRemove(s, k)
         IN  /\ Injective(r)
             /\ {r[j] : j \in DOMAIN r} = {s[j] : j \in DOMAIN s} \ {s[k]}
<1> DEFINE r == SwapRemove(s, k)
           n == Len(s)
<1>1. n \in Nat /\ DOMAIN s = 1 .. n /\ k \in 1 .. n
  OBVIOUS
<1>2. /\ DOMAIN r = 1 .. n - 1
      /\ \A j \in 1 .. n - 1 : r[j] = IF j = k THEN s[n] ELSE s[j]
  <2>1. /\ r \in Seq(S)
        /\ Len(r) = n - 1
        /\ \A j \in 1 .. n - 1 : r[j] = IF j = k THEN s[n] ELSE s[j]
    BY SwapRemoveIsSeq
  <2> HIDE DEF r
  <2> QED BY <2>1, <1>1
<1>3. \A i, j \in 1 .. n : s[i] = s[j] => i = j
  BY <1>1 DEF Injective
<1> HIDE DEF r, n
<1>4. Injective(r)
  <2>1. \A j \in 1 .. n - 1 : j \in 1 .. n /\ j # n
    BY <1>1
  <2> QED BY <1>1, <1>2, <1>3, <2>1 DEF Injective
<1>5. ASSUME NEW j \in DOMAIN r
      PROVE  r[j] \in {s[i] : i \in 1 .. n} /\ r[j] # s[k]
  BY <1>1, <1>2, <1>3
<1>6. ASSUME NEW i \in 1 .. n, s[i] # s[k]
      PROVE  \E j \in DOMAIN r : r[j] = s[i]
  <2>1. CASE i = n
    <3>1. k \in 1 .. n - 1
      BY <2>1, <1>6, <1>1
    <3> QED BY <3>1, <2>1, <1>2
  <2>2. CASE i # n
    BY <2>2, <1>1, <1>2, <1>6
  <2> QED BY <2>1, <2>2
<1> QED BY <1>1, <1>4, <1>5, <1>6 DEF r

----------------------------------------------------------------------------
\* A step that leaves the table, the bus lock and the calls alone keeps what
\* is said of them, as long as no thread enters or leaves publish or route.
LEMMA QuietStep ==
  ASSUME IInv,
         UNCHANGED <<conns, made, busLock, call>>,
         \A u \in Threads : pc'[u] = pc[u] \/ (pc[u] \notin BusPCs /\ pc'[u] \notin BusPCs)
  PROVE  LockInv' /\ TableInv' /\ CallInv'
<1>1. Members' = Members
  BY DEF Members
<1>2. LockInv'
  BY DEF IInv, LockInv
<1>3. TableInv'
  BY <1>1 DEF IInv, TableInv, Injective
<1>4. CallInv'
  BY <1>1 DEF IInv, CallInv, CallOK
<1> QED BY <1>2, <1>3, <1>4

\* A step of one thread's publish or route: only its own locals and place change.
LEMMA SenderStep ==
  ASSUME IInv, NEW t \in Threads, NEW next \in PCs,
         UNCHANGED <<conns, made>>,
         busLock = t \/ busLock = NoThread,
         busLock' = IF next \in BusPCs THEN t ELSE NoThread,
         PcStep(t, next),
         \A u \in Threads \ {t} : call'[u] = call[u],
         CallOK(t)'
  PROVE  LockInv' /\ TableInv' /\ CallInv'
<1>1. Members' = Members
  BY DEF Members
<1>2. \A u \in Threads \ {t} : pc[u] \notin BusPCs /\ pc'[u] \notin BusPCs
  BY BusAssumption DEF IInv, LockInv, PcStep, BusPCs
<1>3. LockInv'
  BY <1>2, BusAssumption DEF LockInv, PcStep
<1>4. TableInv'
  BY <1>1 DEF IInv, TableInv, Injective
<1>5. CallInv'
  BY <1>2 DEF CallInv, CallOK
<1> QED BY <1>3, <1>4, <1>5

\* The message of a call is one a slot can hold.
LEMMA MessageIsMsg ==
  ASSUME NEW r \in Requests, calls \in 0 .. MaxCalls, calls < MaxCalls
  PROVE  Message(r) \in Msg
BY BusAssumption DEF Message

LEMMA SignalStep ==
  ASSUME pc \in [Threads -> PCs], NEW t \in Threads, pc[t] # "recv_wait",
         NEW c, NEW next \in PCs, SignalAndGo(t, c, next)
  PROVE  PcStep(t, next)
<1>1. CASE pc' = [pc EXCEPT ![t] = next]
  BY <1>1 DEF PcStep
<1>2. ASSUME NEW w \in Waiters(c), pc' = [pc EXCEPT ![t] = next, ![w] = "recv_woken"]
      PROVE  PcStep(t, next)
  <2>1. w \in Threads /\ pc[w] = "recv_wait" /\ w # t
    BY <1>2 DEF Waiters
  <2>2. "recv_woken" \in PCs
    BY DEF PCs, RecvPCs
  <2> QED BY <1>2, <2>1, <2>2 DEF PcStep
<1> QED BY <1>1, <1>2 DEF SignalAndGo

\* What a successful push does: one message at the end of one mailbox.
LEMMA EnqueueEffect ==
  ASSUME IInv, NEW t \in Threads, pc[t] \in BusPCs, NEW c \in Conns, NEW next \in PCs,
         Enqueue(t, c, next)
  PROVE  /\ queue' \in [Conns -> Ring] /\ RingsConsistent'
         /\ queue[c].count < QMax
         /\ Contents(queue'[c]) = Append(Contents(queue[c]), call[t].msg)
         /\ \A d \in Conns \ {c} : queue'[d] = queue[d]
         /\ routed' = routed + 1 /\ stale' \in [Conns -> Nat]
         /\ PcStep(t, next)
         /\ UNCHANGED <<id, active, subs, drops, running, conns, made, published,
                        dropped, qLock>>
<1> DEFINE m == call[t].msg
<1>1. /\ queue \in [Conns -> Ring] /\ WellFormed(queue[c]) /\ ~Full(queue[c])
      /\ m \in Msg
      /\ queue' = [queue EXCEPT ![c] = q_push(queue[c], m)]
  BY DEF IInv, TypeOK, RingsConsistent, CallInv, CallOK, Enqueue
<1>2. /\ q_push(queue[c], m) \in Ring
      /\ WellFormed(q_push(queue[c], m))
      /\ Contents(q_push(queue[c], m)) = Append(Contents(queue[c]), m)
  BY <1>1, PushIsAppend
<1>3. /\ queue' \in [Conns -> Ring]
      /\ queue'[c] = q_push(queue[c], m)
      /\ \A d \in Conns \ {c} : queue'[d] = queue[d]
  BY <1>1, <1>2
<1>4. RingsConsistent'
  BY <1>2, <1>3 DEF IInv, RingsConsistent
<1>5. queue[c].count < QMax
  BY <1>1, QueueAssumption DEF Full, Ring
<1>6. stale' \in [Conns -> Nat]
  <2>1. stale' = stale \/ stale' = [stale EXCEPT ![c] = @ + 1]
    BY DEF Enqueue
  <2>2. stale \in [Conns -> Nat]
    BY DEF IInv, TypeOK
  <2> QED BY <2>1, <2>2
<1>7. PcStep(t, next)
  <2>1. pc[t] # "recv_wait" /\ pc \in [Threads -> PCs]
    BY DEF BusPCs, IInv, TypeOK
  <2> QED BY <2>1, SignalStep DEF Enqueue
<1>8. /\ routed' = routed + 1
      /\ UNCHANGED <<id, active, subs, drops, running, conns, made, published,
                     dropped, qLock>>
  BY DEF Enqueue
<1> QED BY <1>2, <1>3, <1>4, <1>5, <1>6, <1>7, <1>8

\* What a push on a full queue does: it counts the drop.
LEMMA DropEffect ==
  ASSUME IInv, NEW t \in Threads, NEW c \in Conns, NEW next \in PCs,
         Drop(t, c, next)
  PROVE  /\ queue[c].count = QMax
         /\ drops' = [drops EXCEPT ![c] = @ + 1] /\ drops' \in [Conns -> Nat]
         /\ dropped' = dropped + 1
         /\ PcStep(t, next)
         /\ UNCHANGED <<id, active, subs, queue, stale, running, conns, made,
                        published, routed, qLock>>
<1>0. queue[c] \in Ring /\ drops \in [Conns -> Nat] /\ pc \in [Threads -> PCs]
  BY DEF IInv, TypeOK
<1>1. queue[c].count = QMax
  <2>1. Full(queue[c]) /\ queue[c].count \in 0 .. QMax
    BY <1>0 DEF Drop, Ring
  <2> QED BY <2>1, QueueAssumption DEF Full
<1>2. PcStep(t, next)
  BY <1>0 DEF Drop, PcStep
<1>3. drops' = [drops EXCEPT ![c] = @ + 1] /\ drops' \in [Conns -> Nat]
  BY <1>0 DEF Drop
<1> QED BY <1>1, <1>2, <1>3 DEF Drop

\* What the end of a recv does: the oldest message is gone, if there was one.
LEMMA PopEffect ==
  ASSUME IInv, NEW t \in Threads, NEW c \in Conns, PopAndReturn(t, c)
  PROVE  /\ queue' \in [Conns -> Ring] /\ RingsConsistent'
         /\ \/ /\ Contents(queue[c]) # << >>
               /\ Contents(queue'[c]) = Tail(Contents(queue[c]))
            \/ UNCHANGED queue
         /\ \A d \in Conns \ {c} : queue'[d] = queue[d]
         /\ PcStep(t, "idle")
         /\ on' \in [Threads -> Conns \cup {NoConn}] /\ late' \in [Threads -> BOOLEAN]
         /\ UNCHANGED <<id, active, subs, drops, stale, busVars, busLock, qLock, call, calls>>
<1>1. queue \in [Conns -> Ring] /\ WellFormed(queue[c]) /\ RingsConsistent
  BY DEF IInv, TypeOK, RingsConsistent
<1>2. PcStep(t, "idle")
  BY DEF IInv, TypeOK, PopAndReturn, PcStep, PCs
<1>3. /\ on' \in [Threads -> Conns \cup {NoConn}] /\ late' \in [Threads -> BOOLEAN]
      /\ UNCHANGED <<id, active, subs, drops, stale, busVars, busLock, qLock, call, calls>>
  BY DEF IInv, TypeOK, PopAndReturn, Return
<1>4. CASE ~Empty(queue[c]) /\ queue' = [queue EXCEPT ![c] = q_pop(queue[c])]
  <2>1. /\ q_pop(queue[c]) \in Ring
        /\ WellFormed(q_pop(queue[c]))
        /\ Contents(queue[c]) # << >>
        /\ Contents(q_pop(queue[c])) = Tail(Contents(queue[c]))
    BY <1>1, <1>4, PopIsTail
  <2>2. /\ queue' \in [Conns -> Ring]
        /\ queue'[c] = q_pop(queue[c])
        /\ \A d \in Conns \ {c} : queue'[d] = queue[d]
    BY <1>1, <1>4, <2>1
  <2>3. RingsConsistent'
    BY <1>1, <2>1, <2>2 DEF RingsConsistent
  <2> QED BY <1>2, <1>3, <2>1, <2>2, <2>3
<1>5. CASE UNCHANGED queue
  BY <1>1, <1>2, <1>3, <1>5 DEF RingsConsistent
<1> QED BY <1>4, <1>5 DEF PopAndReturn

----------------------------------------------------------------------------
(***************************************************************************)
(* Every action keeps IInv.                                                *)
(***************************************************************************)
LEMMA StutterKeeps ==
  ASSUME IInv, UNCHANGED vars
  PROVE  IInv'
<1> USE DEF vars, connVars, busVars, thrVars
<1>1. TypeOK' /\ RingsConsistent'
  BY DEF IInv, TypeOK, RingsConsistent
<1>2. LockInv' /\ TableInv' /\ CallInv'
  BY QuietStep
<1> QED BY <1>1, <1>2 DEF IInv

LEMMA BusInitKeeps ==
  ASSUME IInv, NEW t \in Threads, BusInit(t)
  PROVE  IInv'
<1> USE DEF BusInit, connVars, thrVars
<1>1. TypeOK' /\ RingsConsistent'
  BY DEF IInv, TypeOK, RingsConsistent
<1>2. LockInv' /\ TableInv' /\ CallInv'
  BY QuietStep
<1> QED BY <1>1, <1>2 DEF IInv

LEMMA BusDestroyKeeps ==
  ASSUME IInv, NEW t \in Threads, BusDestroy(t)
  PROVE  IInv'
<1> USE DEF BusDestroy, thrVars
<1>1. TypeOK'
  <2>1. conns' \in Seq(Conns) /\ made' \in SUBSET Conns
    <3>1. made \in SUBSET Conns
      BY DEF IInv, TypeOK
    <3> QED BY <3>1
  <2>2. active' \in [Conns -> BOOLEAN]
    <3>1. \A c \in Conns : (active[c] /\ c \notin Members) \in BOOLEAN
      OBVIOUS
    <3> QED BY <3>1
  <2> QED BY <2>1, <2>2 DEF IInv, TypeOK
<1>2. RingsConsistent'
  BY DEF IInv, RingsConsistent
<1>3. LockInv'
  BY DEF IInv, LockInv
<1>4. TableInv'
  BY DEF TableInv, Injective, Members
<1>5. CallInv'
  BY DEF CallInv, CallOK, BusPCs
<1> QED BY <1>1, <1>2, <1>3, <1>4, <1>5 DEF IInv

LEMMA ConnectKeeps ==
  ASSUME IInv, NEW t \in Threads, NEW c \in Conns, NEW i \in Ids, Connect(t, c, i)
  PROVE  IInv'
<1> USE DEF Connect, thrVars
<1>1. conns \in Seq(Conns) /\ Members \subseteq made /\ c \notin Members
  BY DEF IInv, TypeOK, TableInv
<1>2. EmptyRing \in Ring /\ WellFormed(EmptyRing)
  BY EmptyRingOk
<1>3. TypeOK'
  <2>1. /\ made \in SUBSET Conns /\ id \in [Conns -> Ids \cup {""}]
        /\ active \in [Conns -> BOOLEAN] /\ subs \in [Conns -> Seq(Patterns)]
        /\ queue \in [Conns -> Ring]
        /\ drops \in [Conns -> Nat] /\ stale \in [Conns -> Nat]
    BY DEF IInv, TypeOK
  <2>2. conns' \in Seq(Conns) /\ made' \in SUBSET Conns
    <3>1. conns' = Append(conns, c) /\ made' = made \cup {c}
      OBVIOUS
    <3> HIDE DEF Connect
    <3>2. Append(conns, c) \in Seq(Conns)
      BY <1>1, AppendProperties
    <3> QED BY <2>1, <3>1, <3>2
  <2>3. /\ id' \in [Conns -> Ids \cup {""}] /\ active' \in [Conns -> BOOLEAN]
        /\ drops' \in [Conns -> Nat] /\ stale' \in [Conns -> Nat]
    BY <2>1
  <2>4. subs' \in [Conns -> Seq(Patterns)] /\ queue' \in [Conns -> Ring]
    <3>1. << >> \in Seq(Patterns)
      OBVIOUS
    <3> QED BY <1>2, <2>1, <3>1, Zenon
  <2> QED BY <2>2, <2>3, <2>4 DEF IInv, TypeOK
<1>4. RingsConsistent'
  BY <1>2 DEF IInv, TypeOK, RingsConsistent
<1>5. /\ Len(conns') = Len(conns) + 1 /\ conns'[Len(conns) + 1] = c
      /\ \A k \in 1 .. Len(conns) : conns'[k] = conns[k]
      /\ DOMAIN conns' = 1 .. Len(conns) + 1 /\ DOMAIN conns = 1 .. Len(conns)
      /\ Len(conns) \in Nat
  BY <1>1
<1>6. TableInv'
  <2>1. \A k \in 1 .. Len(conns) : conns[k] # c
    BY <1>1, <1>5 DEF Members
  <2>2. Injective(conns)'
    BY <1>5, <2>1 DEF IInv, TableInv, Injective
  <2>3. Members' \subseteq made'
    BY <1>1, <1>5 DEF Members
  <2> QED BY <2>2, <2>3 DEF TableInv
<1>7. LockInv' /\ CallInv'
  BY BusAssumption DEF IInv, LockInv, CallInv, CallOK
<1> QED BY <1>3, <1>4, <1>6, <1>7 DEF IInv

\* A disconnect takes exactly its own connection out of the table.
LEMMA DisconnectMembers ==
  ASSUME IInv, NEW t \in Threads, NEW c \in Conns, Disconnect(t, c)
  PROVE  conns' \in Seq(Conns) /\ Injective(conns') /\ Members' = Members \ {c}
<1> USE DEF Disconnect
<1>1. conns \in Seq(Conns) /\ Injective(conns) /\ Members \subseteq made
  BY DEF IInv, TypeOK, TableInv
<1>2. conns' \in Seq(Conns) /\ Injective(conns') /\ Members' = Members \ {c}
  <2>1. CASE c \in Members
    <3> DEFINE k == CHOOSE j \in DOMAIN conns : conns[j] = c
    <3>1. k \in DOMAIN conns /\ conns[k] = c
      BY <2>1 DEF Members
    <3>2. conns' = SwapRemove(conns, k)
      BY <2>1
    <3> HIDE DEF k
    <3>3. conns' \in Seq(Conns)
      BY <1>1, <3>1, <3>2, SwapRemoveIsSeq
    <3>4. /\ Injective(conns')
          /\ {conns'[j] : j \in DOMAIN conns'} = {conns[j] : j \in DOMAIN conns} \ {c}
      <4>1. LET r == SwapRemove(conns, k)
            IN  /\ Injective(r)
                /\ {r[j] : j \in DOMAIN r} = {conns[j] : j \in DOMAIN conns} \ {conns[k]}
        BY <1>1, <3>1, SwapRemoveTakesOne
      <4> QED BY <4>1, <3>1, <3>2
    <3> QED BY <3>3, <3>4 DEF Members
  <2>2. CASE c \notin Members
    BY <2>2, <1>1 DEF Members
  <2> QED BY <2>1, <2>2
<1> QED BY <1>2

LEMMA DisconnectKeeps ==
  ASSUME IInv, NEW t \in Threads, NEW c \in Conns, Disconnect(t, c)
  PROVE  IInv'
<1> USE DEF Disconnect
<1>1. conns \in Seq(Conns) /\ Injective(conns) /\ Members \subseteq made
  BY DEF IInv, TypeOK, TableInv
<1>2. conns' \in Seq(Conns) /\ Injective(conns') /\ Members' = Members \ {c}
  BY DisconnectMembers
<1>3. TypeOK'
  BY <1>2 DEF IInv, TypeOK, connVars, PCs, DiscPCs
<1>4. RingsConsistent'
  BY DEF IInv, RingsConsistent, connVars
<1>5. TableInv'
  BY <1>1, <1>2 DEF TableInv, Injective
<1>6. LockInv' /\ CallInv'
  <2>1. \A u \in Threads : pc[u] \notin BusPCs /\ pc'[u] \notin BusPCs
    BY BusAssumption DEF IInv, TypeOK, LockInv, BusPCs, DiscPCs
  <2> QED BY <2>1, BusAssumption DEF LockInv, CallInv, CallOK
<1> QED BY <1>3, <1>4, <1>5, <1>6 DEF IInv

LEMMA DisconnectMarkKeeps ==
  ASSUME IInv, NEW t \in Threads, DisconnectMark(t)
  PROVE  IInv'
<1> USE DEF DisconnectMark, busVars
<1>1. TypeOK'
  BY DEF IInv, TypeOK, PCs, DiscPCs
<1>2. RingsConsistent'
  BY DEF IInv, RingsConsistent
<1>3. LockInv' /\ TableInv' /\ CallInv'
  <2>1. \A u \in Threads : pc'[u] = pc[u] \/ (pc[u] \notin BusPCs /\ pc'[u] \notin BusPCs)
    BY DEF IInv, TypeOK, BusPCs
  <2> QED BY <2>1, QuietStep
<1> QED BY <1>1, <1>2, <1>3 DEF IInv

LEMMA DisconnectWakeKeeps ==
  ASSUME IInv, NEW t \in Threads, DisconnectWake(t)
  PROVE  IInv'
<1> USE DEF DisconnectWake, busVars, connVars
<1>1. TypeOK'
  BY DEF IInv, TypeOK, PCs, RecvPCs, Return
<1>2. RingsConsistent'
  BY DEF IInv, RingsConsistent
<1>3. LockInv' /\ TableInv' /\ CallInv'
  <2>1. \A u \in Threads : pc'[u] = pc[u] \/ (pc[u] \notin BusPCs /\ pc'[u] \notin BusPCs)
    BY DEF IInv, TypeOK, BusPCs, Waiters
  <2> QED BY <2>1, QuietStep
<1> QED BY <1>1, <1>2, <1>3 DEF IInv

LEMMA SubscribeKeeps ==
  ASSUME IInv, NEW t \in Threads, NEW c \in Conns, NEW p \in Patterns, Subscribe(t, c, p)
  PROVE  IInv'
<1>1. subs' \in [Conns -> Seq(Patterns)]
  <2>1. subs \in [Conns -> Seq(Patterns)] /\ Stored[p] \in Patterns
    BY BusAssumption DEF IInv, TypeOK
  <2>2. subs' = subs \/ subs' = [subs EXCEPT ![c] = Append(subs[c], Stored[p])]
    BY DEF Subscribe
  <2>3. Append(subs[c], Stored[p]) \in Seq(Patterns)
    BY <2>1, AppendProperties
  <2> QED BY <2>1, <2>2, <2>3
<1>2. UNCHANGED <<id, active, queue, drops, stale, busVars, thrVars>>
  BY DEF Subscribe
<1>3. TypeOK' /\ RingsConsistent'
  BY <1>1, <1>2 DEF IInv, TypeOK, RingsConsistent, busVars, thrVars
<1>4. LockInv' /\ TableInv' /\ CallInv'
  BY <1>2, QuietStep DEF busVars, thrVars
<1> QED BY <1>3, <1>4 DEF IInv

LEMMA UnsubscribeKeeps ==
  ASSUME IInv, NEW t \in Threads, NEW c \in Conns, NEW p \in Patterns, Unsubscribe(t, c, p)
  PROVE  IInv'
<1>0. subs \in [Conns -> Seq(Patterns)] /\ stale \in [Conns -> Nat]
  BY DEF IInv, TypeOK
<1>1. subs' \in [Conns -> Seq(Patterns)] /\ stale' \in [Conns -> Nat]
  <2>1. CASE UNCHANGED <<subs, stale>>
    BY <2>1, <1>0
  <2>2. ASSUME NEW k \in DOMAIN subs[c],
               subs' = [subs EXCEPT ![c] = SwapRemove(subs[c], k)],
               stale' = [stale EXCEPT ![c] = 0]
        PROVE  subs' \in [Conns -> Seq(Patterns)] /\ stale' \in [Conns -> Nat]
    <3>1. SwapRemove(subs[c], k) \in Seq(Patterns)
      BY <1>0, SwapRemoveIsSeq
    <3> QED BY <1>0, <2>2, <3>1
  <2> QED BY <2>1, <2>2 DEF Unsubscribe
<1>2. UNCHANGED <<id, active, queue, drops, busVars, thrVars>>
  BY DEF Unsubscribe
<1>3. TypeOK' /\ RingsConsistent'
  BY <1>1, <1>2 DEF IInv, TypeOK, RingsConsistent, busVars, thrVars
<1>4. LockInv' /\ TableInv' /\ CallInv'
  BY <1>2, QuietStep DEF busVars, thrVars
<1> QED BY <1>3, <1>4 DEF IInv

----------------------------------------------------------------------------
\* The fields of the calls and of pc after a step of a publish or route.
LEMMA CallTyped ==
  ASSUME IInv, NEW t \in Threads
  PROVE  /\ call \in [Threads -> Calls] /\ call[t] \in Calls
         /\ pc \in [Threads -> PCs] /\ conns \in Seq(Conns) /\ Len(conns) \in Nat
         /\ Members \subseteq Conns
         /\ NoCall \in Calls
<1>1. call \in [Threads -> Calls] /\ pc \in [Threads -> PCs] /\ conns \in Seq(Conns)
  BY DEF IInv, TypeOK
<1>2. Members \subseteq Conns
  BY <1>1 DEF Members
<1>3. NoCall \in Calls
  <2>1. QMax + 1 \in 0 .. QMax + 1
    BY QueueAssumption
  <2> QED BY <2>1 DEF NoCall, Calls, NoLimit
<1> QED BY <1>1, <1>2, <1>3

\* A call that starts has the bus lock to itself.
LEMMA BeginEffect ==
  ASSUME IInv, NEW t \in Threads, NEW r \in Requests, NEW next \in PCs,
         NEW first \in Calls, Begin(t, Message(r), next, first)
  PROVE  /\ call' = [call EXCEPT ![t] = [first EXCEPT !.msg = Message(r)]]
         /\ call' \in [Threads -> Calls]
         /\ Message(r) \in Msg
         /\ calls' \in 0 .. MaxCalls /\ busLock' \in Threads \cup {NoThread}
         /\ busLock = NoThread /\ busLock' = t
         /\ PcStep(t, next)
<1>1. call \in [Threads -> Calls] /\ pc \in [Threads -> PCs] /\ calls \in 0 .. MaxCalls
  BY DEF IInv, TypeOK
<1>2. Message(r) \in Msg
  BY <1>1, MessageIsMsg DEF Begin
<1>3. [first EXCEPT !.msg = Message(r)] \in Calls
  BY <1>2 DEF Calls
<1>4. call' \in [Threads -> Calls]
  BY <1>1, <1>3 DEF Begin
<1>5. calls' \in 0 .. MaxCalls
  BY <1>1, BusAssumption DEF Begin
<1>6. PcStep(t, next)
  BY <1>1 DEF Begin, PcStep
<1> QED BY <1>2, <1>4, <1>5, <1>6 DEF Begin

LEMMA PublishBeginKeeps ==
  ASSUME IInv, NEW t \in Threads, NEW r \in Requests, PublishBegin(t, r)
  PROVE  IInv'
<1>0. "pub_scan" \in PCs /\ "pub_scan" \in BusPCs /\ NoCall \in Calls
  BY CallTyped DEF PCs, BusPCs
<1>1. Begin(t, Message(r), "pub_scan", NoCall)
  BY DEF PublishBegin
<1>2. /\ call' = [call EXCEPT ![t] = [NoCall EXCEPT !.msg = Message(r)]]
      /\ call' \in [Threads -> Calls]
      /\ Message(r) \in Msg
      /\ calls' \in 0 .. MaxCalls /\ busLock' \in Threads \cup {NoThread}
      /\ busLock = NoThread /\ busLock' = t
      /\ PcStep(t, "pub_scan")
  BY <1>0, <1>1, BeginEffect
<1>3. /\ published' = published + 1
      /\ UNCHANGED <<connVars, running, conns, made, routed, dropped, qLock, on, late>>
  BY DEF PublishBegin
<1>4. TypeOK' /\ RingsConsistent'
  <2>1. published' \in Nat
    <3>1. published \in Nat
      BY DEF IInv, TypeOK
    <3> QED BY <1>3, <3>1
  <2>2. pc' \in [Threads -> PCs]
    BY <1>2 DEF PcStep
  <2> QED BY <1>2, <1>3, <2>1, <2>2 DEF IInv, TypeOK, RingsConsistent, connVars
<1>5. CallOK(t)'
  BY <1>2, CallTyped DEF CallOK, NoCall, PcStep
<1>6. LockInv' /\ TableInv' /\ CallInv'
  BY <1>0, <1>2, <1>3, <1>5, CallTyped, SenderStep
<1> QED BY <1>4, <1>6 DEF IInv

LEMMA PublishScanKeeps ==
  ASSUME IInv, NEW t \in Threads, PublishScan(t)
  PROVE  IInv'
<1> DEFINE m == call[t].msg
<1>0. /\ pc[t] = "pub_scan" /\ call[t].i <= Len(conns)
      /\ "pub_scan" \in PCs /\ "pub_push" \in PCs
      /\ "pub_scan" \in BusPCs /\ "pub_push" \in BusPCs
  BY DEF PublishScan, PCs, BusPCs
<1>1. UNCHANGED <<connVars, busVars, busLock, qLock, on, late, calls>>
  BY DEF PublishScan
<1>2. \/ pc' = [pc EXCEPT ![t] = "pub_push"] /\ UNCHANGED call
      \/ call' = [call EXCEPT ![t].i = @ + 1] /\ UNCHANGED pc
  BY DEF PublishScan
<1>3. /\ busLock = t /\ call[t].msg \in Msg /\ call[t].i \in Nat /\ call[t].i >= 1
      /\ call[t].best # NoConn => call[t].best \in Members
  BY <1>0, CallTyped DEF IInv, LockInv, CallInv, CallOK, Calls
<1>4. /\ call' \in [Threads -> Calls]
      /\ \A u \in Threads \ {t} : call'[u] = call[u]
      /\ call'[t].msg = call[t].msg /\ call'[t].best = call[t].best
      /\ call'[t].i \in {call[t].i, call[t].i + 1}
      /\ pc'[t] = "pub_push" => call'[t].i = call[t].i
  <2>0. call \in [Threads -> Calls] /\ call[t] \in Calls
    BY CallTyped
  <2>1. CASE pc' = [pc EXCEPT ![t] = "pub_push"] /\ UNCHANGED call
    BY <2>0, <2>1
  <2>2. CASE call' = [call EXCEPT ![t].i = @ + 1] /\ UNCHANGED pc
    <3>1. [call[t] EXCEPT !.i = @ + 1] \in Calls
      BY <2>0 DEF Calls
    <3>2. call' = [call EXCEPT ![t] = [call[t] EXCEPT !.i = @ + 1]]
      BY <2>2
    <3>3. call'[t] = [call[t] EXCEPT !.i = @ + 1]
      BY <3>2, <2>0
    <3>4. call' \in [Threads -> Calls]
      BY <3>1, <3>2, <2>0, Zenon
    <3>5. call'[t].msg = call[t].msg /\ call'[t].best = call[t].best
          /\ call'[t].i = call[t].i + 1
      BY <3>3, <2>0 DEF Calls
    <3>6. \A u \in Threads \ {t} : call'[u] = call[u]
      BY <3>2, <2>0
    <3> QED BY <3>4, <3>5, <3>6, <2>2, <1>0
  <2> QED BY <2>1, <2>2, <1>2
<1>5. pc'[t] \in {"pub_scan", "pub_push"} /\ PcStep(t, pc'[t])
  BY <1>0, <1>2, CallTyped DEF PcStep
<1>6. TypeOK' /\ RingsConsistent'
  BY <1>1, <1>4, <1>5 DEF IInv, TypeOK, RingsConsistent, connVars, busVars, PcStep
<1>7. CallOK(t)'
  BY <1>0, <1>1, <1>3, <1>4, <1>5 DEF CallOK, busVars, Members
<1>8. LockInv' /\ TableInv' /\ CallInv'
  BY <1>0, <1>1, <1>3, <1>4, <1>5, <1>7, SenderStep DEF busVars
<1> QED BY <1>6, <1>8 DEF IInv

\* A thread that replaces its own locals leaves those of the others alone.
LEMMA CallUpdate ==
  ASSUME IInv, NEW t \in Threads, NEW new \in Calls, call' = [call EXCEPT ![t] = new]
  PROVE  /\ call' \in [Threads -> Calls] /\ call'[t] = new
         /\ \A u \in Threads \ {t} : call'[u] = call[u]
<1>1. call \in [Threads -> Calls]
  BY CallTyped
<1>2. call' \in [Threads -> Calls]
  BY <1>1, Zenon
<1> QED BY <1>1, <1>2

\* The locals of a publish that is about to push: it holds the bus lock, and
\* the connection it works on is in the table.
LEMMA PushPlace ==
  ASSUME IInv, NEW t \in Threads, pc[t] = "pub_push"
  PROVE  /\ pc[t] \in BusPCs /\ busLock = t
         /\ call[t].msg \in Msg /\ call[t].i \in Nat /\ call[t].i >= 1
         /\ call[t].i <= Len(conns)
         /\ conns[call[t].i] \in Members /\ conns[call[t].i] \in Conns
         /\ call[t].best # NoConn => call[t].best \in Members
<1>1. pc[t] \in BusPCs
  BY DEF BusPCs
<1>2. /\ busLock = t /\ call[t].msg \in Msg /\ call[t].i >= 1 /\ call[t].i <= Len(conns)
      /\ call[t].best # NoConn => call[t].best \in Members
  BY <1>1 DEF IInv, LockInv, CallInv, CallOK
<1>3. call[t].i \in Nat
  BY CallTyped DEF Calls
<1>4. conns[call[t].i] \in Members
  <2>1. call[t].i \in DOMAIN conns
    BY <1>2, <1>3, CallTyped
  <2> QED BY <2>1 DEF Members
<1> QED BY <1>1, <1>2, <1>3, <1>4, CallTyped

LEMMA PublishPushKeeps ==
  ASSUME IInv, NEW t \in Threads, PublishPush(t)
  PROVE  IInv'
<1> DEFINE c == conns[call[t].i]
<1>0. pc[t] = "pub_push" /\ "pub_scan" \in PCs /\ "pub_scan" \in BusPCs
  BY DEF PublishPush, PCs, BusPCs
<1>1. /\ pc[t] \in BusPCs /\ busLock = t
      /\ call[t].msg \in Msg /\ call[t].i \in Nat /\ call[t].i >= 1
      /\ c \in Conns
      /\ call[t].best # NoConn => call[t].best \in Members
  BY <1>0, PushPlace
<1>2. UNCHANGED <<busLock, on, late, calls>>
  BY DEF PublishPush
<1>3. \E n \in Nat, d \in Nat :
        /\ n >= 1
        /\ call' = [call EXCEPT ![t] = [call[t] EXCEPT !.i = n, !.delivered = d]]
  <2>1. call[t] \in Calls /\ call \in [Threads -> Calls]
    BY CallTyped
  <2>2. call[t].delivered \in Nat
    BY <2>1 DEF Calls
  <2>3. [call[t] EXCEPT !.i = call[t].i + 1]
          = [call[t] EXCEPT !.i = call[t].i + 1, !.delivered = call[t].delivered]
    BY <2>1 DEF Calls
  <2>4. CASE call' = [call EXCEPT ![t].i = @ + 1, ![t].delivered = @ + 1]
    <3>1. call' = [call EXCEPT ![t] = [call[t] EXCEPT !.i = call[t].i + 1,
                                                      !.delivered = call[t].delivered + 1]]
      BY <2>4, <2>1 DEF Calls
    <3>2. call[t].i + 1 \in Nat /\ call[t].delivered + 1 \in Nat /\ call[t].i + 1 >= 1
      BY <1>1, <2>2
    <3> USE <3>2
    <3> WITNESS call[t].i + 1 \in Nat, call[t].delivered + 1 \in Nat
    <3> QED BY <3>1, <3>2, Zenon
  <2>5. CASE call' = [call EXCEPT ![t].i = @ + 1]
    <3>1. call' = [call EXCEPT ![t] = [call[t] EXCEPT !.i = call[t].i + 1]]
      BY <2>5, <2>1
    <3>2. call[t].i + 1 \in Nat /\ call[t].i + 1 >= 1
      BY <1>1
    <3> USE <3>2
    <3> WITNESS call[t].i + 1 \in Nat, call[t].delivered \in Nat
    <3> QED BY <2>3, <3>1, <3>2, Zenon
  <2> QED BY <2>4, <2>5 DEF PublishPush
<1>4. PICK n \in Nat, d \in Nat :
        /\ n >= 1
        /\ call' = [call EXCEPT ![t] = [call[t] EXCEPT !.i = n, !.delivered = d]]
  BY <1>3
<1>5. /\ call' \in [Threads -> Calls]
      /\ \A u \in Threads \ {t} : call'[u] = call[u]
      /\ call'[t].msg = call[t].msg /\ call'[t].best = call[t].best /\ call'[t].i = n
  <2>1. [call[t] EXCEPT !.i = n, !.delivered = d] \in Calls
    BY CallTyped DEF Calls
  <2> DEFINE new == [call[t] EXCEPT !.i = n, !.delivered = d]
  <2>2. new.msg = call[t].msg /\ new.best = call[t].best /\ new.i = n
    BY CallTyped DEF Calls
  <2> HIDE DEF new
  <2> QED BY <2>1, <2>2, <1>4, CallUpdate DEF new
<1>6. CASE Enqueue(t, c, "pub_scan")
  <2>1. /\ queue' \in [Conns -> Ring] /\ RingsConsistent'
        /\ routed' = routed + 1 /\ stale' \in [Conns -> Nat]
        /\ PcStep(t, "pub_scan")
        /\ UNCHANGED <<id, active, subs, drops, running, conns, made, published,
                       dropped, qLock>>
    BY <1>0, <1>1, <1>6, EnqueueEffect
  <2>2. TypeOK'
    <3>1. routed' \in Nat
      <4>1. routed \in Nat
        BY DEF IInv, TypeOK
      <4> QED BY <4>1, <2>1
    <3> QED BY <1>2, <1>5, <2>1, <3>1 DEF IInv, TypeOK, PcStep
  <2>3. CallOK(t)'
    BY <1>1, <1>4, <1>5, <2>1 DEF CallOK, PcStep, Members
  <2>4. LockInv' /\ TableInv' /\ CallInv'
    BY <1>0, <1>1, <1>2, <1>5, <2>1, <2>3, SenderStep
  <2> QED BY <2>1, <2>2, <2>4 DEF IInv
<1>7. CASE Drop(t, c, "pub_scan")
  <2>1. /\ drops' \in [Conns -> Nat] /\ dropped' = dropped + 1
        /\ PcStep(t, "pub_scan")
        /\ UNCHANGED <<id, active, subs, queue, stale, running, conns, made,
                       published, routed, qLock>>
    BY <1>0, <1>1, <1>7, DropEffect
  <2>2. TypeOK' /\ RingsConsistent'
    <3>1. dropped' \in Nat
      <4>1. dropped \in Nat
        BY DEF IInv, TypeOK
      <4> QED BY <4>1, <2>1
    <3> QED BY <1>2, <1>5, <2>1, <3>1 DEF IInv, TypeOK, RingsConsistent, PcStep
  <2>3. CallOK(t)'
    BY <1>1, <1>4, <1>5, <2>1 DEF CallOK, PcStep, Members
  <2>4. LockInv' /\ TableInv' /\ CallInv'
    BY <1>0, <1>1, <1>2, <1>5, <2>1, <2>3, SenderStep
  <2> QED BY <2>2, <2>4 DEF IInv
<1> QED BY <1>6, <1>7 DEF PublishPush

\* The end of a call gives the bus lock back and forgets the locals.
LEMMA FinishEffect ==
  ASSUME IInv, NEW t \in Threads, pc[t] \in BusPCs, UNCHANGED <<conns, made>>,
         PcStep(t, "idle"), Finish(t)
  PROVE  /\ call' \in [Threads -> Calls] /\ busLock' \in Threads \cup {NoThread}
         /\ UNCHANGED <<on, late, calls>>
         /\ LockInv' /\ TableInv' /\ CallInv'
<1>1. /\ busLock' = NoThread /\ UNCHANGED <<on, late, calls>>
      /\ call' = [call EXCEPT ![t] = NoCall]
  BY DEF Finish
<1>2. call' \in [Threads -> Calls] /\ \A u \in Threads \ {t} : call'[u] = call[u]
  BY <1>1, CallTyped, CallUpdate
<1>3. "idle" \in PCs /\ "idle" \notin BusPCs
  BY DEF PCs, BusPCs
<1>4. CallOK(t)'
  BY <1>3 DEF CallOK, PcStep
<1>5. busLock = t
  BY DEF IInv, LockInv
<1> QED BY <1>1, <1>2, <1>3, <1>4, <1>5, SenderStep

\* Both calls end like this when they have nothing more to deliver.
LEMMA EndKeeps ==
  ASSUME IInv, NEW t \in Threads, pc[t] \in BusPCs,
         pc' = [pc EXCEPT ![t] = "idle"], Finish(t),
         UNCHANGED <<connVars, busVars, qLock>>
  PROVE  IInv'
<1>1. PcStep(t, "idle")
  BY CallTyped DEF PcStep, PCs
<1>2. /\ call' \in [Threads -> Calls] /\ busLock' \in Threads \cup {NoThread}
      /\ UNCHANGED <<on, late, calls>>
      /\ LockInv' /\ TableInv' /\ CallInv'
  BY <1>1, FinishEffect DEF busVars
<1>3. TypeOK' /\ RingsConsistent'
  BY <1>1, <1>2 DEF IInv, TypeOK, RingsConsistent, connVars, busVars, PcStep
<1> QED BY <1>2, <1>3 DEF IInv

LEMMA PublishEndKeeps ==
  ASSUME IInv, NEW t \in Threads, PublishEnd(t)
  PROVE  IInv'
BY EndKeeps DEF PublishEnd, BusPCs

LEMMA RouteNobodyKeeps ==
  ASSUME IInv, NEW t \in Threads, RouteNobody(t)
  PROVE  IInv'
BY EndKeeps DEF RouteNobody, BusPCs

LEMMA RouteBeginKeeps ==
  ASSUME IInv, NEW t \in Threads, NEW r \in Requests, RouteBegin(t, r)
  PROVE  IInv'
<1>0. "route_scan" \in PCs /\ "route_push" \in PCs /\ "route_scan" \in BusPCs
      /\ "route_push" \in BusPCs /\ NoCall \in Calls
  BY CallTyped DEF PCs, BusPCs
<1>1. UNCHANGED <<connVars, busVars, qLock, on, late>>
  BY DEF RouteBegin
<1>2. \E next \in {"route_scan", "route_push"}, first \in Calls :
        /\ Begin(t, Message(r), next, first)
        /\ first.i = 1
        /\ first.best # NoConn => first.best \in Members
        /\ next = "route_push" => first.best # NoConn
  <2>0. NoCall.i = 1 /\ NoCall.best = NoConn
    BY DEF NoCall
  <2>1. CASE Begin(t, Message(r), "route_scan", NoCall)
    BY <1>0, <2>0, <2>1
  <2>2. ASSUME NEW k \in DOMAIN conns,
               Begin(t, Message(r), "route_push", [NoCall EXCEPT !.best = conns[k]])
        PROVE  \E next \in {"route_scan", "route_push"}, first \in Calls :
                 /\ Begin(t, Message(r), next, first)
                 /\ first.i = 1
                 /\ first.best # NoConn => first.best \in Members
                 /\ next = "route_push" => first.best # NoConn
    <3> DEFINE f == [NoCall EXCEPT !.best = conns[k]]
    <3>1. conns[k] \in Members /\ conns[k] \in Conns
      BY CallTyped DEF Members
    <3>2. f \in Calls /\ f.i = 1 /\ f.best = conns[k]
      <4>1. NoCall \in Calls /\ NoCall.i = 1
        BY <1>0, <2>0
      <4> QED BY <4>1, <3>1 DEF Calls
    <3>3. conns[k] # NoConn
      BY <3>1, BusAssumption
    <3> HIDE DEF f
    <3> QED BY <2>2, <3>1, <3>2, <3>3 DEF f
  <2> QED BY <2>1, <2>2 DEF RouteBegin
<1>3. PICK next \in {"route_scan", "route_push"}, first \in Calls :
        /\ Begin(t, Message(r), next, first)
        /\ first.i = 1
        /\ first.best # NoConn => first.best \in Members
        /\ next = "route_push" => first.best # NoConn
  BY <1>2
<1>4. /\ call' = [call EXCEPT ![t] = [first EXCEPT !.msg = Message(r)]]
      /\ call' \in [Threads -> Calls]
      /\ Message(r) \in Msg
      /\ calls' \in 0 .. MaxCalls /\ busLock' \in Threads \cup {NoThread}
      /\ busLock = NoThread /\ busLock' = t
      /\ PcStep(t, next)
  BY <1>0, <1>3, BeginEffect
<1>5. TypeOK' /\ RingsConsistent'
  BY <1>1, <1>4 DEF IInv, TypeOK, RingsConsistent, connVars, busVars, PcStep
<1>6. CallOK(t)'
  <2>1. call'[t].msg = Message(r) /\ call'[t].i = 1 /\ call'[t].best = first.best
    BY <1>3, <1>4, CallTyped DEF Calls
  <2>2. pc'[t] \in {"route_scan", "route_push"} /\ pc'[t] = next
    BY <1>4 DEF PcStep
  <2> QED BY <1>1, <1>3, <1>4, <2>1, <2>2 DEF CallOK, busVars, Members
<1>7. \A u \in Threads \ {t} : call'[u] = call[u]
  BY <1>4, CallTyped
<1>8. LockInv' /\ TableInv' /\ CallInv'
  BY <1>0, <1>1, <1>4, <1>6, <1>7, SenderStep DEF busVars
<1> QED BY <1>5, <1>8 DEF IInv

LEMMA RouteScanKeeps ==
  ASSUME IInv, NEW t \in Threads, RouteScan(t)
  PROVE  IInv'
<1>0. pc[t] = "route_scan" /\ pc[t] \in BusPCs /\ pc[t] \in PCs
  BY DEF RouteScan, BusPCs, PCs
<1>1. UNCHANGED <<connVars, busVars, busLock, qLock, pc, on, late, calls>>
  BY DEF RouteScan
<1>2. /\ busLock = t /\ call[t].msg \in Msg /\ call[t].i \in Nat /\ call[t].i >= 1
      /\ call[t].best # NoConn => call[t].best \in Members
      /\ call[t].i \in DOMAIN conns
  <2>1. call[t].i \in Nat /\ call[t].i <= Len(conns)
    BY CallTyped DEF Calls, RouteScan
  <2>2. call[t].i >= 1
    BY <1>0 DEF IInv, CallInv, CallOK
  <2>3. call[t].i \in DOMAIN conns
    BY <2>1, <2>2, CallTyped
  <2> QED BY <1>0, <2>1, <2>3 DEF IInv, LockInv, CallInv, CallOK
<1> DEFINE c == conns[call[t].i]
           n == queue[c].count
<1>3. c \in Members /\ c \in Conns /\ n \in 0 .. NoLimit
  <2>1. c \in Members /\ c \in Conns
    BY <1>2, CallTyped DEF Members
  <2>2. n \in 0 .. QMax
    BY <2>1 DEF IInv, TypeOK, Ring
  <2> QED BY <2>1, <2>2, QueueAssumption DEF NoLimit
<1>4. \E new \in Calls :
        /\ call' = [call EXCEPT ![t] = new]
        /\ new.msg = call[t].msg /\ new.i = call[t].i + 1
        /\ new.best \in {call[t].best, c}
  <2>0. call[t] \in Calls
    BY CallTyped
  <2>1. \/ call' = [call EXCEPT ![t] =
                      [call[t] EXCEPT !.i = call[t].i + 1, !.best = c, !.min_q = n]]
        \/ call' = [call EXCEPT ![t] = [call[t] EXCEPT !.i = call[t].i + 1]]
    <3> DEFINE picked == active[c] /\ Subscribed(c, call[t].msg.topic) /\ n < call[t].min_q
    <3>1. call' = [call EXCEPT ![t] =
             IF picked THEN [call[t] EXCEPT !.i = call[t].i + 1, !.best = c, !.min_q = n]
                       ELSE [call[t] EXCEPT !.i = call[t].i + 1]]
      BY DEF RouteScan
    <3> QED BY <3>1, Zenon
  <2> DEFINE a == [call[t] EXCEPT !.i = call[t].i + 1, !.best = c, !.min_q = n]
             b == [call[t] EXCEPT !.i = call[t].i + 1]
  <2> HIDE DEF n, c
  <2>2. a \in Calls /\ a.msg = call[t].msg /\ a.i = call[t].i + 1 /\ a.best = c
    <3>1. a.msg = call[t].msg /\ a.i = call[t].i + 1 /\ a.best = c
      BY <2>0 DEF Calls
    <3>2. a \in Calls
      <4>1. call[t].i + 1 \in Nat /\ c \in Conns \cup {NoConn} /\ n \in 0 .. NoLimit
        BY <1>2, <1>3
      <4> QED BY <2>0, <4>1 DEF Calls
    <3> QED BY <3>1, <3>2
  <2>3. b \in Calls /\ b.msg = call[t].msg /\ b.i = call[t].i + 1 /\ b.best = call[t].best
    BY <2>0, <1>3 DEF Calls
  <2>4. call' = [call EXCEPT ![t] = a] \/ call' = [call EXCEPT ![t] = b]
    BY <2>1 DEF n, c
  <2> HIDE DEF a, b
  <2> QED BY <2>2, <2>3, <2>4
<1>5. PICK new \in Calls :
        /\ call' = [call EXCEPT ![t] = new]
        /\ new.msg = call[t].msg /\ new.i = call[t].i + 1
        /\ new.best \in {call[t].best, c}
  BY <1>4
<1>6. /\ call' \in [Threads -> Calls] /\ call'[t] = new
      /\ \A u \in Threads \ {t} : call'[u] = call[u]
  BY <1>5, CallUpdate
<1>7. TypeOK' /\ RingsConsistent'
  BY <1>1, <1>6 DEF IInv, TypeOK, RingsConsistent, connVars, busVars
<1>8. CallOK(t)'
  BY <1>0, <1>1, <1>2, <1>3, <1>5, <1>6 DEF CallOK, busVars, Members
<1>9. PcStep(t, pc[t])
  BY <1>1, CallTyped DEF PcStep
<1>10. LockInv' /\ TableInv' /\ CallInv'
  BY <1>0, <1>1, <1>2, <1>6, <1>8, <1>9, SenderStep DEF busVars
<1> QED BY <1>7, <1>10 DEF IInv

LEMMA RouteChosenKeeps ==
  ASSUME IInv, NEW t \in Threads, RouteChosen(t)
  PROVE  IInv'
<1>1. /\ pc[t] = "route_scan" /\ call[t].best # NoConn
      /\ pc' = [pc EXCEPT ![t] = "route_push"]
      /\ UNCHANGED <<connVars, busVars, busLock, qLock, on, late, call, calls>>
      /\ "route_push" \in PCs /\ "route_push" \in BusPCs /\ pc[t] \in BusPCs
  BY DEF RouteChosen, PCs, BusPCs
<1>2. PcStep(t, "route_push")
  BY <1>1, CallTyped DEF PcStep
<1>3. TypeOK' /\ RingsConsistent'
  BY <1>1, <1>2 DEF IInv, TypeOK, RingsConsistent, connVars, busVars, PcStep
<1>4. busLock = t /\ CallOK(t)
  BY <1>1 DEF IInv, LockInv, CallInv
<1>5. CallOK(t)'
  BY <1>1, <1>2, <1>4 DEF CallOK, busVars, Members, PcStep
<1>6. LockInv' /\ TableInv' /\ CallInv'
  BY <1>1, <1>2, <1>4, <1>5, SenderStep DEF busVars
<1> QED BY <1>3, <1>6 DEF IInv

LEMMA RoutePushKeeps ==
  ASSUME IInv, NEW t \in Threads, RoutePush(t)
  PROVE  IInv'
<1> DEFINE c == call[t].best
<1>0. pc[t] = "route_push" /\ pc[t] \in BusPCs /\ "idle" \in PCs
  BY DEF RoutePush, BusPCs, PCs
<1>1. c \in Conns
  BY <1>0, CallTyped DEF IInv, CallInv, CallOK
<1> HIDE DEF c
<1>2. CASE Enqueue(t, c, "idle") /\ Finish(t)
  <2>1. /\ queue' \in [Conns -> Ring] /\ RingsConsistent'
        /\ routed' = routed + 1 /\ stale' \in [Conns -> Nat]
        /\ PcStep(t, "idle")
        /\ UNCHANGED <<id, active, subs, drops, running, conns, made, published,
                       dropped, qLock>>
    BY <1>0, <1>1, <1>2, EnqueueEffect
  <2>2. /\ call' \in [Threads -> Calls] /\ busLock' \in Threads \cup {NoThread}
        /\ UNCHANGED <<on, late, calls>>
        /\ LockInv' /\ TableInv' /\ CallInv'
    BY <1>0, <1>2, <2>1, FinishEffect
  <2>3. TypeOK'
    <3>1. routed' \in Nat
      <4>1. routed \in Nat
        BY DEF IInv, TypeOK
      <4> QED BY <4>1, <2>1
    <3> QED BY <2>1, <2>2, <3>1 DEF IInv, TypeOK, PcStep
  <2> QED BY <2>1, <2>2, <2>3 DEF IInv
<1>3. CASE Drop(t, c, "idle") /\ Finish(t)
  <2>1. /\ drops' \in [Conns -> Nat] /\ dropped' = dropped + 1
        /\ PcStep(t, "idle")
        /\ UNCHANGED <<id, active, subs, queue, stale, running, conns, made,
                       published, routed, qLock>>
    BY <1>0, <1>1, <1>3, DropEffect
  <2>2. /\ call' \in [Threads -> Calls] /\ busLock' \in Threads \cup {NoThread}
        /\ UNCHANGED <<on, late, calls>>
        /\ LockInv' /\ TableInv' /\ CallInv'
    BY <1>0, <1>3, <2>1, FinishEffect
  <2>3. TypeOK' /\ RingsConsistent'
    <3>1. dropped' \in Nat
      <4>1. dropped \in Nat
        BY DEF IInv, TypeOK
      <4> QED BY <4>1, <2>1
    <3> QED BY <2>1, <2>2, <3>1 DEF IInv, TypeOK, RingsConsistent, PcStep
  <2> QED BY <2>2, <2>3 DEF IInv
<1> QED BY <1>2, <1>3 DEF RoutePush, c

----------------------------------------------------------------------------
\* A thread inside a timed recv or a disconnect works on a connection.
OnInv == \A t \in Threads : pc[t] \in RecvPCs \cup DiscPCs => on[t] \in Conns

\* Every way a recv ends with a pop keeps the invariant.
LEMMA PopKeeps ==
  ASSUME IInv, NEW t \in Threads, NEW c \in Conns, pc[t] \notin BusPCs, PopAndReturn(t, c)
  PROVE  IInv'
<1>1. /\ queue' \in [Conns -> Ring] /\ RingsConsistent'
      /\ PcStep(t, "idle")
      /\ on' \in [Threads -> Conns \cup {NoConn}] /\ late' \in [Threads -> BOOLEAN]
      /\ UNCHANGED <<id, active, subs, drops, stale, busVars, busLock, qLock, call, calls>>
  BY PopEffect
<1>2. TypeOK'
  BY <1>1 DEF IInv, TypeOK, busVars, PcStep
<1>3. LockInv' /\ TableInv' /\ CallInv'
  BY <1>1, QuietStep DEF PcStep, BusPCs, busVars
<1> QED BY <1>1, <1>2, <1>3 DEF IInv

LEMMA RecvNowKeeps ==
  ASSUME IInv, NEW t \in Threads, NEW c \in Conns, RecvNow(t, c)
  PROVE  IInv'
BY PopKeeps DEF RecvNow, BusPCs

LEMMA RecvTestKeeps ==
  ASSUME IInv, NEW t \in Threads, NEW c \in Conns, pc[t] \notin BusPCs, RecvTest(t, c)
  PROVE  IInv'
<1>1. CASE PopAndReturn(t, c)
  BY <1>1, PopKeeps
<1>2. CASE /\ qLock' = [qLock EXCEPT ![c] = t]
           /\ pc' = [pc EXCEPT ![t] = "recv_block"]
           /\ on' = [on EXCEPT ![t] = c]
           /\ UNCHANGED <<connVars, busVars, busLock, late, call, calls>>
  <2>1. TypeOK' /\ RingsConsistent'
    BY <1>2 DEF IInv, TypeOK, RingsConsistent, connVars, busVars, PCs, RecvPCs
  <2>2. \A u \in Threads : pc'[u] = pc[u] \/ (pc[u] \notin BusPCs /\ pc'[u] \notin BusPCs)
    BY <1>2 DEF IInv, TypeOK, BusPCs
  <2>3. LockInv' /\ TableInv' /\ CallInv'
    BY <1>2, <2>2, QuietStep DEF busVars
  <2> QED BY <2>1, <2>3 DEF IInv
<1> QED BY <1>1, <1>2 DEF RecvTest

LEMMA RecvStepKeeps ==
  ASSUME IInv, OnInv, NEW t \in Threads, RecvStep(t)
  PROVE  IInv'
<1>1. CASE RecvAgain(t)
  BY <1>1, RecvTestKeeps DEF RecvAgain, OnInv, RecvPCs, BusPCs
<1>2. CASE RecvGiveUp(t)
  BY <1>2, PopKeeps DEF RecvGiveUp, OnInv, RecvPCs, BusPCs
<1>3. CASE RecvBlock(t)
  <2> USE <1>3 DEF RecvBlock
  <2>1. TypeOK' /\ RingsConsistent'
    BY DEF IInv, TypeOK, RingsConsistent, connVars, busVars, PCs, RecvPCs
  <2>2. \A u \in Threads : pc'[u] = pc[u] \/ (pc[u] \notin BusPCs /\ pc'[u] \notin BusPCs)
    BY DEF IInv, TypeOK, BusPCs
  <2>3. LockInv' /\ TableInv' /\ CallInv'
    BY <2>2, QuietStep DEF busVars
  <2> QED BY <2>1, <2>3 DEF IInv
<1>4. CASE RecvTimeout(t)
  <2> USE <1>4 DEF RecvTimeout
  <2>1. TypeOK' /\ RingsConsistent'
    BY DEF IInv, TypeOK, RingsConsistent, connVars, busVars, PCs, RecvPCs
  <2>2. \A u \in Threads : pc'[u] = pc[u] \/ (pc[u] \notin BusPCs /\ pc'[u] \notin BusPCs)
    BY DEF IInv, TypeOK, BusPCs
  <2>3. LockInv' /\ TableInv' /\ CallInv'
    BY <2>2, QuietStep DEF busVars
  <2> QED BY <2>1, <2>3 DEF IInv
<1> QED BY <1>1, <1>2, <1>3, <1>4 DEF RecvStep

LEMMA DeadlineKeeps ==
  ASSUME IInv, NEW t \in Threads, DeadlinePasses(t) \/ RecvSpurious(t)
  PROVE  IInv'
<1>1. TypeOK' /\ RingsConsistent'
  BY DEF DeadlinePasses, RecvSpurious, IInv, TypeOK, RingsConsistent, connVars, busVars,
         PCs, RecvPCs
<1>2. \A u \in Threads : pc'[u] = pc[u] \/ (pc[u] \notin BusPCs /\ pc'[u] \notin BusPCs)
  BY DEF DeadlinePasses, RecvSpurious, IInv, TypeOK, BusPCs
<1>3. LockInv' /\ TableInv' /\ CallInv'
  BY <1>2, QuietStep DEF DeadlinePasses, RecvSpurious, busVars
<1> QED BY <1>1, <1>3 DEF IInv

----------------------------------------------------------------------------
\* The steps of Next, one action each, as every case analysis below uses them.
LEMMA NextCases ==
  ASSUME NEW P, [Next]_vars,
         UNCHANGED vars => P,
         \A t \in Threads :
           /\ BusInit(t) \/ BusDestroy(t) => P
           /\ DisconnectMark(t) \/ DisconnectWake(t) => P
           /\ \A c \in Conns : Disconnect(t, c) => P
           /\ \A c \in Conns, i \in Ids : Connect(t, c, i) => P
           /\ \A c \in Conns, p \in Patterns : Subscribe(t, c, p) \/ Unsubscribe(t, c, p) => P
           /\ \A r \in Requests : PublishBegin(t, r) \/ RouteBegin(t, r) => P
           /\ PublishScan(t) \/ PublishPush(t) \/ PublishEnd(t) => P
           /\ RouteScan(t) \/ RouteChosen(t) \/ RoutePush(t) \/ RouteNobody(t) => P
           /\ \A c \in Conns : RecvNow(t, c) \/ RecvTimed(t, c) => P
           /\ RecvStep(t) \/ DeadlinePasses(t) \/ RecvSpurious(t) => P
  PROVE  P
<1>1. ASSUME NEW t \in Clients, Lifecycle(t) \/ Interest(t) PROVE P
  <2>1. ConnectRefused(t) => UNCHANGED vars
    BY DEF ConnectRefused
  <2> QED BY <1>1, <2>1 DEF Threads, Lifecycle, Interest
<1>2. ASSUME NEW t \in Senders, Send(t) PROVE P
  BY <1>2 DEF Threads, Send, SendStep
<1>3. ASSUME NEW t \in Receivers, Receive(t) PROVE P
  BY <1>3 DEF Threads, Receive
<1> QED BY <1>1, <1>2, <1>3 DEF Next

LEMMA InitIInv == Init => IInv /\ OnInv
<1> SUFFICES ASSUME Init PROVE IInv /\ OnInv
  OBVIOUS
<1>1. EmptyRing \in Ring /\ WellFormed(EmptyRing)
  BY EmptyRingOk
<1>2. NoCall \in Calls
  <2>1. QMax + 1 \in 0 .. QMax + 1
    BY QueueAssumption
  <2> QED BY <2>1 DEF NoCall, Calls, NoLimit
<1>3. TypeOK
  <2>1. call \in [Threads -> Calls] /\ queue \in [Conns -> Ring]
    BY <1>1, <1>2 DEF Init
  <2>2. calls \in 0 .. MaxCalls /\ pc \in [Threads -> PCs]
    <3>1. MaxCalls \in Nat
      BY BusAssumption
    <3>2. 0 \in 0 .. MaxCalls
      BY <3>1
    <3> QED BY <3>2 DEF Init, PCs
  <2>3. subs \in [Conns -> Seq(Patterns)] /\ conns \in Seq(Conns)
    <3>1. << >> \in Seq(Patterns) /\ << >> \in Seq(Conns)
      OBVIOUS
    <3> QED BY <3>1 DEF Init
  <2>4. drops \in [Conns -> Nat] /\ stale \in [Conns -> Nat]
    BY DEF Init
  <2> QED BY <2>1, <2>2, <2>3, <2>4 DEF Init, TypeOK
<1>4. RingsConsistent
  BY <1>1 DEF Init, RingsConsistent
<1>5. LockInv /\ CallInv /\ OnInv
  BY BusAssumption DEF Init, LockInv, CallInv, CallOK, OnInv, BusPCs, RecvPCs, DiscPCs
<1>6. TableInv
  <2>1. conns = << >>
    BY DEF Init
  <2>2. DOMAIN conns = {}
    BY <2>1
  <2> QED BY <2>2 DEF TableInv, Injective, Members
<1> QED BY <1>3, <1>4, <1>5, <1>6 DEF IInv

LEMMA NextKeeps ==
  ASSUME IInv, OnInv, [Next]_vars
  PROVE  IInv'
<1>1. UNCHANGED vars => IInv'
  BY StutterKeeps
<1>2. ASSUME NEW t \in Threads
      PROVE  /\ BusInit(t) \/ BusDestroy(t) => IInv'
             /\ DisconnectMark(t) \/ DisconnectWake(t) => IInv'
             /\ \A c \in Conns : Disconnect(t, c) => IInv'
             /\ \A c \in Conns, i \in Ids : Connect(t, c, i) => IInv'
             /\ \A c \in Conns, p \in Patterns :
                  Subscribe(t, c, p) \/ Unsubscribe(t, c, p) => IInv'
             /\ \A r \in Requests : PublishBegin(t, r) \/ RouteBegin(t, r) => IInv'
             /\ PublishScan(t) \/ PublishPush(t) \/ PublishEnd(t) => IInv'
             /\ RouteScan(t) \/ RouteChosen(t) \/ RoutePush(t) \/ RouteNobody(t) => IInv'
             /\ \A c \in Conns : RecvNow(t, c) \/ RecvTimed(t, c) => IInv'
             /\ RecvStep(t) \/ DeadlinePasses(t) \/ RecvSpurious(t) => IInv'
  <2>1. /\ BusInit(t) \/ BusDestroy(t) => IInv'
        /\ DisconnectMark(t) \/ DisconnectWake(t) => IInv'
        /\ \A c \in Conns : Disconnect(t, c) => IInv'
        /\ \A c \in Conns, i \in Ids : Connect(t, c, i) => IInv'
        /\ \A c \in Conns, p \in Patterns :
             Subscribe(t, c, p) \/ Unsubscribe(t, c, p) => IInv'
    BY BusInitKeeps, BusDestroyKeeps, DisconnectMarkKeeps, DisconnectWakeKeeps,
       DisconnectKeeps, ConnectKeeps, SubscribeKeeps, UnsubscribeKeeps
  <2>2. /\ \A r \in Requests : PublishBegin(t, r) \/ RouteBegin(t, r) => IInv'
        /\ PublishScan(t) \/ PublishPush(t) \/ PublishEnd(t) => IInv'
        /\ RouteScan(t) \/ RouteChosen(t) \/ RoutePush(t) \/ RouteNobody(t) => IInv'
    BY PublishBeginKeeps, RouteBeginKeeps, PublishScanKeeps, PublishPushKeeps,
       PublishEndKeeps, RouteScanKeeps, RouteChosenKeeps, RoutePushKeeps, RouteNobodyKeeps
  <2>3. /\ \A c \in Conns : RecvNow(t, c) \/ RecvTimed(t, c) => IInv'
        /\ RecvStep(t) \/ DeadlinePasses(t) \/ RecvSpurious(t) => IInv'
    <3>1. \A c \in Conns : RecvTimed(t, c) => IInv'
      BY RecvTestKeeps DEF RecvTimed, BusPCs
    <3> QED BY <3>1, RecvNowKeeps, RecvStepKeeps, DeadlineKeeps
  <2> QED BY <2>1, <2>2, <2>3
<1> QED BY <1>1, <1>2, NextCases

\* A step keeps OnInv if a thread that is then inside a timed recv or a
\* disconnect was there before, on the same connection, or just entered one.
LEMMA OnStep ==
  ASSUME OnInv,
         \A u \in Threads : pc'[u] \in RecvPCs \cup DiscPCs =>
           (pc[u] \in RecvPCs \cup DiscPCs /\ on'[u] = on[u]) \/ on'[u] \in Conns
  PROVE  OnInv'
BY DEF OnInv

\* A step of thread t to a place outside of both.
LEMMA OnPcStep ==
  ASSUME OnInv, NEW t \in Threads, NEW next, next \notin RecvPCs \cup DiscPCs,
         PcStep(t, next), \A u \in Threads \ {t} : on'[u] = on[u]
  PROVE  OnInv'
<1>1. ASSUME NEW u \in Threads, pc'[u] \in RecvPCs \cup DiscPCs
      PROVE  pc[u] \in RecvPCs \cup DiscPCs /\ on'[u] = on[u]
  <2>1. u # t
    BY <1>1 DEF PcStep
  <2>2. pc'[u] = pc[u] \/ pc[u] = "recv_wait"
    BY <2>1 DEF PcStep
  <2> QED BY <1>1, <2>1, <2>2 DEF RecvPCs
<1> QED BY <1>1, OnStep

LEMMA SendKeepsOn ==
  ASSUME IInv, OnInv, NEW t \in Threads,
         SendStep(t) \/ \E r \in Requests : PublishBegin(t, r) \/ RouteBegin(t, r)
  PROVE  OnInv'
<1>0. \A s \in BusPCs \cup {"idle"} : s \notin RecvPCs \cup DiscPCs /\ s \in PCs
  BY DEF BusPCs, RecvPCs, DiscPCs, PCs
<1>1. on' = on
  BY DEF SendStep, PublishScan, PublishPush, PublishEnd, RouteScan, RouteChosen, RoutePush,
         RouteNobody, PublishBegin, RouteBegin, Finish
<1>2. \E next \in BusPCs \cup {"idle"} : PcStep(t, next)
  <2>0. pc \in [Threads -> PCs]
    BY CallTyped
  <2>1. CASE \E next \in BusPCs \cup {"idle"} : pc' = [pc EXCEPT ![t] = next]
    BY <2>0, <2>1, <1>0 DEF PcStep
  <2>2. CASE pc[t] \in BusPCs /\ UNCHANGED pc
    BY <2>0, <2>2 DEF PcStep
  <2>3. ASSUME NEW c, NEW next \in BusPCs \cup {"idle"}, pc[t] \in BusPCs,
               SignalAndGo(t, c, next)
        PROVE  PcStep(t, next)
    <3>1. pc[t] # "recv_wait"
      BY <2>3 DEF BusPCs
    <3> QED BY <2>0, <2>3, <3>1, <1>0, SignalStep
  <2>4. CASE \E r \in Requests : PublishBegin(t, r) \/ RouteBegin(t, r)
    BY <2>1, <2>4 DEF PublishBegin, RouteBegin, Begin, BusPCs
  <2>5. CASE PublishScan(t) \/ RouteScan(t)
    BY <2>1, <2>2, <2>5 DEF PublishScan, RouteScan, BusPCs
  <2>6. CASE PublishPush(t)
    <3>1. pc[t] \in BusPCs /\ "pub_scan" \in BusPCs
      BY <2>6 DEF PublishPush, BusPCs
    <3> QED BY <2>1, <2>3, <2>6, <3>1 DEF PublishPush, Enqueue, Drop
  <2>7. CASE RoutePush(t)
    <3>1. pc[t] \in BusPCs
      BY <2>7 DEF RoutePush, BusPCs
    <3> QED BY <2>1, <2>3, <2>7, <3>1 DEF RoutePush, Enqueue, Drop
  <2>8. CASE PublishEnd(t) \/ RouteChosen(t) \/ RouteNobody(t)
    BY <2>1, <2>8 DEF PublishEnd, RouteChosen, RouteNobody, BusPCs
  <2> QED BY <2>4, <2>5, <2>6, <2>7, <2>8 DEF SendStep
<1> QED BY <1>0, <1>1, <1>2, OnPcStep

LEMMA PopKeepsOn ==
  ASSUME IInv, OnInv, NEW t \in Threads, NEW c \in Conns, PopAndReturn(t, c)
  PROVE  OnInv'
<1>1. PcStep(t, "idle")
  BY PopEffect
<1>2. \A u \in Threads \ {t} : on'[u] = on[u]
  BY DEF PopAndReturn, Return, IInv, TypeOK
<1>3. "idle" \notin RecvPCs \cup DiscPCs
  BY DEF RecvPCs, DiscPCs
<1> QED BY <1>1, <1>2, <1>3, OnPcStep

LEMMA RecvTestKeepsOn ==
  ASSUME IInv, OnInv, NEW t \in Threads, NEW c \in Conns, RecvTest(t, c)
  PROVE  OnInv'
<1>1. CASE PopAndReturn(t, c)
  BY <1>1, PopKeepsOn
<1>2. CASE pc' = [pc EXCEPT ![t] = "recv_block"] /\ on' = [on EXCEPT ![t] = c]
  BY <1>2, OnStep DEF IInv, TypeOK
<1> QED BY <1>1, <1>2 DEF RecvTest

LEMMA RecvKeepsOn ==
  ASSUME IInv, OnInv, NEW t \in Threads,
         RecvStep(t) \/ DeadlinePasses(t) \/ RecvSpurious(t)
  PROVE  OnInv'
<1>1. CASE RecvAgain(t)
  BY <1>1, RecvTestKeepsOn DEF RecvAgain, OnInv, RecvPCs
<1>2. CASE RecvGiveUp(t)
  BY <1>2, PopKeepsOn DEF RecvGiveUp, OnInv, RecvPCs
<1>3. CASE RecvBlock(t) \/ RecvTimeout(t) \/ DeadlinePasses(t) \/ RecvSpurious(t)
  <2>1. UNCHANGED on /\ pc[t] \in RecvPCs /\ \A u \in Threads \ {t} : pc'[u] = pc[u]
    BY <1>3, CallTyped DEF RecvBlock, RecvTimeout, DeadlinePasses, RecvSpurious, RecvPCs
  <2> QED BY <2>1, OnStep
<1> QED BY <1>1, <1>2, <1>3 DEF RecvStep

LEMMA NextKeepsOn ==
  ASSUME IInv, OnInv, [Next]_vars
  PROVE  OnInv'
<1>0. pc \in [Threads -> PCs] /\ on \in [Threads -> Conns \cup {NoConn}]
  BY DEF IInv, TypeOK
<1>1. UNCHANGED vars => OnInv'
  BY DEF vars, thrVars, OnInv
<1>2. ASSUME NEW t \in Threads
      PROVE  /\ BusInit(t) \/ BusDestroy(t) => OnInv'
             /\ DisconnectMark(t) \/ DisconnectWake(t) => OnInv'
             /\ \A c \in Conns : Disconnect(t, c) => OnInv'
             /\ \A c \in Conns, i \in Ids : Connect(t, c, i) => OnInv'
             /\ \A c \in Conns, p \in Patterns :
                  Subscribe(t, c, p) \/ Unsubscribe(t, c, p) => OnInv'
             /\ \A r \in Requests : PublishBegin(t, r) \/ RouteBegin(t, r) => OnInv'
             /\ PublishScan(t) \/ PublishPush(t) \/ PublishEnd(t) => OnInv'
             /\ RouteScan(t) \/ RouteChosen(t) \/ RoutePush(t) \/ RouteNobody(t) => OnInv'
             /\ \A c \in Conns : RecvNow(t, c) \/ RecvTimed(t, c) => OnInv'
             /\ RecvStep(t) \/ DeadlinePasses(t) \/ RecvSpurious(t) => OnInv'
  <2>1. \A c \in Conns : Disconnect(t, c) => OnInv'
    BY <1>0, OnStep DEF Disconnect
  <2>2. DisconnectMark(t) => OnInv'
    BY <1>0, OnStep DEF DisconnectMark, DiscPCs
  <2>3. DisconnectWake(t) => OnInv'
    <3> SUFFICES ASSUME DisconnectWake(t) PROVE OnInv'
      OBVIOUS
    <3>1. ASSUME NEW u \in Threads, pc'[u] \in RecvPCs \cup DiscPCs
          PROVE  pc[u] \in RecvPCs \cup DiscPCs /\ on'[u] = on[u]
      <4>1. u # t
        BY <1>0, <1>2, <3>1 DEF DisconnectWake, RecvPCs, DiscPCs
      <4>2. on'[u] = on[u]
        BY <1>0, <4>1 DEF DisconnectWake, Return
      <4>3. pc'[u] = pc[u] \/ pc[u] = "recv_wait"
        BY <4>1 DEF DisconnectWake, Waiters
      <4> QED BY <3>1, <4>2, <4>3 DEF RecvPCs
    <3> QED BY <3>1, OnStep
  <2>4. /\ BusInit(t) \/ BusDestroy(t) => OnInv'
        /\ \A c \in Conns, i \in Ids : Connect(t, c, i) => OnInv'
        /\ \A c \in Conns, p \in Patterns :
             Subscribe(t, c, p) \/ Unsubscribe(t, c, p) => OnInv'
    BY DEF BusInit, BusDestroy, Connect, Subscribe, Unsubscribe, thrVars, OnInv
  <2>5. /\ \A r \in Requests : PublishBegin(t, r) \/ RouteBegin(t, r) => OnInv'
        /\ PublishScan(t) \/ PublishPush(t) \/ PublishEnd(t) => OnInv'
        /\ RouteScan(t) \/ RouteChosen(t) \/ RoutePush(t) \/ RouteNobody(t) => OnInv'
    BY SendKeepsOn DEF SendStep
  <2>6. /\ \A c \in Conns : RecvNow(t, c) \/ RecvTimed(t, c) => OnInv'
        /\ RecvStep(t) \/ DeadlinePasses(t) \/ RecvSpurious(t) => OnInv'
    BY PopKeepsOn, RecvTestKeepsOn, RecvKeepsOn DEF RecvNow, RecvTimed
  <2> QED BY <2>1, <2>2, <2>3, <2>4, <2>5, <2>6
<1> QED BY <1>1, <1>2, NextCases

----------------------------------------------------------------------------
\* The inductive invariant holds in every reachable state of the bus.
THEOREM Invariant == Spec => [](IInv /\ OnInv)
<1>1. Init => IInv /\ OnInv
  BY InitIInv
<1>2. IInv /\ OnInv /\ [Next]_vars => (IInv /\ OnInv)'
  BY NextKeeps, NextKeepsOn
<1> QED BY <1>1, <1>2, PTL DEF Spec

\* Every variable of the bus keeps its type, whatever the callers do.
THEOREM TypeCorrect == Spec => []TypeOK
<1>1. IInv => TypeOK
  BY DEF IInv
<1> QED BY <1>1, Invariant, PTL

\* The head, the tail and the count of every queue agree with the slots in use
\* (q_push and q_pop under q_lock), for any number of senders and receivers.
THEOREM RingsStayConsistent == Spec => []RingsConsistent
<1>1. IInv => RingsConsistent
  BY DEF IInv
<1> QED BY <1>1, Invariant, PTL

----------------------------------------------------------------------------
(***************************************************************************)
(* Refinement: the steps of the bus are steps of the mailboxes or leave    *)
(* them alone.                                                             *)
(***************************************************************************)

\* A bus that is down has an empty table (hk_bus_destroy).
DownInv == ~running => conns = << >>

Boxes == [c \in Conns |-> Contents(queue[c])]

\* A mailbox holds as many messages as the ring counts.
LEMMA BoxLength ==
  ASSUME queue \in [Conns -> Ring], NEW c \in Conns
  PROVE  Boxes[c] = Contents(queue[c]) /\ Len(Boxes[c]) = queue[c].count
<1>1. queue[c].count \in Nat
  BY QueueAssumption DEF Ring
<1>2. Len(Contents(queue[c])) = queue[c].count
  BY <1>1 DEF Contents
<1> QED BY <1>2 DEF Boxes

\* A change of one ring is a change of one mailbox.
LEMMA BoxUpdate ==
  ASSUME NEW c \in Conns, NEW new,
         Contents(queue'[c]) = new, \A d \in Conns \ {c} : queue'[d] = queue[d]
  PROVE  Boxes' = [Boxes EXCEPT ![c] = new]
BY DEF Boxes

\* Steps that change neither the members, nor a queue, nor a count.
LEMMA BoxStutter ==
  ASSUME Members' = Members, UNCHANGED <<queue, drops, routed, dropped>>
  PROVE  UNCHANGED Box!boxVars
<1>1. Boxes' = Boxes
  BY DEF Boxes
<1> QED BY <1>1 DEF Boxes, Box!boxVars

LEMMA InitRefines == Init => Box!Init /\ DownInv
<1> SUFFICES ASSUME Init PROVE Box!Init /\ DownInv
  OBVIOUS
<1>1. Members = {}
  <2>1. conns = << >>
    BY DEF Init
  <2>2. DOMAIN conns = {}
    BY <2>1
  <2> QED BY <2>2 DEF Members
<1>2. Contents(EmptyRing) = << >>
  BY EmptyRingOk
<1>3. Boxes = [c \in Conns |-> << >>]
  BY <1>2 DEF Init, Boxes
<1> QED BY <1>1, <1>3 DEF Init, Box!Init, Boxes, DownInv

LEMMA BusInitRefines ==
  ASSUME DownInv, NEW t \in Threads, BusInit(t)
  PROVE  Box!Restart
<1>1. conns = << >> /\ UNCHANGED <<conns, queue, drops>>
  BY DEF BusInit, DownInv, connVars
<1>2. Members = {} /\ Members' = {}
  BY <1>1 DEF Members
<1>3. Boxes' = Boxes
  BY <1>1 DEF Boxes
<1> QED BY <1>1, <1>2, <1>3 DEF BusInit, Box!Restart, Boxes

LEMMA BusDestroyRefines ==
  ASSUME NEW t \in Threads, BusDestroy(t)
  PROVE  Box!Shutdown
<1>1. conns' = << >> /\ UNCHANGED <<queue, drops, routed, dropped>>
  BY DEF BusDestroy
<1>2. Members' = {}
  BY <1>1 DEF Members
<1>3. Boxes' = Boxes
  BY <1>1 DEF Boxes
<1> QED BY <1>1, <1>2, <1>3 DEF Box!Shutdown, Boxes

LEMMA ConnectRefines ==
  ASSUME IInv, NEW t \in Threads, NEW c \in Conns, NEW i \in Ids, Connect(t, c, i)
  PROVE  Box!Open(c)
<1>1. /\ conns \in Seq(Conns) /\ queue \in [Conns -> Ring] /\ drops \in [Conns -> Nat]
      /\ Members \subseteq made
  BY DEF IInv, TypeOK, TableInv
<1>2. /\ c \notin made /\ conns' = Append(conns, c)
      /\ queue' = [queue EXCEPT ![c] = EmptyRing] /\ drops' = [drops EXCEPT ![c] = 0]
      /\ UNCHANGED <<routed, dropped>>
  BY DEF Connect
<1>3. Members' = Members \cup {c}
  <2>1. /\ DOMAIN conns' = 1 .. Len(conns) + 1 /\ DOMAIN conns = 1 .. Len(conns)
        /\ Len(conns) \in Nat /\ conns'[Len(conns) + 1] = c
        /\ \A k \in 1 .. Len(conns) : conns'[k] = conns[k]
    BY <1>1, <1>2
  <2> QED BY <2>1 DEF Members
<1>4. Boxes' = [Boxes EXCEPT ![c] = << >>]
  <2>1. /\ Contents(queue'[c]) = << >>
        /\ \A d \in Conns \ {c} : queue'[d] = queue[d]
    BY <1>1, <1>2, EmptyRingOk
  <2> QED BY <2>1, BoxUpdate
<1> QED BY <1>1, <1>2, <1>3, <1>4 DEF Box!Open, Boxes

LEMMA DisconnectRefines ==
  ASSUME IInv, NEW t \in Threads, NEW c \in Conns, Disconnect(t, c)
  PROVE  Box!Close(c)
<1>1. Members' = Members \ {c}
  BY DisconnectMembers
<1>2. UNCHANGED <<queue, drops, routed, dropped>>
  BY DEF Disconnect, connVars
<1>3. Boxes' = Boxes
  BY <1>2 DEF Boxes
<1> QED BY <1>1, <1>2, <1>3 DEF Box!Close, Boxes

\* A push is a put, and a push on a full queue a refusal.
LEMMA EnqueueRefines ==
  ASSUME IInv, NEW t \in Threads, pc[t] \in BusPCs, NEW c \in Members, NEW next \in PCs,
         Enqueue(t, c, next)
  PROVE  Box!Put(c, call[t].msg)
<1>1. c \in Conns /\ queue \in [Conns -> Ring]
  BY CallTyped DEF IInv, TypeOK
<1>2. /\ queue[c].count < QMax
      /\ Contents(queue'[c]) = Append(Contents(queue[c]), call[t].msg)
      /\ \A d \in Conns \ {c} : queue'[d] = queue[d]
      /\ routed' = routed + 1
      /\ UNCHANGED <<drops, conns, dropped>>
  BY <1>1, EnqueueEffect
<1>3. Members' = Members
  BY <1>2 DEF Members
<1>4. Boxes[c] = Contents(queue[c]) /\ Len(Boxes[c]) = queue[c].count
  BY <1>1, BoxLength
<1>5. Boxes' = [Boxes EXCEPT ![c] = Append(Boxes[c], call[t].msg)]
  BY <1>1, <1>2, <1>4, BoxUpdate
<1> QED BY <1>2, <1>3, <1>4, <1>5 DEF Box!Put, Boxes

LEMMA DropRefines ==
  ASSUME IInv, NEW t \in Threads, NEW c \in Members, NEW next \in PCs, Drop(t, c, next)
  PROVE  Box!Refuse(c)
<1>1. c \in Conns /\ queue \in [Conns -> Ring]
  BY CallTyped DEF IInv, TypeOK
<1>2. /\ queue[c].count = QMax
      /\ drops' = [drops EXCEPT ![c] = @ + 1] /\ dropped' = dropped + 1
      /\ UNCHANGED <<queue, conns, routed>>
  BY <1>1, DropEffect
<1>3. Members' = Members /\ Boxes' = Boxes
  BY <1>2 DEF Members, Boxes
<1>4. Len(Boxes[c]) = queue[c].count
  BY <1>1, BoxLength
<1> QED BY <1>2, <1>3, <1>4 DEF Box!Refuse, Boxes

\* A pop takes the oldest message of a mailbox.
LEMMA PopRefines ==
  ASSUME IInv, NEW t \in Threads, NEW c \in Conns, PopAndReturn(t, c)
  PROVE  Box!Take(c) \/ UNCHANGED Box!boxVars
<1>1. queue \in [Conns -> Ring]
  BY DEF IInv, TypeOK
<1>2. UNCHANGED <<conns, drops, routed, dropped>>
  BY PopEffect DEF busVars
<1>3. Members' = Members
  BY <1>2 DEF Members
<1>4. CASE UNCHANGED queue
  BY <1>2, <1>3, <1>4, BoxStutter
<1>5. CASE /\ Contents(queue[c]) # << >>
           /\ Contents(queue'[c]) = Tail(Contents(queue[c]))
           /\ \A d \in Conns \ {c} : queue'[d] = queue[d]
  <2>1. Boxes[c] = Contents(queue[c])
    BY <1>1, BoxLength
  <2>2. Boxes' = [Boxes EXCEPT ![c] = Tail(Boxes[c])]
    BY <1>5, <2>1, BoxUpdate
  <2> QED BY <1>2, <1>3, <1>5, <2>1, <2>2 DEF Box!Take, Boxes
<1> QED BY <1>4, <1>5, PopEffect

LEMMA SendRefines ==
  ASSUME IInv, NEW t \in Threads,
         SendStep(t) \/ \E r \in Requests : PublishBegin(t, r) \/ RouteBegin(t, r)
  PROVE  [Box!Next]_(Box!boxVars)
<1>1. CASE UNCHANGED <<conns, queue, drops, routed, dropped>>
  BY <1>1, BoxStutter DEF Members
<1>2. ASSUME NEW c \in Members, NEW next \in PCs, pc[t] \in BusPCs,
             Enqueue(t, c, next) \/ Drop(t, c, next)
      PROVE  Box!Next
  <2>1. c \in Conns /\ call[t].msg \in Msg
    BY <1>2, CallTyped DEF IInv, CallInv, CallOK
  <2> QED BY <1>2, <2>1, EnqueueRefines, DropRefines DEF Box!Next
<1>3. CASE PublishPush(t)
  <2>1. pc[t] \in BusPCs /\ conns[call[t].i] \in Members /\ "pub_scan" \in PCs
    BY <1>3, PushPlace DEF PublishPush, PCs, BusPCs
  <2> QED BY <1>2, <1>3, <2>1 DEF PublishPush
<1>4. CASE RoutePush(t)
  <2>1. pc[t] \in BusPCs /\ call[t].best \in Members /\ "idle" \in PCs
    BY <1>4 DEF RoutePush, PCs, BusPCs, IInv, CallInv, CallOK
  <2> QED BY <1>2, <1>4, <2>1 DEF RoutePush
<1>5. CASE PublishScan(t) \/ PublishEnd(t) \/ RouteScan(t) \/ RouteChosen(t) \/ RouteNobody(t)
  BY <1>1, <1>5 DEF PublishScan, PublishEnd, RouteScan, RouteChosen, RouteNobody,
                    connVars, busVars
<1>6. CASE \E r \in Requests : PublishBegin(t, r) \/ RouteBegin(t, r)
  BY <1>1, <1>6 DEF PublishBegin, RouteBegin, connVars, busVars
<1> QED BY <1>3, <1>4, <1>5, <1>6 DEF SendStep

LEMMA RecvRefines ==
  ASSUME IInv, OnInv, NEW t \in Threads,
         \/ RecvStep(t) \/ DeadlinePasses(t) \/ RecvSpurious(t)
         \/ \E c \in Conns : RecvNow(t, c) \/ RecvTimed(t, c)
  PROVE  [Box!Next]_(Box!boxVars)
<1>1. CASE UNCHANGED <<conns, queue, drops, routed, dropped>>
  BY <1>1, BoxStutter DEF Members
<1>2. ASSUME NEW c \in Conns, PopAndReturn(t, c)
      PROVE  [Box!Next]_(Box!boxVars)
  BY <1>2, PopRefines DEF Box!Next
<1>3. ASSUME NEW c \in Conns, RecvTest(t, c)
      PROVE  [Box!Next]_(Box!boxVars)
  BY <1>1, <1>2, <1>3 DEF RecvTest, connVars, busVars
<1>4. CASE RecvStep(t)
  <2>1. CASE RecvAgain(t)
    BY <1>3, <2>1 DEF RecvAgain, OnInv, RecvPCs
  <2>2. CASE RecvGiveUp(t)
    BY <1>2, <2>2 DEF RecvGiveUp, OnInv, RecvPCs
  <2>3. CASE RecvBlock(t) \/ RecvTimeout(t)
    BY <1>1, <2>3 DEF RecvBlock, RecvTimeout, connVars, busVars
  <2> QED BY <1>4, <2>1, <2>2, <2>3 DEF RecvStep
<1>5. CASE DeadlinePasses(t) \/ RecvSpurious(t)
  BY <1>1, <1>5 DEF DeadlinePasses, RecvSpurious, connVars, busVars
<1>6. CASE \E c \in Conns : RecvNow(t, c) \/ RecvTimed(t, c)
  BY <1>2, <1>3, <1>6 DEF RecvNow, RecvTimed
<1> QED BY <1>4, <1>5, <1>6

LEMMA NextRefines ==
  ASSUME IInv, OnInv, DownInv, [Next]_vars
  PROVE  [Box!Next]_(Box!boxVars)
<1> DEFINE R == [Box!Next]_(Box!boxVars)
<1>1. CASE UNCHANGED <<conns, queue, drops, routed, dropped>>
  BY <1>1, BoxStutter DEF Members
<1>2. UNCHANGED vars => R
  BY <1>1 DEF vars, connVars, busVars
<1>3. ASSUME NEW t \in Threads
      PROVE  /\ BusInit(t) \/ BusDestroy(t) => R
             /\ DisconnectMark(t) \/ DisconnectWake(t) => R
             /\ \A c \in Conns : Disconnect(t, c) => R
             /\ \A c \in Conns, i \in Ids : Connect(t, c, i) => R
             /\ \A c \in Conns, p \in Patterns : Subscribe(t, c, p) \/ Unsubscribe(t, c, p) => R
             /\ \A r \in Requests : PublishBegin(t, r) \/ RouteBegin(t, r) => R
             /\ PublishScan(t) \/ PublishPush(t) \/ PublishEnd(t) => R
             /\ RouteScan(t) \/ RouteChosen(t) \/ RoutePush(t) \/ RouteNobody(t) => R
             /\ \A c \in Conns : RecvNow(t, c) \/ RecvTimed(t, c) => R
             /\ RecvStep(t) \/ DeadlinePasses(t) \/ RecvSpurious(t) => R
  <2>1. BusInit(t) \/ BusDestroy(t) => R
    BY BusInitRefines, BusDestroyRefines DEF Box!Next
  <2>2. DisconnectMark(t) \/ DisconnectWake(t) => R
    BY <1>1 DEF DisconnectMark, DisconnectWake, connVars, busVars
  <2>3. \A c \in Conns : Disconnect(t, c) => R
    BY DisconnectRefines DEF Box!Next
  <2>4. \A c \in Conns, i \in Ids : Connect(t, c, i) => R
    BY ConnectRefines DEF Box!Next
  <2>5. \A c \in Conns, p \in Patterns : Subscribe(t, c, p) \/ Unsubscribe(t, c, p) => R
    BY <1>1 DEF Subscribe, Unsubscribe, busVars
  <2>6. /\ \A r \in Requests : PublishBegin(t, r) \/ RouteBegin(t, r) => R
        /\ PublishScan(t) \/ PublishPush(t) \/ PublishEnd(t) => R
        /\ RouteScan(t) \/ RouteChosen(t) \/ RoutePush(t) \/ RouteNobody(t) => R
    <3> HIDE DEF R
    <3>1. SendStep(t) => R
      BY SendRefines DEF R
    <3>2. \A r \in Requests : PublishBegin(t, r) \/ RouteBegin(t, r) => R
      BY SendRefines DEF R
    <3> QED BY <3>1, <3>2 DEF SendStep
  <2>7. /\ \A c \in Conns : RecvNow(t, c) \/ RecvTimed(t, c) => R
        /\ RecvStep(t) \/ DeadlinePasses(t) \/ RecvSpurious(t) => R
    BY RecvRefines
  <2> HIDE DEF R
  <2> QED BY <2>1, <2>2, <2>3, <2>4, <2>5, <2>6, <2>7
<1> HIDE DEF R
<1>4. R
  BY <1>2, <1>3, NextCases
<1> QED BY <1>4 DEF R

LEMMA NextKeepsDown ==
  ASSUME DownInv, [Next]_vars
  PROVE  DownInv'
<1>1. UNCHANGED vars => DownInv'
  BY DEF vars, busVars, DownInv
<1>2. ASSUME NEW t \in Threads
      PROVE  /\ BusInit(t) \/ BusDestroy(t) => DownInv'
             /\ DisconnectMark(t) \/ DisconnectWake(t) => DownInv'
             /\ \A c \in Conns : Disconnect(t, c) => DownInv'
             /\ \A c \in Conns, i \in Ids : Connect(t, c, i) => DownInv'
             /\ \A c \in Conns, p \in Patterns :
                  Subscribe(t, c, p) \/ Unsubscribe(t, c, p) => DownInv'
             /\ \A r \in Requests : PublishBegin(t, r) \/ RouteBegin(t, r) => DownInv'
             /\ PublishScan(t) \/ PublishPush(t) \/ PublishEnd(t) => DownInv'
             /\ RouteScan(t) \/ RouteChosen(t) \/ RoutePush(t) \/ RouteNobody(t) => DownInv'
             /\ \A c \in Conns : RecvNow(t, c) \/ RecvTimed(t, c) => DownInv'
             /\ RecvStep(t) \/ DeadlinePasses(t) \/ RecvSpurious(t) => DownInv'
  <2>1. CASE UNCHANGED <<running, conns>>
    BY <2>1 DEF DownInv
  <2>2. /\ BusInit(t) \/ BusDestroy(t) => DownInv'
        /\ \A c \in Conns : Disconnect(t, c) => DownInv'
        /\ \A c \in Conns, i \in Ids : Connect(t, c, i) => DownInv'
    BY DEF BusInit, BusDestroy, Disconnect, Connect, DownInv
  <2>3. /\ DisconnectMark(t) \/ DisconnectWake(t) => DownInv'
        /\ \A c \in Conns, p \in Patterns :
             Subscribe(t, c, p) \/ Unsubscribe(t, c, p) => DownInv'
        /\ \A r \in Requests : PublishBegin(t, r) \/ RouteBegin(t, r) => DownInv'
    BY <2>1 DEF DisconnectMark, DisconnectWake, Subscribe, Unsubscribe, PublishBegin,
                RouteBegin, busVars
  <2>4. /\ PublishScan(t) \/ PublishPush(t) \/ PublishEnd(t) => DownInv'
        /\ RouteScan(t) \/ RouteChosen(t) \/ RoutePush(t) \/ RouteNobody(t) => DownInv'
    BY <2>1 DEF PublishScan, PublishPush, PublishEnd, RouteScan, RouteChosen, RoutePush,
                RouteNobody, Enqueue, Drop, busVars
  <2>5. /\ \A c \in Conns : RecvNow(t, c) \/ RecvTimed(t, c) => DownInv'
        /\ RecvStep(t) \/ DeadlinePasses(t) \/ RecvSpurious(t) => DownInv'
    BY <2>1 DEF RecvNow, RecvTimed, RecvTest, RecvStep, RecvAgain, RecvBlock, RecvTimeout,
                RecvGiveUp, DeadlinePasses, RecvSpurious, PopAndReturn, busVars
  <2> QED BY <2>2, <2>3, <2>4, <2>5
<1> QED BY <1>1, <1>2, NextCases

\* Messages reach only connected clients with room, in the order they were
\* queued, and each is received once; the totals count the pushes and the
\* drops.  The bus of locks and rings is, to its clients, the mailboxes.
THEOREM BusRefinesMailboxes == Spec => ImplementsMailboxes
<1>1. Init => Box!Init /\ DownInv
  BY InitRefines
<1>2. DownInv /\ [Next]_vars => DownInv'
  BY NextKeepsDown
<1>3. IInv /\ OnInv /\ DownInv /\ [Next]_vars => [Box!Next]_(Box!boxVars)
  BY NextRefines
<1>4. Spec => Box!Init /\ [][Box!Next]_(Box!boxVars)
  BY <1>1, <1>2, <1>3, Invariant, PTL DEF Spec
<1> QED BY <1>4 DEF ImplementsMailboxes, Box!Spec
=============================================================================
