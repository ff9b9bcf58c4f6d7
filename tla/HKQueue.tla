------------------------------ MODULE HKQueue ------------------------------
(***************************************************************************)
(* The bounded ring buffer of one bus connection: q_push and q_pop of      *)
(* src/reasoning/hyperkitty_bus.c, over the fields queue, q_head, q_tail   *)
(* and q_count of struct hk_conn.  Callers hold the connection's q_lock,   *)
(* so both are functions from a ring to a ring.                            *)
(***************************************************************************)
EXTENDS Integers, Sequences

CONSTANTS QMax,   \* HK_QUEUE_MAX, 256 in the code
          Msg,    \* the messages a slot can hold
          Unused  \* a slot whose `used` flag is false

ASSUME QueueAssumption == QMax \in Nat \ {0} /\ Unused \notin Msg

Slots == 0 .. QMax - 1

Ring == [slot  : [Slots -> Msg \cup {Unused}],
         head  : Slots,
         tail  : Slots,
         count : 0 .. QMax]

\* What calloc leaves: every field zero, no slot in use.
EmptyRing == [slot  |-> [s \in Slots |-> Unused],
              head  |-> 0,
              tail  |-> 0,
              count |-> 0]

Full(q)  == q.count >= QMax
Empty(q) == q.count = 0

\* Mutant: the index runs past the end.
NextSlot_NoWrap(s) == s + 1

NextSlot(s) == IF s + 1 = QMax THEN 0 ELSE s + 1   \* (s + 1) % HK_QUEUE_MAX

\* q_push on a ring that is not full.
q_push(q, m) ==
  [slot  |-> [q.slot EXCEPT ![q.tail] = m],
   head  |-> q.head,
   tail  |-> NextSlot(q.tail),
   count |-> q.count + 1]

\* q_pop on a ring that is not empty: the message, and the ring without it.
Front(q) == q.slot[q.head]

\* Mutant: the head does not move.
q_pop_KeepsHead(q) ==
  [slot  |-> [q.slot EXCEPT ![q.head] = Unused],
   head  |-> q.head,
   tail  |-> q.tail,
   count |-> q.count - 1]

q_pop(q) ==
  [slot  |-> [q.slot EXCEPT ![q.head] = Unused],
   head  |-> NextSlot(q.head),
   tail  |-> q.tail,
   count |-> q.count - 1]

----------------------------------------------------------------------------
\* The k-th queued message sits k-1 slots after the head, around the end.
SlotOf(q, k) == IF q.head + k - 1 < QMax THEN q.head + k - 1
                                         ELSE q.head + k - 1 - QMax

\* The ring read as the FIFO queue it stands for.
Contents(q) == [k \in 1 .. q.count |-> q.slot[SlotOf(q, k)]]

\* The three indices agree, and exactly the queued slots are in use.
WellFormed(q) ==
  /\ q.tail = IF q.head + q.count < QMax THEN q.head + q.count
                                         ELSE q.head + q.count - QMax
  /\ \A s \in Slots :
       (q.slot[s] # Unused) <=> (\E k \in 1 .. q.count : s = SlotOf(q, k))
============================================================================
