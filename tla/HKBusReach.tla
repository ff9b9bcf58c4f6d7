----------------------------- MODULE HKBusReach -----------------------------
(***************************************************************************)
(* Whom a publish reaches.  hk_bus_publish walks bus->conns by index, and  *)
(* hk_bus_disconnect moves the last connection into a hole of the array.   *)
(* The bus of HKBus, with a memory of whom the publish in progress has     *)
(* offered its message to.                                                 *)
(***************************************************************************)
EXTENDS HKBus

VARIABLES
  offered, \* history: the connections whose q_push the publish has called
  steady   \* history: the connections whose subscriptions are what they were
           \* when the publish took bus->lock

reachVars == <<vars, offered, steady>>

Publishing == \E t \in Threads : pc[t] \in {"pub_scan", "pub_push"}

\* The connections whose turn in the loop of a publish ends with this step in
\* a q_push, be it refused.
JustOffered ==
  {conns[call[t].i] : t \in {u \in Threads : pc[u] = "pub_push" /\ pc'[u] = "pub_scan"}}

ReachInit == Init /\ offered = {} /\ steady = Conns

Remember ==
  /\ offered' = IF Publishing' THEN offered \cup JustOffered ELSE {}
  /\ steady' = IF Publishing' THEN {c \in steady : subs'[c] = subs[c]} ELSE Conns

ReachSpec == ReachInit /\ [][Next /\ Remember]_reachVars

----------------------------------------------------------------------------
\* The message is meant for c, and was when the publish began.
Entitled(m, c) ==
  /\ active[c]
  /\ Addressed(m, c) \/ (Broadcast(m) /\ c \in steady /\ Subscribed(c, m.topic))

\* The places of the table before the i-th have been offered message m if they
\* are entitled to it, and those from the i-th on have not been offered it.
WalkedTo(m, i) ==
  \A k \in DOMAIN conns :
    IF k < i THEN Entitled(m, conns[k]) => conns[k] \in offered
    ELSE conns[k] \notin offered

\* A publish skips nobody and asks nobody twice, whatever connects, disconnects,
\* subscribes or receives meanwhile: every connection that is in the table when
\* its place has been walked by and to whom the message is due was offered it,
\* and none still to come was (bus->lock keeps the array still under the loop of
\* hk_bus_publish although hk_bus_disconnect moves the last entry forward).
NobodyIsSkipped ==
  \A t \in Threads :
    pc[t] \in {"pub_scan", "pub_push"} => WalkedTo(call[t].msg, call[t].i)
============================================================================
