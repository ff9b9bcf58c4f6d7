----------------------------- MODULE Mailboxes -----------------------------
(***************************************************************************)
(* What the bus promises its clients, with no threads, locks or rings:     *)
(* every connection has a bounded FIFO mailbox.  A message is put only in  *)
(* the mailbox of a connected client that has room, is refused only when   *)
(* that mailbox is full, and is taken in the order it was put.  A client   *)
(* that left can still drain its mailbox and receives nothing more.        *)
(***************************************************************************)
EXTENDS Integers, Sequences

CONSTANTS Conns, Msg, QMax

VARIABLES open,    \* the connected clients
          box,     \* each client's mailbox
          refused, \* messages refused because that client's mailbox was full
          routed,  \* messages put since the bus started
          dropped  \* messages refused since the bus started

boxVars == <<open, box, refused, routed, dropped>>

Init ==
  /\ open = {}
  /\ box = [c \in Conns |-> << >>]
  /\ refused = [c \in Conns |-> 0]
  /\ routed = 0
  /\ dropped = 0

Open(c) ==
  /\ c \notin open
  /\ open' = open \cup {c}
  /\ box' = [box EXCEPT ![c] = << >>]
  /\ refused' = [refused EXCEPT ![c] = 0]
  /\ UNCHANGED <<routed, dropped>>

Close(c) ==
  /\ open' = open \ {c}
  /\ UNCHANGED <<box, refused, routed, dropped>>

Put(c, m) ==
  /\ c \in open
  /\ Len(box[c]) < QMax
  /\ box' = [box EXCEPT ![c] = Append(@, m)]
  /\ routed' = routed + 1
  /\ UNCHANGED <<open, refused, dropped>>

Refuse(c) ==
  /\ c \in open
  /\ Len(box[c]) = QMax
  /\ refused' = [refused EXCEPT ![c] = @ + 1]
  /\ dropped' = dropped + 1
  /\ UNCHANGED <<open, box, routed>>

Take(c) ==
  /\ box[c] # << >>
  /\ box' = [box EXCEPT ![c] = Tail(@)]
  /\ UNCHANGED <<open, refused, routed, dropped>>

Shutdown ==
  /\ open' = {}
  /\ UNCHANGED <<box, refused, routed, dropped>>

Restart ==
  /\ open = {}
  /\ routed' = 0
  /\ dropped' = 0
  /\ UNCHANGED <<open, box, refused>>

Next ==
  \/ \E c \in Conns : Open(c) \/ Close(c) \/ Refuse(c) \/ Take(c)
  \/ \E c \in Conns, m \in Msg : Put(c, m)
  \/ Shutdown
  \/ Restart

Spec == Init /\ [][Next]_boxVars
============================================================================
