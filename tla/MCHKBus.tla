------------------------------ MODULE MCHKBus ------------------------------
(***************************************************************************)
(* Small instances of the bus.  Strings stand for ids and topics.          *)
(***************************************************************************)
EXTENDS HKBus, TLC

\* One topic, reached by an exact pattern, by a prefix pattern, and by a
\* pattern too long to store, whose first 127 characters are the exact one.
Exact == [stem |-> "x.1", wild |-> FALSE]
Under == [stem |-> "x.", wild |-> TRUE]
Long  == [stem |-> "x.1-and-more", wild |-> TRUE]

MCPrefix == {<<"", "x.1">>, <<"x.", "x.1">>, <<"x.1", "x.1">>}

AllPatterns == {Exact, Under, Long}
OnePattern  == {Exact}
CutAll      == [p \in AllPatterns |-> IF p = Long THEN Exact ELSE p]
CutOne      == [p \in OnePattern |-> p]

\* A broadcast, and a message addressed to a connection that may not exist.
MCRequests == {[to |-> "", topic |-> "x.1"], [to |-> "a", topic |-> "x.1"]}
MCMsg      == [to : {r.to : r \in MCRequests}, topic : {r.topic : r \in MCRequests},
               corr : 1 .. MaxCalls]

OneId  == {"a"}
TwoIds == {"a", "b"}

Symmetry ==
  Permutations(Senders) \cup Permutations(Receivers) \cup Permutations(Conns)
============================================================================
