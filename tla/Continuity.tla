----------------------------- MODULE Continuity -----------------------------
(***************************************************************************)
(* The objects of hyperkitty-continuity and hyperkitty-magma that keep     *)
(* state between calls: the bit mask of an environment, the shared memory  *)
(* with its version, the chain of seeds, and the registry of nonces.  Each *)
(* is on its own; callers use them in any order.                           *)
(***************************************************************************)
EXTENDS Integers, Sequences, FiniteSets

CONSTANTS MaskBits,      \* 64 in the code
          Positions,     \* bits callers name, 0 .. 255 in the code
          Nonces, SharedKeys, SharedValues,
          GenesisSeed,   \* the seed of the chain
          MaxUses        \* bound on the calls
ASSUME ContinuityBounds == {MaskBits, MaxUses} \cup Positions \subseteq Nat

VARIABLES mask,    \* EnvironmentBitmask, the set of the bits that are 1
          seen,    \* NonceRegistry
          memory,  \* SharedMemory: [data, version]
          chain,   \* SeedChain: [seed, index]
          uses     \* the calls made and what they answered
continuityVars == <<mask, seen, memory, chain, uses>>

ContinuityInit == /\ mask = {} /\ seen = {}
                  /\ memory = [data |-> <<>>, version |-> 0]
                  /\ chain = [seed |-> GenesisSeed, index |-> 0]
                  /\ uses = <<>>
Use(call, at, answer) ==
  /\ Len(uses) < MaxUses
  /\ uses' = Append(uses, [call |-> call, at |-> at, answer |-> answer])

\* A position past the end of the mask is not set and reads as clear.
get_bit(position) == position < MaskBits /\ position \in mask
set_bit(position, value) ==
  /\ Use("set", position, value)
  /\ mask' = IF position >= MaskBits THEN mask
             ELSE IF value THEN mask \cup {position} ELSE mask \ {position}
  /\ UNCHANGED <<seen, memory, chain>>

\* The answer is whether the nonce was new; otherwise it is a replay.
check_and_register(nonce) ==
  /\ Use("nonce", nonce, nonce \notin seen)
  /\ seen' = seen \cup {nonce}
  /\ UNCHANGED <<mask, memory, chain>>

write(key, value) ==
  /\ Use("write", key, value)
  /\ memory' = [data |-> [k \in DOMAIN memory.data \cup {key} |->
                            IF k = key THEN value ELSE memory.data[k]],
                version |-> memory.version + 1]
  /\ UNCHANGED <<mask, seen, chain>>
\* An Option: a set of at most one value.
read(key) == {memory.data[k] : k \in {key} \cap DOMAIN memory.data}

\* The operation is not looked at, and the seed stays.
advance ==
  /\ Use("advance", GenesisSeed, chain.seed)
  /\ chain' = [chain EXCEPT !.index = @ + 1]
  /\ UNCHANGED <<mask, seen, memory>>

ContinuityNext ==
  \/ \E position \in Positions, value \in BOOLEAN : set_bit(position, value)
  \/ \E nonce \in Nonces : check_and_register(nonce)
  \/ \E key \in SharedKeys, value \in SharedValues : write(key, value)
  \/ advance
ContinuitySpec == ContinuityInit /\ [][ContinuityNext]_continuityVars

(***************************************************************************)
(* Property                                                                *)
(***************************************************************************)

\* Every object remembers exactly its own calls: a bit is the last value set at
\* its place and no other bit has moved, a nonce is taken once however often it
\* comes back, a read gives the last write of its key, and version and index
\* count what happened, so that a version names one state of the memory.
Calls(call)       == {k \in DOMAIN uses : uses[k].call = call}
CallsAt(call, at) == {k \in Calls(call) : uses[k].at = at}
IsLast(k, calls)  == k \in calls /\ \A j \in calls : j <= k
UsesAreRemembered ==
  /\ \A position \in Positions :
       get_bit(position) <=> position < MaskBits /\ \E k \in DOMAIN uses :
                               IsLast(k, CallsAt("set", position)) /\ uses[k].answer
  /\ \A nonce \in Nonces : \A k \in CallsAt("nonce", nonce) :
       uses[k].answer <=> \A j \in CallsAt("nonce", nonce) : k <= j
  /\ \A key \in SharedKeys :
       read(key) = {uses[k].answer : k \in {j \in DOMAIN uses : IsLast(j, CallsAt("write", key))}}
  /\ memory.version = Cardinality(Calls("write")) /\ chain.index = Cardinality(Calls("advance"))
  /\ \A k \in Calls("advance") : uses[k].answer = chain.seed
=============================================================================
