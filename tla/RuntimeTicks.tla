---------------------------- MODULE RuntimeTicks ----------------------------
(***************************************************************************)
(* The tick runtime of hyperkitty-runtime: a world of facts, actions that  *)
(* change it, and the history of ticks.  advance_tick works on a copy and  *)
(* keeps the copy as the tick's outcome; the proof it is given is not      *)
(* looked at, and a tick's verify says yes to anything.                    *)
(***************************************************************************)
EXTENDS Naturals, Sequences, FiniteSets, SequencesExt, Functions

CONSTANTS Keys, Values,
          MaxTicks, \* bound on the ticks
          MaxBatch  \* bound on the actions of a batch

VARIABLES current_state, \* the facts, a partial function
          tick_history
tickVars == <<current_state, tick_history>>

\* A batch within a batch does what its actions in their order do.
Basic   == [kind : {"SetFact"}, key : Keys, value : Values] \cup
           [kind : {"RemoveFact"}, key : Keys]
Actions == UNION {[1 .. n -> Basic] : n \in 0 .. MaxBatch}

apply_basic(world, a) ==
  IF a.kind = "SetFact" THEN (a.key :> a.value) @@ world
  ELSE Restrict(world, DOMAIN world \ {a.key})
apply(world, action) == FoldLeft(apply_basic, world, action)

Tick(index, sigma_in, action, sigma_out) ==
  [index |-> index, sigma_in |-> sigma_in, action |-> action, sigma_out |-> sigma_out,
   receipt |-> <<"sha256", index, action>>]

TicksInit == current_state = <<>> /\ tick_history = <<>>
\* current_index is the length of the history.
advance_tick(action) ==
  LET sigma_out == apply(current_state, action) IN
  /\ Len(tick_history) < MaxTicks
  /\ tick_history' = Append(tick_history,
                            Tick(Len(tick_history), current_state, action, sigma_out))
  /\ current_state' = sigma_out
TicksNext == \E action \in Actions : advance_tick(action)

TicksSpec == TicksInit /\ [][TicksNext]_tickVars

(***************************************************************************)
(* Property                                                                *)
(***************************************************************************)

\* The history alone rebuilds the world: each tick starts where the one before
\* it ended, the first in the empty world, and running all actions again
\* gives each outcome and the current state; no two receipts are the same.
\* The receipts do not cover the worlds, so this is what a verifier would have
\* to check, for verify_all_ticks does not.
Replay(n) == FoldLeft(apply, <<>>, [i \in 1 .. n |-> tick_history[i].action])
HistoryReplays ==
  /\ current_state = Replay(Len(tick_history))
  /\ \A i \in DOMAIN tick_history :
       /\ tick_history[i].sigma_in = Replay(i - 1) /\ tick_history[i].sigma_out = Replay(i)
       /\ \A j \in 1 .. i - 1 : tick_history[j].receipt # tick_history[i].receipt
=============================================================================
