---------------------------- MODULE WitnessRuns ----------------------------
(***************************************************************************)
(* The three loops that follow the routing tables to their end:            *)
(*   exhaust               Witness::exhaust, which has no bound of its own *)
(*   route_to_convergence  QRADispatcher, at most MAX_ITERATIONS turns     *)
(*   token_lifetime        hk_qra_token_lifetime, at most max_steps turns  *)
(* Each is one call from any start; a step is one turn of its loop.        *)
(***************************************************************************)
EXTENDS QRA, SequencesExt

CONSTANTS
  MaxSteps,   \* the values of max_steps callers pass
  NoResult    \* the call has not returned

ASSUME StepsAssumption == MaxSteps \subseteq Nat /\ NoResult \notin Nat

MAX_ITERATIONS == 100

VARIABLES
  fn,        \* the function called
  states,    \* what it has passed through: history, states, or the C witness
  budget,    \* max_steps of token_lifetime
  result     \* what it returned

runVars == <<fn, states, budget, result>>

----------------------------------------------------------------------------
Witness == Glyph \X Glyph \X Glyph

All(w, g) == \A i \in 1 .. 3 : w[i] = g

is_exhausted(w)           == All(w, Omega)    \* and hk_qra_is_absorbed
is_invalid_fixed_point(w) == All(w, Lambda)   \* and hk_qra_is_fixed

canonical_witness == <<Pi, Gamma, Delta>>

evolve_witness(w) == <<next_glyph(w[1], w[2]), next_glyph(w[2], w[3]), next_glyph(w[3], w[1])>>

\* What the crates ask of their table.
validate_identity_row == \A p \in Glyph : next_glyph(Lambda, p) = p
validate_absorber_row == \A p \in Glyph : next_glyph(Omega, p) = Omega
validate_canonical_exhaustion == is_exhausted(evolve_witness(evolve_witness(canonical_witness)))

\* The pair is valid whatever it is.
QRADispatchResult(current, previous) ==
  [current |-> current, previous |-> previous, next |-> next_glyph(current, previous),
   is_absorber |-> next_glyph(current, previous) = Omega, is_valid |-> TRUE]

hk_qra_evolve_witness(w) ==
  <<hk_qra_step(w[1], w[2]), hk_qra_step(w[2], w[3]), hk_qra_step(w[3], w[1])>>

----------------------------------------------------------------------------
RunsInit ==
  /\ result = NoResult
  /\ \/ fn = "exhaust" /\ budget = 0 /\ states \in {<<w>> : w \in Witness}
     \/ fn = "route_to_convergence" /\ budget = MAX_ITERATIONS
          /\ states \in {<<g>> : g \in Glyph}
     \/ fn = "token_lifetime" /\ budget \in MaxSteps /\ states \in {<<w>> : w \in Witness}

Called(f) == fn = f /\ result = NoResult

Turn(next) ==
  /\ states' = Append(states, next)
  /\ UNCHANGED <<fn, budget, result>>

Return(r) ==
  /\ result' = r
  /\ UNCHANGED <<fn, states, budget>>

\* Mutant: goes on from the fixed point.
Exhaust_NoFixedPoint ==
  /\ Called("exhaust")
  /\ IF is_exhausted(Last(states)) THEN Return([exhausted |-> TRUE, fixed_point |-> FALSE])
     ELSE Turn(evolve_witness(Last(states)))

Exhaust ==
  /\ Called("exhaust")
  /\ LET w == Last(states) IN
     \/ is_exhausted(w) /\ Return([exhausted |-> TRUE, fixed_point |-> FALSE])
     \/ is_invalid_fixed_point(w) /\ Return([exhausted |-> FALSE, fixed_point |-> TRUE])
     \/ ~is_exhausted(w) /\ ~is_invalid_fixed_point(w) /\ Turn(evolve_witness(w))

\* previous is the state before the last one, and Lambda at first.
Converge ==
  /\ Called("route_to_convergence")
  /\ LET current  == Last(states)
         previous == IF Len(states) = 1 THEN Lambda ELSE states[Len(states) - 1]
         over     == current = Omega \/ Len(states) > budget
     IN  \/ over /\ Return("Ok")
         \/ ~over /\ Turn(QRADispatchResult(current, previous).next)

\* The fixed point is refused once, before the loop; a turn evolves the
\* witness, tests it, and returns the index of the turn.
Lifetime ==
  /\ Called("token_lifetime")
  /\ LET w    == Last(states)
         step == Len(states) - 1
         next == hk_qra_evolve_witness(w)
     IN  \/ step = 0 /\ is_invalid_fixed_point(w) /\ Return(-1)
         \/ /\ ~(step = 0 /\ is_invalid_fixed_point(w))
            /\ \/ step >= budget /\ Return(-1)
               \/ step < budget /\ is_exhausted(next) /\ Return(step)
               \/ step < budget /\ ~is_exhausted(next) /\ Turn(next)

RunsNext == Exhaust \/ Converge \/ Lifetime

RunsSpec == RunsInit /\ [][RunsNext]_runVars

----------------------------------------------------------------------------
Start == states[1]

\* The witness after n evolutions by the Rust table.
Evolved(w, n) == FoldLeft(LAMBDA v, i : evolve_witness(v), w, [i \in 1 .. n |-> i])

\* Witness::exhaust has no bound: it comes back because the table exhausts
\* every witness but <<Lambda, Lambda, Lambda>> within three evolutions, and it
\* calls exactly that one a fixed point; the canonical witness takes two, as
\* the crates validate; and what it returns last evolves no further.
ExhaustEnds ==
  fn = "exhaust" =>
    /\ Len(states) <= 4
    /\ result # NoResult => /\ result.fixed_point <=> Start = <<Lambda, Lambda, Lambda>>
                            /\ is_exhausted(Last(states)) <=> result.exhausted
                            /\ evolve_witness(Last(states)) = Last(states)
    /\ result # NoResult /\ Start = canonical_witness =>
         Len(states) = 3 /\ validate_canonical_exhaustion

\* route_to_convergence reaches the absorber in at most three moves, except
\* from Lambda, where it runs to its bound and returns Ok with Lambdas only.
ConvergeEnds ==
  fn = "route_to_convergence" =>
    IF Start = Lambda
    THEN \A i \in DOMAIN states : states[i] = Lambda
    ELSE Len(states) <= 4 /\ (result # NoResult => Last(states) = Omega)

\* Both loops over the Rust table end where they should, from every start, on a
\* table that passes the checks of its crate.
LoopsEnd == /\ validate_identity_row /\ validate_absorber_row
            /\ ExhaustEnds /\ ConvergeEnds

\* The C code never takes more turns than it was given, and a token it lets
\* expire after so many is exhausted for the Rust code too by then, though the
\* two tables differ.
LifetimeAgrees ==
  fn = "token_lifetime" =>
    /\ Len(states) <= budget + 1
    /\ result # NoResult => result \in -1 .. budget - 1
    /\ result \in Nat => is_exhausted(Evolved(Start, result + 1))
============================================================================
