--------------------------- MODULE ConstraintGate ---------------------------
(***************************************************************************)
(* The validity predicate of constraint_dsl.c and the context it judges.   *)
(* The fields are public: between two checks the caller writes whatever it *)
(* has computed, and a message that passes makes the proposed invariant    *)
(* the current one.  Vectors count in units of the tolerance 1e-8, the     *)
(* entropy in hundredths of a nat; a float may also be NaN, of which every *)
(* comparison is false.                                                    *)
(***************************************************************************)
EXTENDS Integers

CONSTANTS Dim,       \* length of the invariant vectors
          Readings,  \* values a component may take
          NaN,
          MaxPassed  \* bound on the messages that pass
ASSUME GateAssumption == Dim \in Nat /\ Readings \subseteq Nat /\ NaN \notin Int /\ MaxPassed \in Nat

VARIABLES ctx,    \* the hk_constraint_context; no field when there is none
          passed, \* how many messages have propagated
          steady  \* the components that have been numbers ever since
ctxVars == <<ctx, passed, steady>>

None == <<>>
IsNumber(x) == x # NaN
FAbs(x)     == IF x < 0 THEN -x ELSE x

check_accounting_balance(l) ==
  /\ \A x \in {l.asset, l.equity, l.liability, l.revenue} : IsNumber(x)
  /\ l.asset + l.equity = l.liability + l.revenue
\* Mutant: twice the tolerance.
X_MovedTooFar(x, y) == IsNumber(x) /\ IsNumber(y) /\ FAbs(x - y) > 2
\* It looks for a component that has moved too far; NaN has not.
MovedTooFar(x, y) == IsNumber(x) /\ IsNumber(y) /\ FAbs(x - y) > 1
check_invariant_preserved(inv) == \A i \in 1 .. Dim : ~MovedTooFar(inv.current[i], inv.next[i])
check_entropy_bound(h) == IsNumber(h) /\ h <= 20
check_proof_exists(cert) == cert
hk_constraint_check_all(c) ==
  /\ check_accounting_balance(c.ledger) /\ check_invariant_preserved(c.invariant)
  /\ check_entropy_bound(c.entropy) /\ check_proof_exists(c.proof)

Zero == [i \in 1 .. Dim |-> 0]
ContextInit == ctx = None /\ passed = 0 /\ steady = {}
\* One of the three allocations may fail; the others are then given back.
hk_constraint_context_alloc ==
  /\ ctx = None /\ passed' = 0 /\ steady' = 1 .. Dim
  /\ ctx' \in {None,
       [ledger |-> [asset |-> 1, equity |-> 1, liability |-> 2, revenue |-> 0],
        invariant |-> [current |-> Zero, next |-> Zero], entropy |-> 0, proof |-> FALSE]}
hk_constraint_context_free ==
  ctx # None /\ ctx' = None /\ passed' = 0 /\ steady' = {}

\* The caller describes a message in the context.
Write ==
  /\ ctx # None /\ UNCHANGED <<passed, steady>>
  /\ \/ \E v \in [1 .. Dim -> Readings \cup {NaN}] : ctx' = [ctx EXCEPT !.invariant.next = v]
     \/ \E x \in {1, 2, NaN} : ctx' = [ctx EXCEPT !.ledger.asset = x]
     \/ \E h \in {0, 20, 21, NaN} : ctx' = [ctx EXCEPT !.entropy = h]
     \/ \E b \in BOOLEAN : ctx' = [ctx EXCEPT !.proof = b]
\* The message passes, and the state it proposes becomes the current one.
Propagate ==
  /\ ctx # None /\ hk_constraint_check_all(ctx) /\ passed < MaxPassed
  /\ ctx' = [ctx EXCEPT !.invariant.current = ctx.invariant.next]
  /\ passed' = passed + 1
  /\ steady' = {i \in steady : IsNumber(ctx.invariant.next[i])}
ContextNext == hk_constraint_context_alloc \/ hk_constraint_context_free \/ Write \/ Propagate
ContextSpec == ContextInit /\ [][ContextNext]_ctxVars

(***************************************************************************)
(* Property                                                                *)
(***************************************************************************)

\* "I(X_t) = I(X_{t+1})" is checked with a tolerance, and tolerances add up:
\* after n messages a component is within n of where it started, no nearer.
\* This holds only of a component that has been a number all along: the gate
\* takes NaN for no change, in both directions, and lets it come back anywhere.
DriftIsBounded ==
  \A i \in steady : ctx # None =>
    IsNumber(ctx.invariant.current[i]) /\ ctx.invariant.current[i] <= passed
=============================================================================
