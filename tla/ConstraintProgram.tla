------------------------- MODULE ConstraintProgram -------------------------
(***************************************************************************)
(* Constraint programs of hyperkitty-constraints (ast.rs, evaluator.rs): a *)
(* sequence of constraints, each a sequence of requirements and what to    *)
(* answer when one of them fails.  A program is judged under bindings, a   *)
(* partial function from names to Booleans.                                *)
(***************************************************************************)
EXTENDS Naturals, Sequences, FiniteSets

Predicate(n) == [kind |-> "Predicate", name |-> n]
Check(n)     == [kind |-> "Check", name |-> n]
Constraint(n, p, reqs, other) ==
  [name |-> n, param |-> p, requires |-> reqs, otherwise |-> other]

\* A name that is not bound is false; two checks are built in.
Bound(b, n) == n \in DOMAIN b /\ b[n]
RequirementHolds(r, b) ==
  \/ r = Check("always_true")
  \/ r # Check("always_false") /\ Bound(b, r.name)

ConstraintHolds(c, b) ==
  \/ \A i \in DOMAIN c.requires : RequirementHolds(c.requires[i], b)
  \/ c.otherwise = "Accept"

evaluate(p, b)      == \A i \in DOMAIN p : ConstraintHolds(p[i], b)
count_passing(p, b) == Cardinality({i \in DOMAIN p : ConstraintHolds(p[i], b)})

\* PASS or FAIL for each, and the line at the end.
report(p, b) == [lines |-> [i \in DOMAIN p |-> ConstraintHolds(p[i], b)],
                 passed |-> count_passing(p, b), constraints |-> Len(p)]

\* By name only the first of that name is looked at.
NotFound == "not found"
evaluate_constraint(p, n, b) ==
  LET named == {i \in DOMAIN p : p[i].name = n}
      first == CHOOSE i \in named : \A j \in named : i <= j
  IN IF named = {} THEN NotFound ELSE ConstraintHolds(p[first], b)
============================================================================
