---------------------------- MODULE MCCommitPath ----------------------------
(***************************************************************************)
(* Small instances of the commit path.                                     *)
(***************************************************************************)
EXTENDS CommitPath, TLC

\* A glyph whose byte passes the kernel's glyph gate, and one whose byte does not.
MCInputs == {Pi, Omega}

Plain == from_reconciliation(Decide([current |-> Pi, previous |-> Gamma,
                                     proof_exists |-> TRUE, invariant_ok |-> TRUE]))

\* What the unit tests of both ends change in a good record, alone and in a
\* record that is not accepted or whose accepted is another number than 1; and
\* such a record with no flag set at all.
MCHandMade ==
  {Plain, [Plain EXCEPT !.abi_version = 999], [Plain EXCEPT !.next_state = 10]}
  \cup {[Plain EXCEPT !.entropy = e, !.accepted = a] : e \in {-1, 20, 21, NaN, Inf}, a \in 0 .. 2}
  \cup UNION {{[Plain EXCEPT !.entropy_ok = 0, !.accepted = a],
               [Plain EXCEPT !.reconciliation_ok = 0, !.accepted = a],
               [Plain EXCEPT !.route_valid = 0, !.accepted = a],
               [Plain EXCEPT !.proof_ok = 0, !.accepted = a]} : a \in 0 .. 2}
  \cup {[Plain EXCEPT !.accepted = a, !.entropy_ok = 0, !.reconciliation_ok = 0,
                      !.route_valid = 0, !.proof_ok = 0] : a \in 1 .. 2}

MCSymmetry == Permutations(Callers)
============================================================================
