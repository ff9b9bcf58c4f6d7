------------------------------ MODULE NandGates ------------------------------
(***************************************************************************)
(* The Boolean kernel of hyperkitty-nand: gates made of NAND, expressions  *)
(* whose only inner node is NAND, and their truth tables; with the gates   *)
(* of nand_filter.c.  A session starts from a leaf and builds one          *)
(* expression on another, together with what it should mean.               *)
(***************************************************************************)
EXTENDS Naturals, Sequences

CONSTANTS NVars,  \* variables of an expression
          MaxOps  \* bound on the operators of an expression
ASSUME TreeBounds == NVars \in Nat \ {0} /\ MaxOps \in Nat

VARIABLES expr, meaning, ops
gateVars == <<expr, meaning, ops>>

\* primitive.rs
nand(a, b) == ~(a /\ b)
not(a)     == nand(a, a)
and(a, b)  == nand(nand(a, b), nand(a, b))
or(a, b)   == nand(nand(a, a), nand(b, b))
xor(a, b)  == nand(nand(nand(a, a), b), nand(a, nand(b, b)))
implies(a, b) == nand(a, nand(b, b))
nor(a, b)  == not(or(a, b))
xnor(a, b) == not(xor(a, b))

\* nand_filter.c derives two of them another way.
c_implies(a, b) == or(not(a), b)
c_xor(a, b)     == and(nand(a, b), or(a, b))
\* and offers two predicates, which nothing in the repository calls.
hk_nand_authority_check(capability, trusted, approval) ==
  LET nand_nand_abc == nand(nand(capability, trusted), approval)
  IN nand(nand_nand_abc, nand_nand_abc)
hk_nand_admissible(has_proof, entropy_ok, not_dangerous) ==
  LET proof_and_entropy == nand(nand(has_proof, entropy_ok), nand(has_proof, entropy_ok))
      gated == nand(proof_and_entropy, not(not_dangerous))
  IN nand(gated, gated)

\* boolean.rs: a tree gives what each of its nodes holds, a node being the turns
\* on the way to it, 1 to the first operand and 2 to the second.
Var(k)      == [p \in {<<>>} |-> [kind |-> "var", idx |-> k]]
Const(b)    == [p \in {<<>>} |-> [kind |-> "const", val |-> b]]
Nand(a, b)  ==
  [p \in {<<>>} \cup {<<1>> \o q : q \in DOMAIN a} \cup {<<2>> \o q : q \in DOMAIN b} |->
     IF p = <<>> THEN [kind |-> "nand"] ELSE IF Head(p) = 1 THEN a[Tail(p)] ELSE b[Tail(p)]]
from_not(a) == Nand(a, a)
from_and(a, b) == Nand(Nand(a, b), Nand(a, b))
\* Mutant: one operand is not negated.
X_from_or(a, b) == Nand(Nand(a, a), b)
from_or(a, b)  == Nand(Nand(a, a), Nand(b, b))
from_xor(a, b) == Nand(Nand(Nand(a, a), b), Nand(a, Nand(b, b)))
from_implies(a, b) == Nand(a, Nand(b, b))

leaf_value(leaf, bindings) == IF leaf.kind = "var" THEN bindings[leaf.idx] ELSE leaf.val
eval(e, bindings) ==
  LET value[p \in DOMAIN e] ==
        IF e[p].kind = "nand" THEN nand(value[Append(p, 1)], value[Append(p, 2)])
        ELSE leaf_value(e[p], bindings)
  IN value[<<>>]
lower_to_nand(e) ==
  LET lowered[p \in DOMAIN e] ==
        IF e[p].kind = "nand" THEN Nand(lowered[Append(p, 1)], lowered[Append(p, 2)])
        ELSE [q \in {<<>>} |-> e[p]]
  IN lowered[<<>>]

\* 1 << n and row >> n.
Shl[n \in 0 .. NVars] == IF n = 0 THEN 1 ELSE 2 * Shl[n - 1]
Shr(row) ==
  LET shifted[n \in 0 .. NVars] == IF n = 0 THEN row ELSE shifted[n - 1] \div 2 IN shifted
Rows == 0 .. Shl[NVars] - 1
RowBindings(row) == [k \in 1 .. NVars |-> Shr(row)[NVars - k] % 2 = 1]
truth_table(e) == [row \in Rows |-> <<RowBindings(row), eval(e, RowBindings(row))>>]
functionally_equivalent(a, b) ==
  \A r \in Rows : truth_table(a)[r][2] = truth_table(b)[r][2]

Assignments == [1 .. NVars -> BOOLEAN]
Leaves == {Var(k) : k \in 1 .. NVars} \cup {Const(b) : b \in BOOLEAN}

GatesInit == /\ expr \in Leaves /\ ops = 0
             /\ meaning = [s \in Assignments |-> eval(expr, s)]
Combine(tree, says) == /\ ops < MaxOps /\ ops' = ops + 1
                       /\ expr' = tree /\ meaning' = says
GatesNext == \E leaf \in Leaves :
  \/ Combine(from_not(expr), [s \in Assignments |-> not(meaning[s])])
  \/ Combine(from_and(expr, leaf), [s \in Assignments |-> and(meaning[s], eval(leaf, s))])
  \/ Combine(from_or(leaf, expr), [s \in Assignments |-> or(eval(leaf, s), meaning[s])])
  \/ Combine(from_xor(expr, leaf), [s \in Assignments |-> xor(meaning[s], eval(leaf, s))])
  \/ Combine(from_implies(expr, leaf), [s \in Assignments |-> implies(meaning[s], eval(leaf, s))])

GatesSpec == GatesInit /\ [][GatesNext]_gateVars

(***************************************************************************)
(* Properties                                                              *)
(***************************************************************************)

\* However an expression was put together, its truth table lists every
\* assignment once, most significant variable first, with the value the gates
\* of the primitive module compute, which are the Boolean functions of their
\* names in both languages; and lowering the expression changes none of it.
TableIsMeaning ==
  LET table == truth_table(expr) IN
  /\ \A s \in Assignments, b \in BOOLEAN :
       LET a == meaning[s] IN
       /\ <<not(a), and(a, b), or(a, b), nor(a, b)>> = <<~a, a /\ b, a \/ b, ~(a \/ b)>>
       /\ <<xor(a, b), xnor(a, b), c_xor(a, b)>> = <<a # b, a = b, a # b>>
       /\ <<implies(a, b), c_implies(a, b)>> = <<a => b, a => b>>
  /\ \A r \in DOMAIN table : table[r][2] = meaning[table[r][1]]
  /\ \A s \in Assignments : \E r \in DOMAIN table : table[r][1] = s
  /\ functionally_equivalent(expr, lower_to_nand(expr))

\* nand.h:54 and nand.h:67: authority is "capability, trusted and approval",
\* and admissible is "proof, entropy_ok and not dangerous", the last being a
\* flag that is 1 "if not a dangerous pattern" (nand.h:72).  The first flag is
\* what the session's formula says.
PredicatesKeepTheHeader ==
  \A s \in Assignments, b, c \in BOOLEAN :
    LET a == meaning[s] IN
    /\ hk_nand_authority_check(a, b, c) = (a /\ b /\ c)
    /\ hk_nand_admissible(a, b, c) = (a /\ b /\ c)
=============================================================================
