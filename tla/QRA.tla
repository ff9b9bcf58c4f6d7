-------------------------------- MODULE QRA --------------------------------
(***************************************************************************)
(* The routing algebra: the six glyphs, their bytes, and the next glyph of *)
(* a (current, previous) pair.  The repository has two tables: Q of the    *)
(* Rust crates (hyperkitty-qra) and the one routing_tensor.c allocates.    *)
(***************************************************************************)
EXTENDS Integers, Sequences

Glyph == 0 .. 5   \* Glyph::index

Pi     == 0
Gamma  == 1
Delta  == 2
Omega  == 3   \* the absorber
Lambda == 4   \* the left identity
Psi    == 5

\* Glyph::to_byte.  The bytes are not the indices.
to_byte(g) ==
  CASE g = Pi -> 1 [] g = Gamma -> 3 [] g = Delta -> 4
    [] g = Omega -> 10 [] g = Lambda -> 255 [] g = Psi -> 11

\* pub const Q: rows are the current glyph, columns the previous one.
Q == << <<2, 2, 3, 3, 2, 2>>,
        <<2, 3, 3, 3, 2, 3>>,
        <<3, 3, 3, 3, 2, 3>>,
        <<3, 3, 3, 3, 3, 3>>,
        <<0, 1, 2, 3, 4, 5>>,
        <<2, 3, 3, 3, 2, 3>> >>

next_glyph(c, p) == Q[c + 1][p + 1]

\* Mutant: the row of Lambda absorbs.
CTable_LambdaAbsorbs ==
  [c \in Glyph |-> [p \in Glyph |->
     IF c = Lambda THEN Omega
     ELSE IF <<c, p>> \in {<<Pi, Gamma>>, <<Gamma, Pi>>} THEN Delta
     ELSE IF c = Delta /\ p = Delta THEN Omega
     ELSE c]]

\* routing_tensor_alloc: stay where you are, except for these entries.
CTable ==
  [c \in Glyph |-> [p \in Glyph |->
     IF c = Lambda THEN p
     ELSE IF <<c, p>> \in {<<Pi, Gamma>>, <<Gamma, Pi>>} THEN Delta
     ELSE IF c = Delta /\ p = Delta THEN Omega
     ELSE c]]

hk_qra_step(c, p) == CTable[c][p]
============================================================================
