---------------------------- MODULE AlgebraProofs ----------------------------
(***************************************************************************)
(* The tables, the ledgers, the sphere and the numeric stages, for every   *)
(* value of the constants: the loops that follow the routing tables, the   *)
(* books of a ledger in integers of any width, the isomorphism of the      *)
(* three, what a page is told of them; and the algebra of spin factors,    *)
(* matrices and density loops in any dimension.                            *)
(***************************************************************************)
EXTENDS WasmCalls, WitnessRuns, DensityLoop, InductionLemmas

(***************************************************************************)
(* The routing tables and the three loops. From the third turn on the Rust *)
(* table has exhausted every witness but one, which it keeps.              *)
(***************************************************************************)

\* The Rust table, row by row.
LEMMA RustTable ==
  \A c, p \in Glyph :
    next_glyph(c, p) = CASE c = 0 -> IF p \in {2, 3} THEN 3 ELSE 2
                         [] c = 1 -> IF p \in {0, 4} THEN 2 ELSE 3
                         [] c = 2 -> IF p = 4 THEN 2 ELSE 3
                         [] c = 3 -> 3
                         [] c = 4 -> p
                         [] c = 5 -> IF p \in {0, 4} THEN 2 ELSE 3
<1>1. /\ Q[1] = <<2, 2, 3, 3, 2, 2>> /\ Q[2] = <<2, 3, 3, 3, 2, 3>> /\ Q[3] = <<3, 3, 3, 3, 2, 3>>
      /\ Q[4] = <<3, 3, 3, 3, 3, 3>> /\ Q[5] = <<0, 1, 2, 3, 4, 5>> /\ Q[6] = <<2, 3, 3, 3, 2, 3>>
  BY DEF Q
<1>2. \A c, p : next_glyph(c, p) = Q[c + 1][p + 1]
  BY DEF next_glyph
<1>3. \A p \in Glyph : /\ Q[1][p + 1] = (IF p \in {2, 3} THEN 3 ELSE 2)
                       /\ Q[2][p + 1] = (IF p \in {0, 4} THEN 2 ELSE 3)
                       /\ Q[3][p + 1] = (IF p = 4 THEN 2 ELSE 3)
                       /\ Q[4][p + 1] = 3
                       /\ Q[5][p + 1] = p
                       /\ Q[6][p + 1] = (IF p \in {0, 4} THEN 2 ELSE 3)
  BY <1>1 DEF Glyph
<1> QED BY <1>2, <1>3 DEF Glyph

\* The rows of the Rust table the proofs need.
LEMMA RustRows ==
  /\ \A p \in Glyph : next_glyph(Omega, p) = Omega /\ next_glyph(Lambda, p) = p
  /\ \A c, p \in Glyph : c # Lambda => next_glyph(c, p) \in {Delta, Omega}
  /\ \A c, p \in Glyph : next_glyph(c, p) \in Glyph
  /\ \A c \in Glyph \ {Omega, Lambda} : next_glyph(c, Lambda) = Delta
  /\ \A p \in Glyph : p # Lambda => next_glyph(Delta, p) = Omega
BY RustTable DEF Glyph, Omega, Lambda, Delta

\* The C table, row by row.
LEMMA CRows ==
  \A c, p \in Glyph :
    hk_qra_step(c, p) = CASE c = 0 -> IF p = 1 THEN 2 ELSE 0
                          [] c = 1 -> IF p = 0 THEN 2 ELSE 1
                          [] c = 2 -> IF p = 2 THEN 3 ELSE 2
                          [] c = 4 -> p
                          [] OTHER -> c
<1> SUFFICES ASSUME NEW c \in Glyph, NEW p \in Glyph
             PROVE  hk_qra_step(c, p) = CASE c = 0 -> IF p = 1 THEN 2 ELSE 0
                                          [] c = 1 -> IF p = 0 THEN 2 ELSE 1
                                          [] c = 2 -> IF p = 2 THEN 3 ELSE 2
                                          [] c = 4 -> p
                                          [] OTHER -> c
  OBVIOUS
<1>1. \A a, b, d, e : <<a, b>> = <<d, e>> <=> a = d /\ b = e
  OBVIOUS
<1>2. hk_qra_step(c, p) = IF c = Lambda THEN p
                          ELSE IF <<c, p>> \in {<<Pi, Gamma>>, <<Gamma, Pi>>} THEN Delta
                          ELSE IF c = Delta /\ p = Delta THEN Omega
                          ELSE c
  BY DEF hk_qra_step, CTable
<1> QED BY <1>1, <1>2 DEF Glyph, Pi, Gamma, Delta, Lambda, Omega

(***************************************************************************)
(* Witnesses.                                                              *)
(***************************************************************************)
Absorbed == <<Omega, Omega, Omega>>
Fixed    == <<Lambda, Lambda, Lambda>>

\* A witness is three glyphs.
LEMMA WitnessIs ==
  ASSUME NEW w \in Witness
  PROVE  /\ w[1] \in Glyph /\ w[2] \in Glyph /\ w[3] \in Glyph /\ w = <<w[1], w[2], w[3]>>
         /\ is_exhausted(w) <=> w = Absorbed
         /\ is_invalid_fixed_point(w) <=> w = Fixed
<1>1. w[1] \in Glyph /\ w[2] \in Glyph /\ w[3] \in Glyph /\ w = <<w[1], w[2], w[3]>>
  BY DEF Witness
<1>2. \A g : All(w, g) <=> w[1] = g /\ w[2] = g /\ w[3] = g
  BY DEF All
<1>3. \A a, b, c, g : <<a, b, c>> = <<g, g, g>> <=> a = g /\ b = g /\ c = g
  OBVIOUS
<1> QED BY <1>1, <1>2, <1>3 DEF is_exhausted, is_invalid_fixed_point, Absorbed, Fixed

\* A turn by one table or the other.
LEMMA TurnIs ==
  ASSUME NEW w \in Witness
  PROVE  /\ evolve_witness(w) \in Witness /\ hk_qra_evolve_witness(w) \in Witness
         /\ \A a, b, c : w = <<a, b, c>> =>
              /\ evolve_witness(w) = <<next_glyph(a, b), next_glyph(b, c), next_glyph(c, a)>>
              /\ hk_qra_evolve_witness(w) = <<hk_qra_step(a, b), hk_qra_step(b, c), hk_qra_step(c, a)>>
<1>1. w[1] \in Glyph /\ w[2] \in Glyph /\ w[3] \in Glyph
  BY WitnessIs
<1>2. \A c, p \in Glyph : next_glyph(c, p) \in Glyph /\ hk_qra_step(c, p) \in Glyph
  BY RustRows, CRows DEF Glyph
<1>3. evolve_witness(w) \in Witness /\ hk_qra_evolve_witness(w) \in Witness
  BY <1>1, <1>2 DEF evolve_witness, hk_qra_evolve_witness, Witness
<1> QED BY <1>3 DEF evolve_witness, hk_qra_evolve_witness

\* Three turns of the Rust table from any three glyphs.
LEMMA GlyphTriples ==
  ASSUME NEW a \in Glyph, NEW b \in Glyph, NEW c \in Glyph, ~(a = 4 /\ b = 4 /\ c = 4)
  PROVE  LET a1 == next_glyph(a, b)
             b1 == next_glyph(b, c)
             c1 == next_glyph(c, a)
             a2 == next_glyph(a1, b1)
             b2 == next_glyph(b1, c1)
             c2 == next_glyph(c1, a1)
         IN  /\ next_glyph(a2, b2) = 3 /\ next_glyph(b2, c2) = 3 /\ next_glyph(c2, a2) = 3
             /\ ~(a1 = 4 /\ b1 = 4 /\ c1 = 4) /\ ~(a2 = 4 /\ b2 = 4 /\ c2 = 4)
<1>1. \A x, y \in Glyph : next_glyph(x, y) \in Glyph
  BY RustRows
<1> QED BY <1>1, RustTable DEF Glyph

\* What the C table exhausts in one turn or two, the Rust table does.
LEMMA CTriples ==
  ASSUME NEW a \in Glyph, NEW b \in Glyph, NEW c \in Glyph
  PROVE  LET a1 == next_glyph(a, b)
             b1 == next_glyph(b, c)
             c1 == next_glyph(c, a)
             x1 == hk_qra_step(a, b)
             y1 == hk_qra_step(b, c)
             z1 == hk_qra_step(c, a)
         IN  /\ x1 = 3 /\ y1 = 3 /\ z1 = 3 => a1 = 3 /\ b1 = 3 /\ c1 = 3
             /\ hk_qra_step(x1, y1) = 3 /\ hk_qra_step(y1, z1) = 3 /\ hk_qra_step(z1, x1) = 3 =>
                next_glyph(a1, b1) = 3 /\ next_glyph(b1, c1) = 3 /\ next_glyph(c1, a1) = 3
<1>1. \A x, y \in Glyph : next_glyph(x, y) \in Glyph /\ hk_qra_step(x, y) \in Glyph
  BY RustRows, CRows DEF Glyph
<1> QED BY <1>1, RustTable, CRows DEF Glyph

\* Three turns absorb every witness but three Lambdas.
LEMMA ThreeTurns ==
  ASSUME NEW w \in Witness, w # Fixed
  PROVE  /\ evolve_witness(evolve_witness(evolve_witness(w))) = Absorbed
         /\ evolve_witness(w) # Fixed /\ evolve_witness(evolve_witness(w)) # Fixed
<1> DEFINE a == w[1]
           b == w[2]
           c == w[3]
<1>1. a \in Glyph /\ b \in Glyph /\ c \in Glyph /\ w = <<a, b, c>>
  BY WitnessIs
<1> HIDE DEF a, b, c
<1> DEFINE a1 == next_glyph(a, b)
           b1 == next_glyph(b, c)
           c1 == next_glyph(c, a)
           a2 == next_glyph(a1, b1)
           b2 == next_glyph(b1, c1)
           c2 == next_glyph(c1, a1)
           w1 == evolve_witness(w)
           w2 == evolve_witness(w1)
<1>2. w1 \in Witness /\ w1 = <<a1, b1, c1>>
  BY <1>1, TurnIs
<1>3. \A x, y, z, g : <<x, y, z>> = <<g, g, g>> <=> x = g /\ y = g /\ z = g
  OBVIOUS
<1>4. ~(a = 4 /\ b = 4 /\ c = 4)
  BY <1>1, <1>3 DEF Fixed, Lambda
<1>5. /\ next_glyph(a2, b2) = 3 /\ next_glyph(b2, c2) = 3 /\ next_glyph(c2, a2) = 3
      /\ ~(a1 = 4 /\ b1 = 4 /\ c1 = 4) /\ ~(a2 = 4 /\ b2 = 4 /\ c2 = 4)
  BY <1>1, <1>4, GlyphTriples
<1> HIDE DEF w1, a1, b1, c1
<1>6. w2 \in Witness /\ w2 = <<a2, b2, c2>>
  BY <1>2, TurnIs
<1> HIDE DEF w2, a2, b2, c2
<1>7. evolve_witness(w2) = <<3, 3, 3>>
  BY <1>5, <1>6, TurnIs
<1>8. w1 # Fixed /\ w2 # Fixed
  BY <1>2, <1>3, <1>5, <1>6 DEF Fixed, Lambda
<1> QED BY <1>7, <1>8 DEF w1, w2, Absorbed, Omega

\* What is absorbed stays absorbed.
LEMMA AbsorbedStays == evolve_witness(Absorbed) = Absorbed /\ Absorbed \in Witness
<1>1. Absorbed \in Witness /\ Absorbed = <<3, 3, 3>>
  BY DEF Witness, Glyph, Absorbed, Omega
<1>2. next_glyph(3, 3) = 3
  BY RustTable DEF Glyph
<1>3. evolve_witness(Absorbed) = <<next_glyph(3, 3), next_glyph(3, 3), next_glyph(3, 3)>>
  BY <1>1, TurnIs
<1> QED BY <1>1, <1>2, <1>3

\* What the C table absorbs in one turn or two, the Rust table does too.
LEMMA CAbsorbs ==
  ASSUME NEW w \in Witness
  PROVE  /\ hk_qra_evolve_witness(w) = Absorbed => evolve_witness(w) = Absorbed
         /\ hk_qra_evolve_witness(hk_qra_evolve_witness(w)) = Absorbed =>
              evolve_witness(evolve_witness(w)) = Absorbed
<1> DEFINE a == w[1]
           b == w[2]
           c == w[3]
<1>1. a \in Glyph /\ b \in Glyph /\ c \in Glyph /\ w = <<a, b, c>>
  BY WitnessIs
<1> HIDE DEF a, b, c
<1> DEFINE a1 == next_glyph(a, b)
           b1 == next_glyph(b, c)
           c1 == next_glyph(c, a)
           x1 == hk_qra_step(a, b)
           y1 == hk_qra_step(b, c)
           z1 == hk_qra_step(c, a)
           w1 == evolve_witness(w)
           v1 == hk_qra_evolve_witness(w)
<1>2. w1 \in Witness /\ w1 = <<a1, b1, c1>> /\ v1 \in Witness /\ v1 = <<x1, y1, z1>>
  BY <1>1, TurnIs
<1>3. /\ x1 = 3 /\ y1 = 3 /\ z1 = 3 => a1 = 3 /\ b1 = 3 /\ c1 = 3
      /\ hk_qra_step(x1, y1) = 3 /\ hk_qra_step(y1, z1) = 3 /\ hk_qra_step(z1, x1) = 3 =>
         next_glyph(a1, b1) = 3 /\ next_glyph(b1, c1) = 3 /\ next_glyph(c1, a1) = 3
  BY <1>1, CTriples
<1> HIDE DEF w1, a1, b1, c1, v1, x1, y1, z1
<1>4. /\ evolve_witness(w1) = <<next_glyph(a1, b1), next_glyph(b1, c1), next_glyph(c1, a1)>>
      /\ hk_qra_evolve_witness(v1) = <<hk_qra_step(x1, y1), hk_qra_step(y1, z1), hk_qra_step(z1, x1)>>
  BY <1>2, TurnIs
<1>5. \A x, y, z : <<x, y, z>> = Absorbed <=> x = 3 /\ y = 3 /\ z = 3
  BY DEF Absorbed, Omega
<1> QED BY <1>2, <1>3, <1>4, <1>5 DEF w1, v1

\* Evolved goes on by a turn of the Rust table.
LEMMA EvolvedSteps ==
  ASSUME NEW w \in Witness, NEW N \in Nat
  PROVE  \E f : /\ f[1 .. 0] = w /\ Evolved(w, N) = f[1 .. N]
                /\ \A n \in 0 .. N : f[1 .. n] \in Witness
                /\ \A n \in 1 .. N : f[1 .. n] = evolve_witness(f[1 .. n - 1])
<1> DEFINE h == [i \in 1 .. N |-> i]
           G == [n \in 1 .. N |-> [x \in Witness |-> evolve_witness(x)]]
           IsFold(f) == f = [s \in SUBSET (1 .. N) |->
                               IF s = {} THEN w ELSE evolve_witness(f[s \ {Max(s)}])]
           f == CHOOSE f : IsFold(f)
<1>0. \A x \in Witness : evolve_witness(x) \in Witness
  BY TurnIs
<1>1. PICK g : Folds(g, N, w, G)
  <2> HIDE DEF G
  <2> QED BY FoldExists
<1>2. \A s \in SUBSET (1 .. N) : g[s] \in Witness
  <2> DEFINE D == Witness
  <2>1. w \in D /\ \A n \in 1 .. N, x \in D : G[n][x] \in D
    BY <1>0
  <2> HIDE DEF G, D
  <2>3. \A s \in SUBSET (1 .. N) : g[s] \in D
    BY <1>1, <2>1, FoldTypes
  <2> QED BY <2>3 DEF D
<1>3. IsFold(g)
  <2>1. ASSUME NEW s \in SUBSET (1 .. N), s # {}
        PROVE  G[Max(s)][g[s \ {Max(s)}]] = evolve_witness(g[s \ {Max(s)}])
    <3>1. Max(s) \in 1 .. N
      BY <2>1, LastOfPlaces
    <3> QED BY <3>1, <1>2
  <2> HIDE DEF G
  <2> QED BY <1>1, <2>1 DEF Folds
<1>4. Evolved(w, N) = f[1 .. N]
  BY DEF Evolved, FoldLeft, MapThenFoldSet
<1>5. IsFold(f)
  <2> HIDE DEF IsFold
  <2> QED BY <1>3
<1> HIDE DEF f
<1>6. f[1 .. 0] = w
  <2>1. 1 .. 0 = {} /\ {} \in SUBSET (1 .. N)
    OBVIOUS
  <2> QED BY <1>5, <2>1
<1>7. ASSUME NEW n \in 1 .. N
      PROVE  f[1 .. n] = evolve_witness(f[1 .. n - 1])
  <2>1. n \in Nat /\ n # 0 /\ 1 .. n \in SUBSET (1 .. N)
    OBVIOUS
  <2>2. Max(1 .. n) = n /\ (1 .. n) \ {n} = 1 .. n - 1 /\ 1 .. n # {}
    BY <2>1, LastOfFirst
  <2> QED BY <1>5, <2>1, <2>2
<1> DEFINE S == {n \in 0 .. N : f[1 .. n] \in Witness}
<1>8. \A n \in 0 .. N : n \in S
  <2>1. 0 \in S
    BY <1>6
  <2>2. ASSUME NEW n \in 0 .. N - 1, n \in S PROVE n + 1 \in S
    <3>1. n + 1 \in 1 .. N /\ (n + 1) - 1 = n /\ n + 1 \in 0 .. N
      OBVIOUS
    <3>2. f[1 .. n + 1] = evolve_witness(f[1 .. n]) /\ f[1 .. n] \in Witness
      BY <1>7, <2>2, <3>1
    <3> QED BY <1>0, <3>1, <3>2
  <2> HIDE DEF S
  <2> QED BY <2>1, <2>2, UpTo
<1> QED BY <1>4, <1>6, <1>7, <1>8

\* From the third turn on the Rust table has exhausted it.
LEMMA EvolvedEnds ==
  ASSUME NEW w \in Witness, NEW N \in Nat
  PROVE  /\ N = 1 => Evolved(w, N) = evolve_witness(w)
         /\ N = 2 => Evolved(w, N) = evolve_witness(evolve_witness(w))
         /\ N >= 3 /\ w # Fixed => Evolved(w, N) = Absorbed
<1>1. PICK f : /\ f[1 .. 0] = w /\ Evolved(w, N) = f[1 .. N]
               /\ \A n \in 0 .. N : f[1 .. n] \in Witness
               /\ \A n \in 1 .. N : f[1 .. n] = evolve_witness(f[1 .. n - 1])
  BY EvolvedSteps
<1>2. N >= 1 => f[1 .. 1] = evolve_witness(w)
  <2> SUFFICES ASSUME N >= 1 PROVE f[1 .. 1] = evolve_witness(f[1 .. 0])
    BY <1>1
  <2>1. 1 \in 1 .. N /\ 1 - 1 = 0
    OBVIOUS
  <2> QED BY <1>1, <2>1
<1>3. N >= 2 => f[1 .. 2] = evolve_witness(evolve_witness(w))
  <2> SUFFICES ASSUME N >= 2 PROVE f[1 .. 2] = evolve_witness(f[1 .. 1])
    BY <1>2
  <2>1. 2 \in 1 .. N /\ 2 - 1 = 1
    OBVIOUS
  <2> QED BY <1>1, <2>1
<1>4. ASSUME N >= 3, w # Fixed PROVE f[1 .. N] = Absorbed
  <2>1. 3 \in 1 .. N /\ 3 - 1 = 2
    BY <1>4
  <2>2. f[1 .. 3] = evolve_witness(f[1 .. 2])
    BY <1>1, <2>1
  <2>3. f[1 .. 3] = Absorbed
    BY <1>3, <1>4, <2>2, ThreeTurns
  <2> DEFINE M == N - 3
             S == {n \in 0 .. M : f[1 .. n + 3] = Absorbed}
  <2>4. M \in Nat /\ 0 \in S
    BY <1>4, <2>3
  <2>5. ASSUME NEW n \in 0 .. M - 1, n \in S PROVE n + 1 \in S
    <3>1. n + 4 \in 1 .. N /\ (n + 4) - 1 = n + 3 /\ (n + 1) + 3 = n + 4 /\ n + 1 \in 0 .. M
      BY <1>4
    <3>2. f[1 .. n + 4] = evolve_witness(f[1 .. n + 3])
      BY <1>1, <3>1
    <3> QED BY <2>5, <3>1, <3>2, AbsorbedStays
  <2>6. M \in S
    <3> HIDE DEF S, M
    <3>1. \A n \in 0 .. M : n \in S
      BY <2>4, <2>5, UpTo
    <3> QED BY <2>4, <3>1
  <2>7. M + 3 = N
    OBVIOUS
  <2> QED BY <2>6, <2>7
<1> QED BY <1>1, <1>2, <1>3, <1>4

(***************************************************************************)
(* The invariant.                                                          *)
(***************************************************************************)
Exhausted == [exhausted |-> TRUE, fixed_point |-> FALSE]
Stuck     == [exhausted |-> FALSE, fixed_point |-> TRUE]
ExhaustInv ==
  /\ IsSeq(states) /\ Len(states) \in 1 .. 4 /\ \A i \in 1 .. Len(states) : states[i] \in Witness
  /\ \A i \in 1 .. Len(states) - 1 :
       states[i + 1] = evolve_witness(states[i]) /\ states[i] # Fixed /\ states[i] # Absorbed
  /\ result # NoResult => \/ result = Exhausted /\ states[Len(states)] = Absorbed
                          \/ result = Stuck /\ states[Len(states)] = Fixed
ConvergeInv ==
  /\ budget = MAX_ITERATIONS /\ IsSeq(states) /\ Len(states) >= 1 /\ states[1] \in Glyph
  /\ states[1] = Lambda => \A i \in 1 .. Len(states) : states[i] = Lambda
  /\ states[1] # Lambda =>
       /\ Len(states) <= 3
       /\ Len(states) >= 2 => states[1] # Omega /\ states[2] = Delta
       /\ Len(states) >= 3 => states[3] = Omega
       /\ result # NoResult => states[Len(states)] = Omega
LifetimeInv ==
  /\ budget \in Nat /\ IsSeq(states) /\ Len(states) \in 1 .. budget + 1
  /\ \A i \in 1 .. Len(states) : states[i] \in Witness
  /\ \A i \in 1 .. Len(states) - 1 : states[i + 1] = hk_qra_evolve_witness(states[i])
  /\ Len(states) >= 2 => states[1] # Fixed
  /\ result # NoResult =>
       \/ result = -1
       \/ /\ result = Len(states) - 1 /\ result < budget /\ states[1] # Fixed
          /\ hk_qra_evolve_witness(states[Len(states)]) = Absorbed
RunsInv ==
  /\ fn \in {"exhaust", "route_to_convergence", "token_lifetime"}
  /\ fn = "exhaust" => ExhaustInv
  /\ fn = "route_to_convergence" => ConvergeInv
  /\ fn = "token_lifetime" => LifetimeInv

LEMMA LastOfRun ==
  ASSUME NEW s, IsSeq(s)
  PROVE  Last(s) = s[Len(s)]
BY DEF Last

LEMMA RunsInvInit == RunsInit => RunsInv
<1> SUFFICES ASSUME RunsInit PROVE RunsInv
  OBVIOUS
<1>1. \A x : IsSeq(<<x>>) /\ Len(<<x>>) = 1 /\ <<x>>[1] = x
  BY DEF IsSeq
<1>2. ASSUME NEW x, states = <<x>> PROVE IsSeq(states) /\ Len(states) = 1 /\ states[1] = x
  BY <1>1, <1>2
<1>3. result = NoResult
  BY DEF RunsInit
<1>4. CASE fn = "exhaust" /\ states \in {<<w>> : w \in Witness}
  BY <1>2, <1>3, <1>4 DEF RunsInv, ExhaustInv
<1>5. CASE fn = "route_to_convergence" /\ budget = MAX_ITERATIONS /\ states \in {<<g>> : g \in Glyph}
  BY <1>2, <1>3, <1>5 DEF RunsInv, ConvergeInv
<1>6. CASE fn = "token_lifetime" /\ budget \in MaxSteps /\ states \in {<<w>> : w \in Witness}
  <2>1. budget \in Nat
    BY <1>6, StepsAssumption
  <2> QED BY <1>2, <1>3, <1>6, <2>1 DEF RunsInv, LifetimeInv
<1> QED BY <1>4, <1>5, <1>6 DEF RunsInit

LEMMA ExhaustStep ==
  ASSUME RunsInv, Exhaust
  PROVE  RunsInv'
<1> DEFINE N == Len(states)
           w == states[N]
<1>1. fn = "exhaust" /\ result = NoResult /\ ExhaustInv
  BY DEF RunsInv, Exhaust, Called
<1>2. IsSeq(states) /\ N \in 1 .. 4 /\ Last(states) = w /\ w \in Witness /\ DOMAIN states = 1 .. N
  BY <1>1, LastOfRun, SeqFacts DEF ExhaustInv
<1>3. (is_exhausted(w) <=> w = Absorbed) /\ (is_invalid_fixed_point(w) <=> w = Fixed)
  BY <1>2, WitnessIs
<1>4. fn' = fn
  BY DEF Exhaust, Turn, Return
<1>5. CASE w = Absorbed /\ Return(Exhausted)
  BY <1>1, <1>4, <1>5 DEF RunsInv, ExhaustInv, Return, IsSeq
<1>6. CASE w = Fixed /\ Return(Stuck)
  BY <1>1, <1>4, <1>6 DEF RunsInv, ExhaustInv, Return, IsSeq
<1>7. CASE w # Absorbed /\ w # Fixed /\ Turn(evolve_witness(w))
  <2> DEFINE e == evolve_witness(w)
             more == Append(states, e)
  <2>1. e \in Witness
    BY <1>2, TurnIs
  <2>2. N # 4
    <3> SUFFICES ASSUME N = 4 PROVE w = Absorbed
      BY <1>7
    <3>1. /\ states[1] \in Witness /\ states[1] # Fixed
          /\ states[2] = evolve_witness(states[1]) /\ states[3] = evolve_witness(states[2])
          /\ states[4] = evolve_witness(states[3])
      BY <1>1 DEF ExhaustInv
    <3> QED BY <3>1, ThreeTurns
  <2>3. states' = more /\ result' = result
    BY <1>7 DEF Turn
  <2>4. /\ IsSeq(more) /\ Len(more) = N + 1 /\ more[N + 1] = e
        /\ \A k \in 1 .. N : more[k] = states[k]
    BY <1>2, AppendFacts
  <2>5. /\ \A i \in 1 .. N : states[i] \in Witness
        /\ \A i \in 1 .. N - 1 :
             states[i + 1] = evolve_witness(states[i]) /\ states[i] # Fixed /\ states[i] # Absorbed
    BY <1>1 DEF ExhaustInv
  <2> HIDE DEF more
  <2>6. \A i \in 1 .. N + 1 : more[i] \in Witness
    <3> HIDE DEF e, N
    <3> QED BY <1>2, <2>1, <2>4, <2>5
  <2>7. \A i \in 1 .. N : more[i + 1] = evolve_witness(more[i]) /\ more[i] # Fixed /\ more[i] # Absorbed
    <3> TAKE i \in 1 .. N
    <3>1. CASE i = N
      BY <1>7, <2>4, <3>1
    <3>2. CASE i # N
      <4>1. i \in 1 .. N - 1 /\ i + 1 \in 1 .. N
        <5>1. N \in Nat
          BY <1>2
        <5> HIDE DEF N
        <5> QED BY <3>2, <5>1
      <4>2. more[i] = states[i] /\ more[i + 1] = states[i + 1]
        BY <2>4, <4>1
      <4> QED BY <2>5, <4>1, <4>2
    <3> QED BY <3>1, <3>2
  <2>8. Len(more) \in 1 .. 4 /\ Len(more) - 1 = N
    BY <1>2, <2>2, <2>4
  <2> HIDE DEF N, e, w
  <2>9. ExhaustInv'
    BY <1>1, <2>3, <2>4, <2>6, <2>7, <2>8 DEF ExhaustInv, IsSeq
  <2> QED BY <1>1, <1>4, <2>9 DEF RunsInv
<1> QED BY <1>2, <1>3, <1>5, <1>6, <1>7 DEF Exhaust, Exhausted, Stuck

LEMMA ConvergeStep ==
  ASSUME RunsInv, Converge
  PROVE  RunsInv'
<1> DEFINE N == Len(states)
           current == states[N]
           previous == IF N = 1 THEN Lambda ELSE states[N - 1]
           n == next_glyph(current, previous)
<1>1. fn = "route_to_convergence" /\ result = NoResult /\ ConvergeInv
  BY DEF RunsInv, Converge, Called
<1>2. IsSeq(states) /\ N \in Nat /\ N >= 1 /\ Last(states) = current /\ DOMAIN states = 1 .. N /\ budget = 100
  BY <1>1, LastOfRun, SeqFacts DEF ConvergeInv, MAX_ITERATIONS
<1>3. fn' = fn
  BY DEF Converge, Turn, Return
<1>4. QRADispatchResult(current, previous).next = n
  BY DEF QRADispatchResult
<1>5. CASE (current = Omega \/ N > budget) /\ Return("Ok")
  <2>1. states' = states /\ budget' = budget
    BY <1>5 DEF Return
  <2>2. states[1] # Lambda => current = Omega
    BY <1>1, <1>2, <1>5 DEF ConvergeInv
  <2> QED BY <1>1, <1>3, <2>1, <2>2 DEF RunsInv, ConvergeInv, IsSeq
<1>6. CASE ~(current = Omega \/ N > budget) /\ Turn(n)
  <2> DEFINE more == Append(states, n)
  <2>1. states' = more /\ result' = result /\ budget' = budget
    BY <1>6 DEF Turn
  <2>2. /\ IsSeq(more) /\ Len(more) = N + 1 /\ more[N + 1] = n
        /\ \A k \in 1 .. N : more[k] = states[k]
    BY <1>2, AppendFacts
  <2> HIDE DEF more
  <2>3. more[1] = states[1] /\ states[1] \in Glyph
    BY <1>1, <1>2, <2>2 DEF ConvergeInv
  <2>4. ASSUME states[1] = Lambda PROVE \A i \in 1 .. N + 1 : more[i] = Lambda
    <3>1. \A i \in 1 .. N : states[i] = Lambda
      BY <1>1, <2>4 DEF ConvergeInv
    <3>2. current = Lambda /\ previous = Lambda
      BY <1>2, <3>1
    <3>3. n = Lambda
      BY <3>2, RustRows DEF Glyph, Lambda
    <3> HIDE DEF N, n
    <3> QED BY <1>2, <2>2, <3>1, <3>3
  <2>5. ASSUME states[1] # Lambda
        PROVE  /\ N + 1 <= 3 /\ states[1] # Omega /\ more[2] = Delta
               /\ N + 1 >= 3 => more[3] = Omega
    <3>1. /\ N <= 3 /\ (N >= 2 => states[1] # Omega /\ states[2] = Delta)
          /\ (N >= 3 => states[3] = Omega)
      BY <1>1, <2>5 DEF ConvergeInv
    <3>2. N # 3 /\ current # Omega
      BY <1>6, <3>1
    <3>3. CASE N = 1
      <4>1. current = states[1] /\ previous = Lambda
        BY <3>3
      <4>2. n = Delta
        BY <2>3, <2>5, <3>2, <4>1, RustRows
      <4> QED BY <2>2, <3>2, <3>3, <4>1, <4>2
    <3>4. CASE N = 2
      <4>1. current = Delta /\ previous = states[1] /\ states[1] # Omega
        BY <3>1, <3>4
      <4>2. n = Omega
        BY <2>3, <2>5, <4>1, RustRows
      <4>3. more[2] = states[2] /\ more[3] = n
        BY <2>2, <3>4
      <4> QED BY <3>1, <3>4, <4>1, <4>2, <4>3
    <3> QED BY <1>2, <3>1, <3>2, <3>3, <3>4
  <2> HIDE DEF N, n
  <2>6. ConvergeInv'
    BY <1>1, <1>2, <2>1, <2>2, <2>3, <2>4, <2>5 DEF ConvergeInv, IsSeq
  <2> QED BY <1>1, <1>3, <2>6 DEF RunsInv
<1>7. \/ (current = Omega \/ N > budget) /\ Return("Ok")
      \/ ~(current = Omega \/ N > budget) /\ Turn(n)
  BY <1>2, <1>4, Zenon DEF Converge
<1> QED BY <1>5, <1>6, <1>7

LEMMA LifetimeStep ==
  ASSUME RunsInv, Lifetime
  PROVE  RunsInv'
<1> DEFINE N == Len(states)
           w == states[N]
           e == hk_qra_evolve_witness(w)
<1>1. fn = "token_lifetime" /\ result = NoResult /\ LifetimeInv
  BY DEF RunsInv, Lifetime, Called
<1>2. /\ IsSeq(states) /\ N \in 1 .. budget + 1 /\ Last(states) = w /\ w \in Witness
      /\ DOMAIN states = 1 .. N /\ budget \in Nat
  BY <1>1, LastOfRun, SeqFacts DEF LifetimeInv
<1>3. e \in Witness
  BY <1>2, TurnIs
<1>4. (is_exhausted(e) <=> e = Absorbed) /\ (is_invalid_fixed_point(w) <=> w = Fixed)
  BY <1>2, <1>3, WitnessIs
<1>5. fn' = fn
  BY DEF Lifetime, Turn, Return
<1>6. ASSUME N - 1 = 0 => w # Fixed PROVE states[1] # Fixed
  BY <1>1, <1>2, <1>6 DEF LifetimeInv
<1>7. CASE Return(-1)
  BY <1>1, <1>5, <1>7 DEF RunsInv, LifetimeInv, Return, IsSeq
<1>8. CASE (N - 1 = 0 => w # Fixed) /\ N - 1 < budget /\ e = Absorbed /\ Return(N - 1)
  <2>1. states[1] # Fixed
    BY <1>6, <1>8
  <2> QED BY <1>1, <1>5, <1>8, <2>1 DEF RunsInv, LifetimeInv, Return, IsSeq
<1>9. CASE (N - 1 = 0 => w # Fixed) /\ N - 1 < budget /\ Turn(e)
  <2> DEFINE more == Append(states, e)
  <2>1. states[1] # Fixed
    BY <1>6, <1>9
  <2>2. states' = more /\ result' = result /\ budget' = budget
    BY <1>9 DEF Turn
  <2>3. /\ IsSeq(more) /\ Len(more) = N + 1 /\ more[N + 1] = e
        /\ \A k \in 1 .. N : more[k] = states[k]
    BY <1>2, AppendFacts
  <2>4. /\ \A i \in 1 .. N : states[i] \in Witness
        /\ \A i \in 1 .. N - 1 : states[i + 1] = hk_qra_evolve_witness(states[i])
    BY <1>1 DEF LifetimeInv
  <2>5. Len(more) \in 1 .. budget + 1 /\ Len(more) - 1 = N
    BY <1>2, <1>9, <2>3
  <2> HIDE DEF more
  <2>6. \A i \in 1 .. N + 1 : more[i] \in Witness
    <3> HIDE DEF e, N
    <3> QED BY <1>2, <1>3, <2>3, <2>4
  <2>7. \A i \in 1 .. N : more[i + 1] = hk_qra_evolve_witness(more[i])
    <3> TAKE i \in 1 .. N
    <3>1. CASE i = N
      BY <2>3, <3>1
    <3>2. CASE i # N
      <4>1. i \in 1 .. N - 1 /\ i + 1 \in 1 .. N
        <5>1. N \in Nat
          BY <1>2
        <5> HIDE DEF N
        <5> QED BY <3>2, <5>1
      <4>2. more[i] = states[i] /\ more[i + 1] = states[i + 1]
        BY <2>3, <4>1
      <4> QED BY <2>4, <4>1, <4>2
    <3> QED BY <3>1, <3>2
  <2>8. more[1] = states[1]
    BY <1>2, <2>3
  <2> HIDE DEF N, e, w
  <2>9. LifetimeInv'
    BY <1>1, <1>2, <2>1, <2>2, <2>3, <2>5, <2>6, <2>7, <2>8 DEF LifetimeInv, IsSeq
  <2> QED BY <1>1, <1>5, <2>9 DEF RunsInv
<1>10. \/ Return(-1)
       \/ (N - 1 = 0 => w # Fixed) /\ N - 1 < budget /\ e = Absorbed /\ Return(N - 1)
       \/ (N - 1 = 0 => w # Fixed) /\ N - 1 < budget /\ Turn(e)
  BY <1>2, <1>4, Zenon DEF Lifetime
<1> QED BY <1>7, <1>8, <1>9, <1>10

LEMMA RunsInvNext == RunsInv /\ [RunsNext]_runVars => RunsInv'
<1> SUFFICES ASSUME RunsInv, [RunsNext]_runVars PROVE RunsInv'
  OBVIOUS
<1>1. CASE UNCHANGED runVars
  BY <1>1 DEF runVars, RunsInv, ExhaustInv, ConvergeInv, LifetimeInv, IsSeq
<1> QED BY <1>1, ExhaustStep, ConvergeStep, LifetimeStep DEF RunsNext

LEMMA ExhaustImplied == RunsInv => ExhaustEnds
<1> SUFFICES ASSUME RunsInv, fn = "exhaust" PROVE ExhaustEnds
  BY DEF ExhaustEnds
<1> DEFINE N == Len(states)
           w == states[N]
<1>1. ExhaustInv
  BY DEF RunsInv
<1>2. IsSeq(states) /\ N \in 1 .. 4 /\ Last(states) = w /\ w \in Witness /\ states[1] \in Witness
  BY <1>1, LastOfRun DEF ExhaustInv
<1>3. \A i \in 1 .. N - 1 :
        states[i + 1] = evolve_witness(states[i]) /\ states[i] # Fixed /\ states[i] # Absorbed
  BY <1>1 DEF ExhaustInv
<1>4. \A i \in 1 .. N : states[i] \in Witness
  BY <1>1 DEF ExhaustInv
<1>5. Fixed # Absorbed /\ Fixed \in Witness
  <2>1. <<4, 4, 4>>[1] = 4 /\ <<3, 3, 3>>[1] = 3
    OBVIOUS
  <2> QED BY <2>1 DEF Fixed, Absorbed, Lambda, Omega, Witness, Glyph
<1>6. w = Fixed <=> states[1] = Fixed
  <2>1. CASE N = 1
    BY <2>1
  <2>2. CASE N # 1
    <3>1. N - 1 \in 1 .. N - 1 /\ 1 \in 1 .. N - 1 /\ N - 1 \in 1 .. N /\ (N - 1) + 1 = N
      BY <1>2, <2>2
    <3>2. states[1] # Fixed /\ w = evolve_witness(states[N - 1]) /\ states[N - 1] # Fixed
      BY <1>3, <3>1
    <3>3. w # Fixed
      BY <1>4, <3>1, <3>2, ThreeTurns
    <3> QED BY <3>2, <3>3
  <2> QED BY <2>1, <2>2
<1>7. (is_exhausted(w) <=> w = Absorbed) /\ is_exhausted(Absorbed)
  BY <1>2, WitnessIs, AbsorbedStays
<1>8. evolve_witness(Fixed) = Fixed
  <2>1. next_glyph(Lambda, Lambda) = Lambda
    BY RustRows DEF Glyph, Lambda
  <2>2. evolve_witness(Fixed) = <<next_glyph(Lambda, Lambda), next_glyph(Lambda, Lambda), next_glyph(Lambda, Lambda)>>
    BY <1>5, TurnIs DEF Fixed
  <2> QED BY <2>1, <2>2 DEF Fixed
<1>9. ASSUME result # NoResult
      PROVE  /\ result.fixed_point <=> states[1] = Fixed
             /\ is_exhausted(w) <=> result.exhausted
             /\ evolve_witness(w) = w
  <2>1. \/ result = Exhausted /\ w = Absorbed
        \/ result = Stuck /\ w = Fixed
    BY <1>1, <1>9 DEF ExhaustInv
  <2>2. Exhausted.exhausted = TRUE /\ Exhausted.fixed_point = FALSE
        /\ Stuck.exhausted = FALSE /\ Stuck.fixed_point = TRUE
    BY DEF Exhausted, Stuck
  <2> QED BY <1>5, <1>6, <1>7, <1>8, <2>1, <2>2, AbsorbedStays
<1>10. ASSUME result # NoResult, states[1] = canonical_witness
       PROVE  N = 3 /\ validate_canonical_exhaustion
  <2> DEFINE c1 == <<2, 3, 3>>
  <2>1. canonical_witness = <<0, 1, 2>> /\ canonical_witness \in Witness /\ c1 \in Witness
    BY DEF canonical_witness, Pi, Gamma, Delta, Witness, Glyph
  <2>2. next_glyph(0, 1) = 2 /\ next_glyph(1, 2) = 3 /\ next_glyph(2, 0) = 3
        /\ next_glyph(2, 3) = 3 /\ next_glyph(3, 3) = 3 /\ next_glyph(3, 2) = 3
    BY RustTable DEF Glyph
  <2>3. evolve_witness(canonical_witness) = c1
    <3>1. evolve_witness(canonical_witness) = <<next_glyph(0, 1), next_glyph(1, 2), next_glyph(2, 0)>>
      BY <2>1, TurnIs
    <3> QED BY <2>2, <3>1
  <2>4. evolve_witness(c1) = Absorbed
    <3>1. evolve_witness(c1) = <<next_glyph(2, 3), next_glyph(3, 3), next_glyph(3, 2)>>
      BY <2>1, TurnIs
    <3> QED BY <2>2, <3>1 DEF Absorbed, Omega
  <2>5. validate_canonical_exhaustion
    BY <1>7, <2>3, <2>4 DEF validate_canonical_exhaustion
  <2>6. w = Absorbed \/ w = Fixed
    BY <1>1, <1>10 DEF ExhaustInv
  <2>7. c1 # Absorbed /\ c1 # Fixed /\ canonical_witness # Absorbed /\ canonical_witness # Fixed
    <3>1. \A x, y, z, g : <<x, y, z>> = <<g, g, g>> <=> x = g /\ y = g /\ z = g
      OBVIOUS
    <3> QED BY <2>1, <3>1 DEF Absorbed, Fixed, Omega, Lambda
  <2> HIDE DEF c1
  <2>8. N # 1
    BY <1>10, <2>6, <2>7
  <2>9. states[2] = c1
    BY <1>2, <1>3, <1>10, <2>3, <2>8
  <2>10. N # 2
    BY <2>6, <2>7, <2>9
  <2>11. states[3] = Absorbed
    <3>1. 2 \in 1 .. N - 1
      BY <1>2, <2>8, <2>10
    <3>2. states[2 + 1] = evolve_witness(states[2])
      BY <1>3, <3>1
    <3> QED BY <2>4, <2>9, <3>2
  <2>12. N # 4
    <3> SUFFICES ASSUME N = 4 PROVE states[3] # Absorbed
      BY <2>11
    <3>1. 3 \in 1 .. N - 1
      OBVIOUS
    <3> QED BY <1>3, <3>1
  <2> QED BY <1>2, <2>5, <2>8, <2>10, <2>12
<1>11. N <= 4 /\ Last(states) = w
  BY <1>2
<1> HIDE DEF w
<1> QED BY <1>9, <1>10, <1>11, Zenon DEF ExhaustEnds, Start, Fixed

LEMMA ConvergeImplied == RunsInv => ConvergeEnds
<1> SUFFICES ASSUME RunsInv, fn = "route_to_convergence" PROVE ConvergeEnds
  BY DEF ConvergeEnds
<1>1. ConvergeInv
  BY DEF RunsInv
<1>2. IsSeq(states) /\ DOMAIN states = 1 .. Len(states) /\ Len(states) \in Nat /\ Last(states) = states[Len(states)]
  BY <1>1, LastOfRun, SeqFacts DEF ConvergeInv
<1> QED BY <1>1, <1>2 DEF ConvergeInv, ConvergeEnds, Start

LEMMA LifetimeImplied == RunsInv => LifetimeAgrees
<1> SUFFICES ASSUME RunsInv, fn = "token_lifetime" PROVE LifetimeAgrees
  BY DEF LifetimeAgrees
<1> DEFINE N == Len(states)
           w == states[N]
           R == Evolved(states[1], N)
<1>1. LifetimeInv
  BY DEF RunsInv
<1>2. /\ IsSeq(states) /\ N \in 1 .. budget + 1 /\ budget \in Nat /\ N \in Nat
      /\ states[1] \in Witness
      /\ \A i \in 1 .. N - 1 : states[i + 1] = hk_qra_evolve_witness(states[i])
  BY <1>1 DEF LifetimeInv
<1>3. result # NoResult => result = -1 \/ (result = N - 1 /\ result < budget)
  BY <1>1 DEF LifetimeInv
<1>4. ASSUME result \in Nat PROVE is_exhausted(Evolved(Start, result + 1))
  <2>1. result # NoResult /\ result # -1
    BY <1>4, StepsAssumption
  <2>2. /\ result = N - 1 /\ states[1] # Fixed
        /\ hk_qra_evolve_witness(w) = Absorbed
    BY <1>1, <2>1 DEF LifetimeInv
  <2>3. result + 1 = N
    BY <1>2, <2>2
  <2>4. R = Absorbed
    <3>1. CASE N = 1
      <4>1. R = evolve_witness(states[1])
        BY <1>2, <3>1, EvolvedEnds
      <4>2. hk_qra_evolve_witness(states[1]) = Absorbed
        BY <2>2, <3>1
      <4> QED BY <1>2, <4>1, <4>2, CAbsorbs
    <3>2. CASE N = 2
      <4>1. R = evolve_witness(evolve_witness(states[1]))
        BY <1>2, <3>2, EvolvedEnds
      <4>2. states[2] = hk_qra_evolve_witness(states[1])
        BY <1>2, <3>2
      <4>3. hk_qra_evolve_witness(hk_qra_evolve_witness(states[1])) = Absorbed
        BY <2>2, <3>2, <4>2
      <4> QED BY <1>2, <4>1, <4>3, CAbsorbs
    <3>3. CASE N >= 3
      <4>1. N \in Nat /\ states[1] \in Witness /\ states[1] # Fixed
        BY <1>2, <2>2
      <4> HIDE DEF N
      <4> QED BY <3>3, <4>1, EvolvedEnds
    <3>4. N \in Nat /\ N >= 1
      BY <1>2
    <3> HIDE DEF N, R
    <3> QED BY <3>1, <3>2, <3>3, <3>4
  <2>5. is_exhausted(Absorbed)
    BY WitnessIs, AbsorbedStays
  <2> QED BY <2>3, <2>4, <2>5 DEF Start
<1> HIDE DEF N, R
<1>5. N <= budget + 1 /\ (result # NoResult => result \in -1 .. budget - 1)
  BY <1>2, <1>3
<1> QED BY <1>4, <1>5 DEF LifetimeAgrees, N

\* What qra_dispatch.rs checks of its table when it is loaded.
LEMMA RowsValid == validate_identity_row /\ validate_absorber_row
BY RustRows DEF validate_identity_row, validate_absorber_row

\* From every start Witness::exhaust comes back within three evolutions, and
\* route_to_convergence absorbs within three moves unless it starts at Lambda:
\* LoopsEnd always holds.
THEOREM LoopsDoEnd == RunsSpec => []LoopsEnd
<1>1. RunsSpec => []RunsInv
  BY RunsInvInit, RunsInvNext, PTL DEF RunsSpec
<1>2. RunsInv => LoopsEnd
  BY ExhaustImplied, ConvergeImplied, RowsValid DEF LoopsEnd
<1> QED BY <1>1, <1>2, PTL

\* Whatever max_steps token_lifetime is given: it keeps to it, and what expires
\* by the C table after so many turns is exhausted by the Rust table by then.
\* LifetimeAgrees always holds.
THEOREM LifetimesAgree == RunsSpec => []LifetimeAgrees
<1>1. RunsSpec => []RunsInv
  BY RunsInvInit, RunsInvNext, PTL DEF RunsSpec
<1> QED BY <1>1, LifetimeImplied, PTL

(***************************************************************************)
(* Integers of a width.                                                    *)
(***************************************************************************)
Half == Modulus \div 2

LEMMA HalfFacts ==
  Modulus \in Nat /\ Half \in Nat /\ Half >= 1 /\ Modulus = Half + Half
BY LedgerBounds DEF Half

LEMMA ModIs ==
  ASSUME NEW a \in Int, NEW q \in Int, NEW r \in Int, 0 <= r, r < Modulus, a = Modulus * q + r
  PROVE  a % Modulus = r
<1>1. Modulus \in Nat /\ Modulus > 0
  BY HalfFacts
<1> QED BY <1>1

\* Any number is a multiple of the width and a remainder below it.
LEMMA ModExists ==
  ASSUME NEW a \in Int
  PROVE  /\ a % Modulus \in Int /\ 0 <= a % Modulus /\ a % Modulus < Modulus
         /\ \E q \in Int : a = Modulus * q + (a % Modulus)
<1>1. Modulus \in Nat /\ Modulus > 0
  BY HalfFacts
<1>2. a = Modulus * (a \div Modulus) + (a % Modulus) /\ a \div Modulus \in Int
  BY <1>1
<1> QED BY <1>1, <1>2

\* A wrapped number differs by a multiple of the width and fits.
LEMMA WrapIs ==
  ASSUME NEW x \in Int, NEW q \in Int, NEW y \in Int, -Half <= y, y < Half, x = Modulus * q + y
  PROVE  Wrap(x) = y
<1>1. Modulus \in Nat /\ Half \in Nat /\ Modulus = Half + Half
  BY HalfFacts
<1> DEFINE mq == Modulus * q
<1>2. mq \in Int /\ x = mq + y
  BY <1>1
<1>3. x + Half \in Int /\ y + Half \in Int /\ 0 <= y + Half /\ y + Half < Modulus
      /\ x + Half = mq + (y + Half)
  <2> HIDE DEF mq
  <2> QED BY <1>1, <1>2
<1>4. (x + Half) % Modulus = y + Half
  BY <1>3, ModIs
<1>5. Wrap(x) = ((x + Half) % Modulus) - Half
  BY DEF Wrap, Half
<1> HIDE DEF mq
<1> QED BY <1>1, <1>4, <1>5

LEMMA WrapExists ==
  ASSUME NEW x \in Int
  PROVE  /\ Wrap(x) \in Int /\ -Half <= Wrap(x) /\ Wrap(x) < Half
         /\ \E q \in Int : x = Modulus * q + Wrap(x)
<1>1. Modulus \in Nat /\ Half \in Nat /\ Modulus = Half + Half
  BY HalfFacts
<1>2. Wrap(x) = ((x + Half) % Modulus) - Half
  BY DEF Wrap, Half
<1>3. x + Half \in Int
  BY <1>1
<1> DEFINE m == (x + Half) % Modulus
<1>4. /\ m \in Int /\ 0 <= m /\ m < Modulus
      /\ \E q \in Int : x + Half = Modulus * q + m
  BY <1>3, ModExists
<1> HIDE DEF m
<1>5. PICK q \in Int : x + Half = Modulus * q + m
  BY <1>4
<1>6. Wrap(x) = m - Half
  BY <1>2 DEF m
<1> DEFINE mq == Modulus * q
<1>7. mq \in Int /\ x + Half = mq + m
  BY <1>1, <1>5
<1>8. x = mq + Wrap(x)
  <2> HIDE DEF mq
  <2> QED BY <1>1, <1>4, <1>6, <1>7
<1> QED BY <1>1, <1>4, <1>6, <1>8

\* Only what is left of a number matters.
LEMMA WrapTurns ==
  ASSUME NEW x \in Int, NEW y \in Int, NEW q \in Int, x = Modulus * q + y
  PROVE  Wrap(x) = Wrap(y)
<1>1. Modulus \in Nat
  BY HalfFacts
<1>2. /\ Wrap(y) \in Int /\ -Half <= Wrap(y) /\ Wrap(y) < Half
      /\ \E p \in Int : y = Modulus * p + Wrap(y)
  BY WrapExists
<1> DEFINE w == Wrap(y)
<1>3. PICK p \in Int : y = Modulus * p + w
  BY <1>2
<1> HIDE DEF w
<1>4. x = Modulus * (q + p) + w /\ q + p \in Int
  BY <1>1, <1>2, <1>3 DEF w
<1> QED BY <1>2, <1>4, WrapIs DEF w

\* A sum may be wrapped at each step or once.
LEMMA WrapSum ==
  ASSUME NEW x \in Int, NEW y \in Int
  PROVE  Wrap(x + Wrap(y)) = Wrap(x + y) /\ Wrap(Wrap(y) + x) = Wrap(y + x)
<1>1. Modulus \in Nat
  BY HalfFacts
<1> DEFINE w == Wrap(y)
<1>2. w \in Int /\ \E q \in Int : y = Modulus * q + w
  BY WrapExists
<1> HIDE DEF w
<1>3. PICK q \in Int : y = Modulus * q + w
  BY <1>2
<1>4. x + y = Modulus * q + (x + w) /\ x + y \in Int /\ x + w \in Int
  BY <1>1, <1>2, <1>3
<1>5. Wrap(x + y) = Wrap(x + w)
  BY <1>4, WrapTurns
<1>6. y + x = x + y /\ w + x = x + w
  BY <1>2
<1> QED BY <1>5, <1>6 DEF w

\* So may a negation.
LEMMA WrapMinus ==
  ASSUME NEW y \in Int
  PROVE  Wrap(-Wrap(y)) = Wrap(-y)
<1>1. Modulus \in Nat
  BY HalfFacts
<1> DEFINE w == Wrap(y)
<1>2. w \in Int /\ \E q \in Int : y = Modulus * q + w
  BY WrapExists
<1> HIDE DEF w
<1>3. PICK q \in Int : y = Modulus * q + w
  BY <1>2
<1>4. -y = Modulus * (-q) + (-w) /\ -y \in Int /\ -w \in Int /\ -q \in Int
  BY <1>1, <1>2, <1>3
<1>5. Wrap(-y) = Wrap(-w)
  BY <1>4, WrapTurns
<1> QED BY <1>5 DEF w

\* A number that fits is not changed.
LEMMA WrapSmall ==
  ASSUME NEW y \in Int
  PROVE  Wrap(y) = y <=> -Half <= y /\ y < Half
<1>1. Modulus \in Nat
  BY HalfFacts
<1>2. y = Modulus * 0 + y
  BY <1>1
<1> QED BY <1>2, WrapIs, WrapExists

LEMMA WrapZero ==
  /\ Wrap(0) = 0
  /\ \A x \in Int : Wrap(x + Wrap(-x)) = 0
<1>1. Wrap(0) = 0
  BY HalfFacts, WrapSmall
<1>2. ASSUME NEW x \in Int PROVE Wrap(x + Wrap(-x)) = 0
  <2>1. -x \in Int /\ x + (-x) = 0
    OBVIOUS
  <2>2. Wrap(x + Wrap(-x)) = Wrap(x + (-x))
    BY <2>1, WrapSum
  <2> QED BY <1>1, <2>1, <2>2
<1> QED BY <1>1, <1>2

\* The credit of a balanced ledger is the opposite of its debit.
LEMMA BalancedMeans ==
  ASSUME NEW d \in Int, NEW i \in Int
  PROVE  Wrap(d + i) = 0 <=> Wrap(i) = Wrap(-d)
<1>1. -d \in Int /\ d + i \in Int
  OBVIOUS
<1>2. ASSUME Wrap(d + i) = 0 PROVE Wrap(i) = Wrap(-d)
  <2>1. Wrap(-d + Wrap(d + i)) = Wrap(-d + (d + i))
    BY <1>1, WrapSum
  <2>2. -d + (d + i) = i /\ -d + 0 = -d
    OBVIOUS
  <2> QED BY <1>2, <2>1, <2>2
<1>3. ASSUME Wrap(i) = Wrap(-d) PROVE Wrap(d + i) = 0
  <2>1. Wrap(d + Wrap(i)) = Wrap(d + i)
    BY WrapSum
  <2> QED BY <1>3, <2>1, WrapZero
<1> QED BY <1>2, <1>3

\* The unsigned numbers of the width.
LEMMA UnsignedFacts ==
  ASSUME NEW x \in Int, NEW y \in Int
  PROVE  /\ WrapU(x) \in Int /\ WrapU(WrapU(x)) = WrapU(x)
         /\ WrapU(WrapU(x) + y) = WrapU(x + y)
<1>1. Modulus \in Nat
  BY HalfFacts
<1> DEFINE w == WrapU(x)
<1>2. w \in Int /\ 0 <= w /\ w < Modulus /\ \E q \in Int : x = Modulus * q + w
  BY ModExists DEF WrapU
<1> HIDE DEF w
<1>3. PICK q \in Int : x = Modulus * q + w
  BY <1>2
<1>4. WrapU(w) = w
  <2>1. w = Modulus * 0 + w
    BY <1>1, <1>2
  <2> QED BY <1>2, <2>1, ModIs DEF WrapU
<1>5. WrapU(w + y) = WrapU(x + y)
  <2> DEFINE v == WrapU(w + y)
  <2>1. w + y \in Int /\ x + y \in Int
    BY <1>2
  <2>2. v \in Int /\ 0 <= v /\ v < Modulus /\ \E p \in Int : w + y = Modulus * p + v
    BY <2>1, ModExists DEF WrapU
  <2> HIDE DEF v
  <2>3. PICK p \in Int : w + y = Modulus * p + v
    BY <2>2
  <2>4. x + y = Modulus * (q + p) + v /\ q + p \in Int
    BY <1>1, <1>2, <1>3, <2>2, <2>3
  <2>5. WrapU(x + y) = v
    BY <2>1, <2>2, <2>4, ModIs DEF WrapU
  <2> QED BY <2>5 DEF v
<1> QED BY <1>2, <1>4, <1>5 DEF w

(***************************************************************************)
(* Totals.                                                                 *)
(***************************************************************************)

\* A total is a fold over the points in their order.
LEMMA TotalSteps ==
  ASSUME NEW points, IsSeq(points), NEW field, \A k \in DOMAIN points : points[k][field] \in Int
  PROVE  \E f : /\ f[1 .. 0] = 0 /\ Total(points, field) = f[1 .. Len(points)]
                /\ \A n \in 0 .. Len(points) : f[1 .. n] \in Int
                /\ \A n \in 1 .. Len(points) : f[1 .. n] = f[1 .. n - 1] + points[n][field]
<1> DEFINE N == Len(points)
           G == [n \in 1 .. N |-> [x \in Int |-> x + points[n][field]]]
           IsFold(f) == f = [s \in SUBSET (1 .. N) |->
                               IF s = {} THEN 0 ELSE f[s \ {Max(s)}] + points[Max(s)][field]]
           f == CHOOSE f : IsFold(f)
<1>0. N \in Nat /\ DOMAIN points = 1 .. N
  BY SeqFacts
<1>1. PICK g : Folds(g, N, 0, G)
  <2> HIDE DEF G, N
  <2> QED BY <1>0, FoldExists
<1>2. \A s \in SUBSET (1 .. N) : g[s] \in Int
  <2> DEFINE D == Int
             b == 0
  <2>1. b \in D /\ \A n \in 1 .. N, x \in D : G[n][x] \in D
    BY <1>0
  <2>2. N \in Nat /\ Folds(g, N, b, G)
    BY <1>0, <1>1
  <2> HIDE DEF G, N, D, b
  <2>3. \A s \in SUBSET (1 .. N) : g[s] \in D
    BY <2>1, <2>2, FoldTypes
  <2> QED BY <2>3 DEF D
<1>3. IsFold(g)
  <2>1. ASSUME NEW s \in SUBSET (1 .. N), s # {}
        PROVE  G[Max(s)][g[s \ {Max(s)}]] = g[s \ {Max(s)}] + points[Max(s)][field]
    <3>1. Max(s) \in 1 .. N
      BY <1>0, <2>1, LastOfPlaces
    <3> HIDE DEF N
    <3> QED BY <3>1, <1>2
  <2> HIDE DEF G, N
  <2> QED BY <1>1, <2>1 DEF Folds
<1>4. Total(points, field) = f[1 .. N]
  BY <1>0 DEF Total, FoldLeft, MapThenFoldSet
<1>5. IsFold(f)
  <2> HIDE DEF IsFold
  <2> QED BY <1>3
<1> HIDE DEF f, N
<1>6. f[1 .. 0] = 0
  <2>1. 1 .. 0 = {} /\ {} \in SUBSET (1 .. N)
    OBVIOUS
  <2> QED BY <1>5, <2>1
<1>7. ASSUME NEW n \in 1 .. N
      PROVE  f[1 .. n] = f[1 .. n - 1] + points[n][field]
  <2>1. n \in Nat /\ n # 0 /\ 1 .. n \in SUBSET (1 .. N)
    BY <1>0
  <2>2. Max(1 .. n) = n /\ (1 .. n) \ {n} = 1 .. n - 1 /\ 1 .. n # {}
    BY <2>1, LastOfFirst
  <2> QED BY <1>5, <2>1, <2>2
<1> DEFINE S == {n \in 0 .. N : f[1 .. n] \in Int}
<1>8. \A n \in 0 .. N : n \in S
  <2>1. 0 \in S
    BY <1>0, <1>6
  <2>2. ASSUME NEW n \in 0 .. N - 1, n \in S PROVE n + 1 \in S
    <3>1. n + 1 \in 1 .. N /\ (n + 1) - 1 = n /\ n + 1 \in 0 .. N
      BY <1>0
    <3>2. points[n + 1][field] \in Int /\ f[1 .. n] \in Int
      BY <1>0, <2>2, <3>1
    <3>3. f[1 .. n + 1] = f[1 .. n] + points[n + 1][field]
      BY <1>7, <3>1
    <3> QED BY <3>1, <3>2, <3>3
  <2> HIDE DEF S
  <2> QED BY <1>0, <2>1, <2>2, UpTo
<1> QED BY <1>4, <1>6, <1>7, <1>8 DEF N

\* A point more is its amount more.
LEMMA TotalOfMore ==
  ASSUME NEW points, IsSeq(points), NEW field, \A k \in DOMAIN points : points[k][field] \in Int,
         NEW p, p[field] \in Int
  PROVE  /\ Total(points, field) \in Int
         /\ Total(Append(points, p), field) = Total(points, field) + p[field]
<1> DEFINE N == Len(points)
           a == Append(points, p)
<1>0. N \in Nat /\ DOMAIN points = 1 .. N
  BY SeqFacts
<1>1. /\ IsSeq(a) /\ Len(a) = N + 1 /\ DOMAIN a = 1 .. N + 1
      /\ \A k \in 1 .. N : a[k] = points[k]
      /\ a[N + 1] = p
  BY AppendFacts
<1>2. PICK f : /\ f[1 .. 0] = 0 /\ Total(points, field) = f[1 .. N]
               /\ \A n \in 0 .. N : f[1 .. n] \in Int
               /\ \A n \in 1 .. N : f[1 .. n] = f[1 .. n - 1] + points[n][field]
  BY TotalSteps
<1> HIDE DEF N, a
<1>3. \A k \in DOMAIN a : a[k][field] \in Int
  BY <1>0, <1>1
<1>4. PICK h : /\ h[1 .. 0] = 0 /\ Total(a, field) = h[1 .. Len(a)]
               /\ \A n \in 1 .. Len(a) : h[1 .. n] = h[1 .. n - 1] + a[n][field]
  BY <1>1, <1>3, TotalSteps
<1> DEFINE S == {n \in 0 .. N : h[1 .. n] = f[1 .. n]}
<1>5. \A n \in 0 .. N : n \in S
  <2>1. 0 \in S
    BY <1>0, <1>2, <1>4
  <2>2. ASSUME NEW n \in 0 .. N - 1, n \in S PROVE n + 1 \in S
    <3>1. n + 1 \in 1 .. N /\ (n + 1) - 1 = n /\ n + 1 \in 0 .. N /\ n + 1 \in 1 .. N + 1
      BY <1>0
    <3>2. f[1 .. n + 1] = f[1 .. n] + points[n + 1][field]
      BY <1>2, <3>1
    <3>3. h[1 .. n + 1] = h[1 .. n] + a[n + 1][field]
      BY <1>1, <1>4, <3>1
    <3> QED BY <1>1, <2>2, <3>1, <3>2, <3>3
  <2> HIDE DEF S
  <2> QED BY <1>0, <2>1, <2>2, UpTo
<1>6. h[1 .. N + 1] = h[1 .. N] + p[field]
  <2>1. N + 1 \in 1 .. N + 1 /\ (N + 1) - 1 = N
    BY <1>0
  <2> QED BY <1>1, <1>4, <2>1
<1>7. h[1 .. N] = f[1 .. N] /\ f[1 .. N] \in Int
  BY <1>0, <1>2, <1>5
<1> QED BY <1>1, <1>2, <1>4, <1>6, <1>7 DEF a

(***************************************************************************)
(* The invariant.                                                          *)
(***************************************************************************)
Symbol64 == {WrapU(x) : x \in Int}
LedgerOK ==
  /\ ledger \in [s : Symbol64, delta : Int, iota : Int, omega : Omegas]
  /\ ledger.iota = Wrap(-ledger.delta) /\ Fits(ledger.delta)
AcceptedOK == IsSeq(accepted) /\ \A k \in DOMAIN accepted : accepted[k] \in AnyLedger
SumOK ==
  /\ sum \in [s_acc : Int, delta_acc : Int, iota_acc : Int, omega : Int, count : Nat]
  /\ sum.count = Len(accepted)
  /\ \A k \in DOMAIN accepted : accepted[k].omega = sum.omega
Booked ==
  /\ sum.s_acc = WrapU(Total(accepted, "s"))
  /\ sum.delta_acc = Wrap(Total(accepted, "delta"))
  /\ sum.iota_acc = Wrap(Total(accepted, "iota"))
  /\ sum.iota_acc = Wrap(-sum.delta_acc)
SumInv ==
  /\ AcceptedOK /\ SumOK /\ panicked \in BOOLEAN
  /\ ~panicked => Booked
  /\ panicked => sum_is_balanced \/ sum.delta_acc = -(Modulus \div 2)
LedgerInv == LedgerOK /\ SumInv

LEMMA NewLedgerOK ==
  ASSUME NEW s \in Int, NEW delta \in Int, NEW omega \in Omegas
  PROVE  /\ NewLedger(s, delta, omega) \in [s : Symbol64, delta : Int, iota : Int, omega : Omegas]
         /\ NewLedger(s, delta, omega).iota = Wrap(-NewLedger(s, delta, omega).delta)
<1>1. WrapU(s) \in Symbol64 /\ Wrap(-delta) \in Int
  BY WrapExists DEF Symbol64
<1> QED BY <1>1 DEF NewLedger

LEMMA AnyLedgerOK ==
  ASSUME NEW p \in AnyLedger
  PROVE  p.s \in Int /\ p.delta \in Int /\ p.iota \in Int /\ p.omega \in Omegas /\ p.omega \in Int
<1>1. Symbols \subseteq Int
  BY HalfFacts DEF Symbols, Half
<1>2. Amounts \subseteq Int /\ Omegas \subseteq Int
  BY LedgerBounds
<1> QED BY <1>1, <1>2 DEF AnyLedger

\* What the ledger says about itself follows from its credit.
LEMMA LedgerBalances ==
  ASSUME LedgerOK
  PROVE  /\ is_balanced(ledger) /\ decode(encode(ledger)) = ledger
         /\ sla_validate(SLACertificate(ledger)) /\ SLACertificate(ledger).balance_value = 0
<1>1. PICK s \in Symbol64, d \in Int, i \in Int, o \in Omegas :
        ledger = [s |-> s, delta |-> d, iota |-> i, omega |-> o]
  BY DEF LedgerOK
<1>2. i = Wrap(-d)
  BY <1>1 DEF LedgerOK
<1>3. reconciliation(ledger) = 0
  <2>1. ledger.delta = d /\ ledger.iota = i
    BY <1>1
  <2>2. Wrap(d + Wrap(-d)) = 0
    BY WrapZero
  <2> QED BY <1>2, <2>1, <2>2 DEF reconciliation
<1>4. WrapU(s) = s
  BY UnsignedFacts DEF Symbol64
<1>5. decode(encode(ledger)) = ledger
  BY <1>1, <1>2, <1>4 DEF decode, encode, NewLedger
<1>6. is_balanced(ledger)
  BY <1>3 DEF is_balanced
<1>7. /\ SLACertificate(ledger).is_balanced = is_balanced(ledger)
      /\ SLACertificate(ledger).balance_value = reconciliation(ledger)
      /\ SLACertificate(ledger).omega_preserved = TRUE
  BY Zenon DEF SLACertificate
<1> QED BY <1>3, <1>5, <1>6, <1>7, Zenon DEF sla_validate

\* The books of the invariant balance.
LEMMA BookedBalances ==
  ASSUME SumOK, Booked
  PROVE  sum_is_balanced
<1>1. sum.iota_acc = Wrap(-sum.delta_acc) /\ sum.delta_acc \in Int
  BY DEF Booked, SumOK
<1> QED BY <1>1, WrapZero DEF sum_is_balanced

LEMMA BooksImplied == LedgerInv => BooksBalance
<1> SUFFICES ASSUME LedgerInv PROVE BooksBalance
  OBVIOUS
<1>1. LedgerOK /\ SumOK
  BY DEF LedgerInv, SumInv
<1>2. ledger.omega \in Omegas /\ ledger.iota = Wrap(-ledger.delta)
  BY <1>1 DEF LedgerOK
<1>3. ~panicked => Booked
  BY DEF LedgerInv, SumInv
<1>5. ~sum_is_balanced => panicked /\ sum.delta_acc = -(Modulus \div 2)
  BY <1>1, <1>3, BookedBalances DEF LedgerInv, SumInv
<1>6. ~panicked => /\ sum.s_acc = WrapU(Total(accepted, "s"))
                   /\ sum.delta_acc = Wrap(Total(accepted, "delta"))
                   /\ sum.iota_acc = Wrap(Total(accepted, "iota"))
  BY <1>3, Zenon DEF Booked
<1>7. sum.count = Len(accepted) /\ \A i \in DOMAIN accepted : accepted[i].omega = sum.omega
  BY <1>1, Zenon DEF SumOK
<1> QED BY <1>1, <1>2, <1>5, <1>6, <1>7, LedgerBalances, Zenon DEF BooksBalance

LEMMA LedgerInvInit == LedgerInit => LedgerInv
<1> SUFFICES ASSUME LedgerInit PROVE LedgerInv
  OBVIOUS
<1>1. PICK o \in Omegas : ledger = NewLedger(0, 0, o)
  BY DEF LedgerInit
<1>2. sum = NewSum /\ accepted = <<>> /\ panicked = FALSE
  BY DEF LedgerInit
<1>3. LedgerOK
  <2>1. Fits(ledger.delta)
    BY <1>1, WrapZero DEF NewLedger, Fits
  <2> QED BY <1>1, <2>1, NewLedgerOK DEF LedgerOK
<1>4. IsSeq(<<>>) /\ Len(<<>>) = 0 /\ DOMAIN <<>> = {}
  BY DEF IsSeq
<1>5. AcceptedOK /\ SumOK
  BY <1>2, <1>4 DEF AcceptedOK, SumOK, NewSum
<1>6. \A field : Total(<<>>, field) = 0
  <2> TAKE field
  <2>1. \A k \in DOMAIN <<>> : <<>>[k][field] \in Int
    BY <1>4
  <2>2. PICK f : f[1 .. 0] = 0 /\ Total(<<>>, field) = f[1 .. Len(<<>>)]
    BY <1>4, <2>1, TotalSteps
  <2> QED BY <1>4, <2>2
<1>7. WrapU(0) = 0 /\ Wrap(0) = 0
  <2>1. Modulus \in Nat /\ Modulus > 0
    BY HalfFacts
  <2>2. 0 = Modulus * 0 + 0
    BY <2>1
  <2>3. 0 % Modulus = 0
    BY <2>1, <2>2, ModIs
  <2> QED BY <2>3, WrapZero DEF WrapU
<1>8. sum.s_acc = 0 /\ sum.delta_acc = 0 /\ sum.iota_acc = 0
  BY <1>2 DEF NewSum
<1>9. Booked
  BY <1>2, <1>6, <1>7, <1>8 DEF Booked
<1> QED BY <1>2, <1>3, <1>5, <1>9 DEF LedgerInv, SumInv

\* What leaves the sum alone leaves its books alone, a panic too.
LEMMA SumRests ==
  ASSUME SumInv, ~panicked, UNCHANGED <<sum, accepted>>, panicked' \in BOOLEAN
  PROVE  SumInv'
<1>1. SumOK /\ AcceptedOK /\ Booked
  BY DEF SumInv
<1>2. sum_is_balanced
  BY <1>1, BookedBalances
<1>3. sum' = sum /\ accepted' = accepted
  OBVIOUS
<1>4. SumOK' /\ AcceptedOK' /\ Booked' /\ sum_is_balanced'
  BY <1>1, <1>2, <1>3 DEF SumOK, AcceptedOK, Booked, sum_is_balanced, IsSeq
<1> QED BY <1>4 DEF SumInv

LEMMA WrappedFits ==
  ASSUME NEW x \in Int
  PROVE  Fits(Wrap(x))
<1>1. Wrap(x) \in Int /\ -Half <= Wrap(x) /\ Wrap(x) < Half
  BY WrapExists
<1> QED BY <1>1, WrapSmall DEF Fits

LEMMA ComposeStep ==
  ASSUME LedgerOK, NEW o \in Built, compose(o)
  PROVE  LedgerOK'
<1>1. PICK s \in Symbol64, d \in Int, i \in Int, w \in Omegas :
        ledger = [s |-> s, delta |-> d, iota |-> i, omega |-> w]
  BY DEF LedgerOK
<1>2. i = Wrap(-d) /\ s \in Int
  BY <1>1, UnsignedFacts DEF LedgerOK, Symbol64
<1>3. PICK os \in Symbols, od \in Amounts, ow \in Omegas : o = NewLedger(os, od, ow)
  BY DEF Built
<1>4. os \in Int /\ od \in Int
  BY <1>3, HalfFacts, LedgerBounds DEF Symbols, Half
<1>5. o.s = WrapU(os) /\ o.delta = od /\ o.iota = Wrap(-od)
  BY <1>3 DEF NewLedger
<1>6. CASE ledger' = ledger
  BY <1>6 DEF LedgerOK
<1>7. CASE ledger' = [s |-> WrapU(ledger.s + o.s), delta |-> Wrap(ledger.delta + o.delta),
                      iota |-> Wrap(ledger.iota + o.iota), omega |-> ledger.omega]
  <2> DEFINE s2 == WrapU(ledger.s + o.s)
             d2 == Wrap(ledger.delta + o.delta)
             i2 == Wrap(ledger.iota + o.iota)
  <2>1. d2 = Wrap(d + od) /\ i2 = Wrap(Wrap(-d) + Wrap(-od))
    BY <1>1, <1>2, <1>5
  <2>2. -d \in Int /\ -od \in Int /\ Wrap(-d) \in Int /\ Wrap(-od) \in Int /\ d + od \in Int
        /\ -d + -od = -(d + od)
    BY <1>4, WrapExists
  <2>3. i2 = Wrap(Wrap(-d) + -od)
    BY <2>1, <2>2, WrapSum
  <2>4. Wrap(Wrap(-d) + -od) = Wrap(-d + -od)
    BY <2>2, WrapSum
  <2>5. i2 = Wrap(-d2)
    BY <2>1, <2>2, <2>3, <2>4, WrapMinus
  <2>6. d2 \in Int /\ i2 \in Int
    BY <2>1, <2>2, <2>5, WrapExists
  <2>7. s2 \in Symbol64
    BY <1>1, <1>2, <1>4, <1>5, UnsignedFacts DEF Symbol64
  <2>8. ledger' = [s |-> s2, delta |-> d2, iota |-> i2, omega |-> w]
    BY <1>1, <1>7
  <2>9. Fits(d2)
    BY <2>1, <2>2, WrappedFits
  <2> HIDE DEF s2, d2, i2
  <2>10. ledger'.delta = d2 /\ ledger'.iota = i2
    BY <2>8
  <2>11. ledger' \in [s : Symbol64, delta : Int, iota : Int, omega : Omegas]
    BY <2>6, <2>7, <2>8
  <2>12. Fits(ledger.delta)'
    BY <2>9, <2>10 DEF Fits, Wrap
  <2> QED BY <2>5, <2>10, <2>11, <2>12 DEF LedgerOK
<1> QED BY <1>6, <1>7 DEF compose, Overflow

LEMMA EvolveStep ==
  ASSUME LedgerOK, NEW l \in AnyLedger, evolve(l)
  PROVE  LedgerOK'
<1>1. l.s \in Int /\ l.delta \in Int
  BY AnyLedgerOK
<1>2. ledger.s \in Int /\ ledger.delta \in Int /\ ledger.omega \in Omegas
  BY UnsignedFacts DEF LedgerOK, Symbol64
<1>3. CASE ledger' = ledger
  BY <1>3 DEF LedgerOK
<1>4. CASE ledger' = NewLedger(ledger.s + l.s, Wrap(ledger.delta + l.delta), ledger.omega)
  <2> DEFINE s2 == ledger.s + l.s
             d2 == Wrap(ledger.delta + l.delta)
             w == ledger.omega
  <2>1. s2 \in Int /\ d2 \in Int /\ w \in Omegas
    BY <1>1, <1>2, WrapExists
  <2>2. ledger' = NewLedger(s2, d2, w)
    BY <1>4
  <2>3. Fits(d2)
    BY <1>1, <1>2, WrappedFits
  <2> HIDE DEF s2, d2, w
  <2>4. ledger'.delta = d2
    BY <2>2 DEF NewLedger
  <2>5. Fits(ledger.delta)'
    BY <2>3, <2>4 DEF Fits, Wrap
  <2> QED BY <2>1, <2>2, <2>5, NewLedgerOK DEF LedgerOK
<1> QED BY <1>3, <1>4 DEF evolve, Overflow

LEMMA StoreStep ==
  ASSUME LedgerOK, Store
  PROVE  LedgerOK'
<1>1. ledger' = ledger
  BY LedgerBalances DEF Store
<1> QED BY <1>1 DEF LedgerOK

\* A sum as its five fields, and what a push makes of it.
SumOf(a, b, c, w, n) == [s_acc |-> a, delta_acc |-> b, iota_acc |-> c, omega |-> w, count |-> n]

LEMMA SumFromFields ==
  ASSUME NEW r, NEW a, NEW b, NEW c, NEW w, NEW n,
         DOMAIN r = {"s_acc", "delta_acc", "iota_acc", "omega", "count"}, r = [k \in DOMAIN r |-> r[k]],
         r.s_acc = a, r.delta_acc = b, r.iota_acc = c, r.omega = w, r.count = n
  PROVE  r = SumOf(a, b, c, w, n)
<1> DEFINE q == SumOf(a, b, c, w, n)
<1>1. DOMAIN q = {"s_acc", "delta_acc", "iota_acc", "omega", "count"} /\ q = [k \in DOMAIN q |-> q[k]]
  BY DEF SumOf
<1>2. q.s_acc = a /\ q.delta_acc = b /\ q.iota_acc = c /\ q.omega = w /\ q.count = n
  BY DEF SumOf
<1> HIDE DEF q
<1>3. r = q
  BY <1>1, <1>2
<1> QED BY <1>3 DEF q

BegunWith(r, v, x)   == [r EXCEPT !.omega = v, !.s_acc = x]
HalfDoneWith(r, y)   == [r EXCEPT !.delta_acc = y]
DoneWith(r, y, z, k) == [r EXCEPT !.delta_acc = y, !.iota_acc = z, !.count = k]

LEMMA Begun ==
  ASSUME NEW a, NEW b, NEW c, NEW w, NEW n, NEW r, r = SumOf(a, b, c, w, n), NEW v, NEW x
  PROVE  BegunWith(r, v, x) = SumOf(x, b, c, v, n)
<1>0. DOMAIN r = {"s_acc", "delta_acc", "iota_acc", "omega", "count"} /\ r = [f \in DOMAIN r |-> r[f]]
      /\ r.s_acc = a /\ r.delta_acc = b /\ r.iota_acc = c /\ r.omega = w /\ r.count = n
  BY DEF SumOf
<1> DEFINE q == BegunWith(r, v, x)
<1>1. DOMAIN q = {"s_acc", "delta_acc", "iota_acc", "omega", "count"} /\ q = [f \in DOMAIN q |-> q[f]]
  BY <1>0 DEF BegunWith
<1>2. q.s_acc = x /\ q.delta_acc = b /\ q.iota_acc = c /\ q.omega = v /\ q.count = n
  BY <1>0 DEF BegunWith
<1> HIDE DEF q
<1>3. q = SumOf(x, b, c, v, n)
  BY <1>1, <1>2, SumFromFields
<1> QED BY <1>3 DEF q

LEMMA HalfDone ==
  ASSUME NEW a, NEW b, NEW c, NEW w, NEW n, NEW r, r = SumOf(a, b, c, w, n), NEW y
  PROVE  HalfDoneWith(r, y) = SumOf(a, y, c, w, n)
<1>0. DOMAIN r = {"s_acc", "delta_acc", "iota_acc", "omega", "count"} /\ r = [f \in DOMAIN r |-> r[f]]
      /\ r.s_acc = a /\ r.delta_acc = b /\ r.iota_acc = c /\ r.omega = w /\ r.count = n
  BY DEF SumOf
<1> DEFINE q == HalfDoneWith(r, y)
<1>1. DOMAIN q = {"s_acc", "delta_acc", "iota_acc", "omega", "count"} /\ q = [f \in DOMAIN q |-> q[f]]
  BY <1>0 DEF HalfDoneWith
<1>2. q.s_acc = a /\ q.delta_acc = y /\ q.iota_acc = c /\ q.omega = w /\ q.count = n
  BY <1>0 DEF HalfDoneWith
<1> HIDE DEF q
<1>3. q = SumOf(a, y, c, w, n)
  BY <1>1, <1>2, SumFromFields
<1> QED BY <1>3 DEF q

LEMMA Done ==
  ASSUME NEW a, NEW b, NEW c, NEW w, NEW n, NEW r, r = SumOf(a, b, c, w, n), NEW y, NEW z, NEW k
  PROVE  DoneWith(r, y, z, k) = SumOf(a, y, z, w, k)
<1>0. DOMAIN r = {"s_acc", "delta_acc", "iota_acc", "omega", "count"} /\ r = [f \in DOMAIN r |-> r[f]]
      /\ r.s_acc = a /\ r.delta_acc = b /\ r.iota_acc = c /\ r.omega = w /\ r.count = n
  BY DEF SumOf
<1> DEFINE q == DoneWith(r, y, z, k)
<1>1. DOMAIN q = {"s_acc", "delta_acc", "iota_acc", "omega", "count"} /\ q = [f \in DOMAIN q |-> q[f]]
  BY <1>0 DEF DoneWith
<1>2. q.s_acc = a /\ q.delta_acc = y /\ q.iota_acc = z /\ q.omega = w /\ q.count = k
  BY <1>0 DEF DoneWith
<1> HIDE DEF q
<1>3. q = SumOf(a, y, z, w, k)
  BY <1>1, <1>2, SumFromFields
<1> QED BY <1>3 DEF q

\* A push either books the point, or panics with its sum begun.
LEMMA PushIs ==
  ASSUME SumOK, NEW p \in AnyLedger, push(p)
  PROVE  \E a, b, c, w \in Int, n \in Nat :
           /\ sum = SumOf(a, b, c, w, n) /\ Admits(p) /\ ledger' = ledger
           /\ \/ /\ sum' = SumOf(WrapU(a + p.s), Wrap(b + p.delta), Wrap(-Wrap(b + p.delta)), p.omega, n + 1)
                 /\ accepted' = Append(accepted, p) /\ panicked' = panicked
              \/ /\ panicked' = TRUE /\ accepted' = accepted
                 /\ \/ sum' = SumOf(WrapU(a + p.s), b, c, p.omega, n)
                    \/ /\ Fits(b + p.delta) /\ ~Fits(-(b + p.delta))
                       /\ sum' = SumOf(WrapU(a + p.s), b + p.delta, c, p.omega, n)
<1> DEFINE a == sum.s_acc
           b == sum.delta_acc
           c == sum.iota_acc
           w == sum.omega
           n == sum.count
           v == p.omega
           x == WrapU(a + p.s)
           total == b + p.delta
           begun == BegunWith(sum, v, x)
<1>1. a \in Int /\ b \in Int /\ c \in Int /\ w \in Int /\ n \in Nat
  BY DEF SumOK
<1>2. sum = SumOf(a, b, c, w, n)
  BY DEF SumOK, SumOf
<1>3. begun = SumOf(x, b, c, v, n)
  <2> HIDE DEF a, b, c, w, n, v, x
  <2> QED BY <1>2, Begun
<1>4. begun.count = n /\ begun.delta_acc = b
  <2> HIDE DEF begun, a, b, c, w, n, v, x
  <2> QED BY <1>3 DEF SumOf
<1>5. /\ Admits(p) /\ ledger' = ledger
      /\ \/ /\ sum' = DoneWith(begun, Wrap(total), Wrap(-Wrap(total)), begun.count + 1)
            /\ accepted' = Append(accepted, p) /\ panicked' = panicked
         \/ sum' = begun /\ panicked' = TRUE /\ accepted' = accepted
         \/ /\ Fits(total) /\ ~Fits(-total)
            /\ sum' = HalfDoneWith(begun, total) /\ panicked' = TRUE /\ accepted' = accepted
  BY Zenon DEF push, Overflow, BegunWith, HalfDoneWith, DoneWith
<1>6. ASSUME NEW y, NEW z, NEW k
      PROVE  DoneWith(begun, y, z, k) = SumOf(x, y, z, v, k)
  <2> HIDE DEF begun, a, b, c, w, n, v, x
  <2> QED BY <1>3, Done
<1>7. ASSUME NEW y PROVE HalfDoneWith(begun, y) = SumOf(x, y, c, v, n)
  <2> HIDE DEF begun, a, b, c, w, n, v, x
  <2> QED BY <1>3, HalfDone
<1> HIDE DEF begun, a, b, c, w, n, v, x, total
<1>8. \/ /\ sum' = SumOf(x, Wrap(total), Wrap(-Wrap(total)), v, n + 1)
         /\ accepted' = Append(accepted, p) /\ panicked' = panicked
      \/ /\ panicked' = TRUE /\ accepted' = accepted
         /\ \/ sum' = SumOf(x, b, c, v, n)
            \/ Fits(total) /\ ~Fits(-total) /\ sum' = SumOf(x, total, c, v, n)
  <2>1. DoneWith(begun, Wrap(total), Wrap(-Wrap(total)), begun.count + 1)
        = SumOf(x, Wrap(total), Wrap(-Wrap(total)), v, n + 1)
    BY <1>4, <1>6, Zenon
  <2>2. HalfDoneWith(begun, total) = SumOf(x, total, c, v, n)
    BY <1>7, Zenon
  <2> QED BY <1>3, <1>5, <2>1, <2>2, Zenon
<1> QED BY <1>1, <1>2, <1>5, <1>8, Zenon DEF x, v, total

\* The books after a point more.
LEMMA BooksOfMore ==
  ASSUME SumOK, AcceptedOK, Booked, NEW p \in AnyLedger, is_balanced(p)
  PROVE  LET more == Append(accepted, p) IN
         /\ WrapU(sum.s_acc + p.s) = WrapU(Total(more, "s"))
         /\ Wrap(sum.delta_acc + p.delta) = Wrap(Total(more, "delta"))
         /\ Wrap(-Wrap(sum.delta_acc + p.delta)) = Wrap(Total(more, "iota"))
<1> DEFINE more == Append(accepted, p)
           ts == Total(accepted, "s")
           td == Total(accepted, "delta")
           ti == Total(accepted, "iota")
           ps == p.s
           pd == p.delta
           pi == p.iota
<1>1. IsSeq(accepted) /\ \A k \in DOMAIN accepted : accepted[k] \in AnyLedger
  BY DEF AcceptedOK
<1>2. ps \in Int /\ pd \in Int /\ pi \in Int
  BY AnyLedgerOK
<1>3. ts \in Int /\ Total(more, "s") = ts + ps
  <2>1. \A k \in DOMAIN accepted : accepted[k]["s"] \in Int
    BY <1>1, AnyLedgerOK
  <2> QED BY <1>1, <1>2, <2>1, TotalOfMore
<1>4. td \in Int /\ Total(more, "delta") = td + pd
  <2>1. \A k \in DOMAIN accepted : accepted[k]["delta"] \in Int
    BY <1>1, AnyLedgerOK
  <2> QED BY <1>1, <1>2, <2>1, TotalOfMore
<1>5. ti \in Int /\ Total(more, "iota") = ti + pi
  <2>1. \A k \in DOMAIN accepted : accepted[k]["iota"] \in Int
    BY <1>1, AnyLedgerOK
  <2> QED BY <1>1, <1>2, <2>1, TotalOfMore
<1>6. sum.s_acc = WrapU(ts) /\ sum.delta_acc = Wrap(td) /\ sum.iota_acc = Wrap(ti)
      /\ Wrap(ti) = Wrap(-Wrap(td))
  BY DEF Booked
<1>7. Wrap(pd + pi) = 0
  BY DEF is_balanced, reconciliation
<1> DEFINE acs == sum.s_acc
           acd == sum.delta_acc
           ms == Total(more, "s")
           md == Total(more, "delta")
           mi == Total(more, "iota")
<1>8. acs = WrapU(ts) /\ acd = Wrap(td) /\ ms = ts + ps /\ md = td + pd /\ mi = ti + pi
  BY <1>3, <1>4, <1>5, <1>6
<1> HIDE DEF more, ts, td, ti, ps, pd, pi, acs, acd, ms, md, mi
<1>9. WrapU(acs + ps) = WrapU(ms)
  BY <1>2, <1>3, <1>8, UnsignedFacts
<1>10. Wrap(acd + pd) = Wrap(md)
  BY <1>2, <1>4, <1>8, WrapSum
<1>11. Wrap(-Wrap(acd + pd)) = Wrap(mi)
  <2>1. -td \in Int /\ -pd \in Int /\ td + pd \in Int /\ -(td + pd) = -td + -pd
    BY <1>2, <1>4
  <2>2. Wrap(-Wrap(acd + pd)) = Wrap(-td + -pd)
    <3>1. Wrap(-Wrap(td + pd)) = Wrap(-(td + pd))
      BY <2>1, WrapMinus
    <3> QED BY <1>8, <1>10, <2>1, <3>1
  <2>3. Wrap(ti) = Wrap(-td) /\ Wrap(pi) = Wrap(-pd)
    BY <1>2, <1>4, <1>6, <1>7, WrapMinus, BalancedMeans
  <2>4. Wrap(ti + pi) = Wrap(Wrap(ti) + pi) /\ Wrap(-td + pi) = Wrap(Wrap(-td) + pi)
    BY <1>2, <1>5, <2>1, WrapSum
  <2>5. Wrap(-td + pi) = Wrap(-td + Wrap(pi)) /\ Wrap(-td + -pd) = Wrap(-td + Wrap(-pd))
    BY <1>2, <1>5, <2>1, WrapSum
  <2> QED BY <1>8, <2>2, <2>3, <2>4, <2>5
<1> QED BY <1>9, <1>10, <1>11 DEF more, ps, pd, pi, acs, acd, ms, md, mi

LEMMA PushStep ==
  ASSUME SumInv, ~panicked, NEW p \in AnyLedger, push(p)
  PROVE  SumInv'
<1>1. SumOK /\ AcceptedOK /\ Booked /\ sum_is_balanced
  BY BookedBalances DEF SumInv
<1>2. PICK a, b, c, w \in Int, n \in Nat :
        /\ sum = SumOf(a, b, c, w, n) /\ Admits(p) /\ ledger' = ledger
        /\ \/ /\ sum' = SumOf(WrapU(a + p.s), Wrap(b + p.delta), Wrap(-Wrap(b + p.delta)), p.omega, n + 1)
              /\ accepted' = Append(accepted, p) /\ panicked' = panicked
           \/ /\ panicked' = TRUE /\ accepted' = accepted
              /\ \/ sum' = SumOf(WrapU(a + p.s), b, c, p.omega, n)
                 \/ /\ Fits(b + p.delta) /\ ~Fits(-(b + p.delta))
                    /\ sum' = SumOf(WrapU(a + p.s), b + p.delta, c, p.omega, n)
  BY <1>1, PushIs
<1>3. sum.s_acc = a /\ sum.delta_acc = b /\ sum.iota_acc = c /\ sum.omega = w /\ sum.count = n
  BY <1>2 DEF SumOf
<1>4. p.s \in Int /\ p.delta \in Int /\ p.iota \in Int /\ p.omega \in Int
  BY AnyLedgerOK
<1>5. is_balanced(p) /\ n = Len(accepted) /\ \A k \in DOMAIN accepted : accepted[k].omega = p.omega
  <2>1. n = Len(accepted) /\ \A k \in DOMAIN accepted : accepted[k].omega = w
    BY <1>1, <1>3 DEF SumOK
  <2>2. DOMAIN accepted = 1 .. n
    BY <1>1, <2>1, SeqFacts DEF AcceptedOK
  <2> QED BY <1>2, <1>3, <2>1, <2>2 DEF Admits
<1> DEFINE s2 == WrapU(a + p.s)
           d2 == Wrap(b + p.delta)
           i2 == Wrap(-d2)
<1>6. s2 \in Int /\ d2 \in Int /\ i2 \in Int
  <2>1. a + p.s \in Int /\ b + p.delta \in Int
    BY <1>4
  <2>2. s2 \in Int
    BY <2>1, UnsignedFacts
  <2>3. d2 \in Int
    BY <2>1, WrapExists
  <2>4. i2 \in Int
    <3> HIDE DEF d2
    <3> QED BY <2>3, WrapExists
  <2> QED BY <2>2, <2>3, <2>4
<1>7. CASE /\ sum' = SumOf(s2, d2, i2, p.omega, n + 1)
           /\ accepted' = Append(accepted, p) /\ panicked' = panicked
  <2> DEFINE more == Append(accepted, p)
  <2>1. /\ IsSeq(more) /\ Len(more) = n + 1 /\ DOMAIN more = 1 .. n + 1
        /\ \A k \in 1 .. n : more[k] = accepted[k]
        /\ more[n + 1] = p
        /\ DOMAIN accepted = 1 .. n
    BY <1>1, <1>5, AppendFacts, SeqFacts DEF AcceptedOK
  <2>2. s2 = WrapU(Total(more, "s")) /\ d2 = Wrap(Total(more, "delta")) /\ i2 = Wrap(Total(more, "iota"))
    BY <1>1, <1>3, <1>5, BooksOfMore
  <2> HIDE DEF s2, d2, more
  <2>3. /\ sum'.s_acc = s2 /\ sum'.delta_acc = d2 /\ sum'.iota_acc = i2
        /\ sum'.omega = p.omega /\ sum'.count = n + 1
    BY <1>7 DEF SumOf
  <2>4. accepted' = more
    BY <1>7 DEF more
  <2>5. \A k \in 1 .. n + 1 : more[k] \in AnyLedger /\ more[k].omega = p.omega
    <3> TAKE k \in 1 .. n + 1
    <3>1. k \in 1 .. n \/ k = n + 1
      OBVIOUS
    <3>2. CASE k \in 1 .. n
      BY <1>1, <1>5, <2>1, <3>2 DEF AcceptedOK
    <3> QED BY <2>1, <3>1, <3>2
  <2>6. AcceptedOK'
    <3>1. IsSeq(accepted)' 
      BY <2>1, <2>4 DEF IsSeq
    <3> QED BY <2>1, <2>4, <2>5, <3>1 DEF AcceptedOK
  <2>7. sum' \in [s_acc : Int, delta_acc : Int, iota_acc : Int, omega : Int, count : Nat]
    BY <1>4, <1>6, <1>7 DEF SumOf
  <2>8. SumOK'
    BY <2>1, <2>3, <2>4, <2>5, <2>7 DEF SumOK
  <2>9. Booked'
    BY <2>2, <2>3, <2>4 DEF Booked
  <2> QED BY <1>7, <2>6, <2>8, <2>9 DEF SumInv
<1>8. ASSUME panicked' = TRUE, accepted' = accepted, NEW x \in Int, sum' = SumOf(s2, x, c, p.omega, n),
             Wrap(x + c) = 0 \/ x = -(Modulus \div 2)
      PROVE  SumInv'
  <2> HIDE DEF s2
  <2>1. /\ sum'.delta_acc = x /\ sum'.iota_acc = c /\ sum'.omega = p.omega /\ sum'.count = n
    BY <1>8 DEF SumOf
  <2>2. sum' \in [s_acc : Int, delta_acc : Int, iota_acc : Int, omega : Int, count : Nat]
    BY <1>4, <1>6, <1>8 DEF SumOf
  <2>3. AcceptedOK' /\ SumOK'
    BY <1>1, <1>5, <1>8, <2>1, <2>2 DEF AcceptedOK, SumOK, IsSeq
  <2>4. sum_is_balanced' <=> Wrap(x + c) = 0
    BY <2>1 DEF sum_is_balanced
  <2> QED BY <1>8, <2>1, <2>3, <2>4 DEF SumInv
<1>9. CASE panicked' = TRUE /\ accepted' = accepted /\ sum' = SumOf(s2, b, c, p.omega, n)
  <2>1. Wrap(b + c) = 0
    BY <1>1, <1>3 DEF sum_is_balanced
  <2> HIDE DEF s2
  <2> QED BY <1>8, <1>9, <2>1
<1>10. CASE /\ panicked' = TRUE /\ accepted' = accepted /\ Fits(b + p.delta) /\ ~Fits(-(b + p.delta))
            /\ sum' = SumOf(s2, b + p.delta, c, p.omega, n)
  <2> DEFINE x == b + p.delta
  <2>1. x \in Int
    BY <1>4
  <2>2. Wrap(x) = x /\ ~(Wrap(-x) = -x)
    BY <1>10 DEF Fits
  <2>3. sum' = SumOf(s2, x, c, p.omega, n)
    BY <1>10
  <2> HIDE DEF x, s2
  <2>4. -x \in Int /\ Half \in Nat
    BY <2>1, HalfFacts
  <2>5. -Half <= x /\ x < Half /\ ~(-Half <= -x /\ -x < Half)
    BY <2>1, <2>2, <2>4, WrapSmall
  <2>6. x = -Half
    BY <2>1, <2>4, <2>5
  <2> QED BY <1>8, <1>10, <2>1, <2>3, <2>6 DEF Half
<1> QED BY <1>2, <1>7, <1>9, <1>10

LEMMA LedgerInvNext == LedgerInv /\ [LedgerNext]_ledgerVars => LedgerInv'
<1> SUFFICES ASSUME LedgerInv, [LedgerNext]_ledgerVars PROVE LedgerInv'
  OBVIOUS
<1>0. LedgerOK /\ SumInv
  BY DEF LedgerInv
<1>1. CASE UNCHANGED ledgerVars
  <2>1. LedgerOK' /\ AcceptedOK' /\ SumOK' /\ (Booked' <=> Booked)
        /\ (sum_is_balanced' <=> sum_is_balanced) /\ panicked' = panicked /\ sum' = sum
    BY <1>0, <1>1 DEF ledgerVars, LedgerOK, SumInv, AcceptedOK, SumOK, Booked, sum_is_balanced, IsSeq
  <2> QED BY <1>0, <2>1 DEF LedgerInv, SumInv
<1>2. ASSUME ~panicked, NEW l \in Built, compose(l) PROVE LedgerInv'
  <2>1. UNCHANGED <<sum, accepted>> /\ panicked' \in BOOLEAN
    BY <1>0, <1>2 DEF compose, Overflow, SumInv
  <2> QED BY <1>0, <1>2, <2>1, ComposeStep, SumRests DEF LedgerInv
<1>3. ASSUME ~panicked, NEW l \in AnyLedger, evolve(l) PROVE LedgerInv'
  <2>1. UNCHANGED <<sum, accepted>> /\ panicked' \in BOOLEAN
    BY <1>0, <1>3 DEF evolve, Overflow, SumInv
  <2> QED BY <1>0, <1>3, <2>1, EvolveStep, SumRests DEF LedgerInv
<1>4. ASSUME ~panicked, NEW l \in AnyLedger, push(l) PROVE LedgerInv'
  <2>1. ledger' = ledger
    BY <1>4, Zenon DEF push, Overflow
  <2>2. LedgerOK'
    BY <1>0, <2>1 DEF LedgerOK
  <2> QED BY <1>0, <1>4, <2>2, PushStep DEF LedgerInv
<1>5. ASSUME ~panicked, NEW l \in AnyLedger, BalancePanics(l) PROVE LedgerInv'
  <2>1. ledger' = ledger /\ UNCHANGED <<sum, accepted>> /\ panicked' \in BOOLEAN
    BY <1>5 DEF BalancePanics, Overflow
  <2>2. LedgerOK'
    BY <1>0, <2>1 DEF LedgerOK
  <2> QED BY <1>0, <1>5, <2>1, <2>2, SumRests DEF LedgerInv
<1>6. ASSUME ~panicked, Store PROVE LedgerInv'
  <2>1. UNCHANGED <<sum, accepted>> /\ panicked' \in BOOLEAN
    BY <1>0, <1>6 DEF Store, SumInv
  <2> QED BY <1>0, <1>6, <2>1, StoreStep, SumRests DEF LedgerInv
<1> QED BY <1>1, <1>2, <1>3, <1>4, <1>5, <1>6, Zenon DEF LedgerNext

\* Whatever is composed, evolved, stored, read back and pushed, in integers of
\* whatever width, and wherever a push panics: the ledger balances and the sum
\* is the total of the points it has taken.  BooksBalance always holds.
THEOREM BooksBalanced == LedgerSpec => []BooksBalance
<1>1. LedgerSpec => []LedgerInv
  BY LedgerInvInit, LedgerInvNext, PTL DEF LedgerSpec
<1> QED BY <1>1, BooksImplied, PTL

(***************************************************************************)
(* The sphere.                                                             *)
(***************************************************************************)
LEMMA TripleIs ==
  \A a, b, c, x, y, z : <<a, b, c>> = <<x, y, z>> <=> a = x /\ b = y /\ c = z
OBVIOUS

LEMMA VectorIs ==
  /\ vec3_from_glyph(0) = <<1, 0, 0>> /\ vec3_from_glyph(1) = <<-1, 0, 0>>
  /\ vec3_from_glyph(2) = <<0, 1, 0>> /\ vec3_from_glyph(3) = <<0, 0, -1>>
  /\ vec3_from_glyph(4) = <<0, 0, 1>> /\ vec3_from_glyph(5) = <<0, -1, 0>>
BY DEF vec3_from_glyph, Pi, Gamma, Delta, Psi, Lambda, Omega

LEMMA VectorsDiffer ==
  ASSUME NEW g \in Glyph, NEW h \in Glyph, vec3_from_glyph(g) = vec3_from_glyph(h)
  PROVE  g = h
<1>1. g \in {0, 1, 2, 3, 4, 5} /\ h \in {0, 1, 2, 3, 4, 5}
  BY DEF Glyph
<1> DEFINE x(k) == vec3_from_glyph(k)[1]
           y(k) == vec3_from_glyph(k)[2]
           z(k) == vec3_from_glyph(k)[3]
<1>2. /\ x(0) = 1 /\ y(0) = 0 /\ z(0) = 0 /\ x(1) = -1 /\ y(1) = 0 /\ z(1) = 0
      /\ x(2) = 0 /\ y(2) = 1 /\ z(2) = 0 /\ x(3) = 0 /\ y(3) = 0 /\ z(3) = -1
      /\ x(4) = 0 /\ y(4) = 0 /\ z(4) = 1 /\ x(5) = 0 /\ y(5) = -1 /\ z(5) = 0
  BY VectorIs
<1>3. x(g) = x(h) /\ y(g) = y(h) /\ z(g) = z(h)
  OBVIOUS
<1> HIDE DEF x, y, z
<1> QED BY <1>1, <1>2, <1>3

\* Of the 27 vectors these six have norm 1.
LEMMA UnitVectors ==
  ASSUME NEW v \in (-1 .. 1) \X (-1 .. 1) \X (-1 .. 1)
  PROVE  norm_sq(v) = K_QLG <=> \E g \in Glyph : vec3_from_glyph(g) = v
<1>1. PICK a \in -1 .. 1, b \in -1 .. 1, c \in -1 .. 1 : v = <<a, b, c>>
  OBVIOUS
<1>2. norm_sq(v) = a * a + b * b + c * c
  BY <1>1 DEF norm_sq
<1>3. \A k \in -1 .. 1 : k * k = IF k = 0 THEN 0 ELSE 1
  <2>1. \A k \in -1 .. 1 : k = -1 \/ k = 0 \/ k = 1
    OBVIOUS
  <2>2. (-1) * (-1) = 1 /\ 0 * 0 = 0 /\ 1 * 1 = 1
    OBVIOUS
  <2> QED BY <2>1, <2>2
<1> DEFINE p == a * a
           q == b * b
           r == c * c
<1>4. /\ p = (IF a = 0 THEN 0 ELSE 1) /\ q = (IF b = 0 THEN 0 ELSE 1) /\ r = (IF c = 0 THEN 0 ELSE 1)
      /\ norm_sq(v) = p + q + r
  BY <1>2, <1>3
<1> HIDE DEF p, q, r
<1>5. ASSUME NEW x, NEW y, NEW z
      PROVE  v = <<x, y, z>> <=> a = x /\ b = y /\ c = z
  BY <1>1, TripleIs
<1>6. (\E g \in Glyph : vec3_from_glyph(g) = v) <=>
        \/ v = <<1, 0, 0>>
        \/ v = <<-1, 0, 0>>
        \/ v = <<0, 1, 0>>
        \/ v = <<0, 0, -1>>
        \/ v = <<0, 0, 1>>
        \/ v = <<0, -1, 0>>
  <2>1. \A g \in Glyph : g = 0 \/ g = 1 \/ g = 2 \/ g = 3 \/ g = 4 \/ g = 5
    BY DEF Glyph
  <2>2. 0 \in Glyph /\ 1 \in Glyph /\ 2 \in Glyph /\ 3 \in Glyph /\ 4 \in Glyph /\ 5 \in Glyph
    BY DEF Glyph
  <2> QED BY <2>1, <2>2, VectorIs
<1>7. (\E g \in Glyph : vec3_from_glyph(g) = v) <=>
        \/ a \in {1, -1} /\ b = 0 /\ c = 0
        \/ a = 0 /\ b \in {1, -1} /\ c = 0
        \/ a = 0 /\ b = 0 /\ c \in {1, -1}
  BY <1>5, <1>6
<1>8. norm_sq(v) = 1 <=>
        \/ a \in {1, -1} /\ b = 0 /\ c = 0
        \/ a = 0 /\ b \in {1, -1} /\ c = 0
        \/ a = 0 /\ b = 0 /\ c \in {1, -1}
  BY <1>1, <1>4
<1> QED BY <1>7, <1>8 DEF K_QLG

\* The ledger of a glyph.
OwnLedger(g) == NewLedger(g, g + 1, K_QLG)

LEMMA WrapUIs ==
  ASSUME NEW x \in Int, 0 <= x, x < Modulus
  PROVE  WrapU(x) = x
<1>1. Modulus \in Nat /\ x = Modulus * 0 + x
  BY HalfFacts
<1> QED BY <1>1, ModIs DEF WrapU

LEMMA OwnLedgerFacts ==
  ASSUME NEW g \in Glyph
  PROVE  /\ OwnLedger(g).delta = g + 1 /\ OwnLedger(g).iota = Wrap(-(g + 1)) /\ OwnLedger(g).omega = K_QLG
         /\ is_balanced(OwnLedger(g)) /\ sla_to_qra(OwnLedger(g)) = {g}
<1>1. g \in Int /\ g + 1 \in Int /\ (g + 1) - 1 = g /\ 0 <= g /\ g < Modulus
  BY LedgerBounds DEF Glyph
<1> DEFINE l == OwnLedger(g)
           d == g + 1
<1>2. l.delta = d /\ l.iota = Wrap(-d) /\ l.omega = K_QLG
  <2> HIDE DEF d
  <2>1. l = NewLedger(g, d, K_QLG)
    BY DEF OwnLedger, d
  <2> HIDE DEF l
  <2> QED BY <2>1 DEF NewLedger
<1>3. WrapU(d - 1) = g
  BY <1>1, WrapUIs
<1>4. d \in Int
  BY <1>1
<1> HIDE DEF l, d
<1>5. reconciliation(l) = 0
  <2>1. reconciliation(l) = Wrap(d + Wrap(-d))
    BY <1>2 DEF reconciliation
  <2> QED BY <1>4, <2>1, WrapZero
<1>6. is_balanced(l)
  BY <1>5 DEF is_balanced
<1>7. sla_to_qra(l) = {h \in Glyph : WrapU(d - 1) = h}
  BY <1>2, <1>6 DEF sla_to_qra
<1>8. sla_to_qra(l) = {g}
  BY <1>3, <1>7
<1> QED BY <1>2, <1>6, <1>8 DEF l, d

LEMMA PointFacts ==
  ASSUME NEW g \in Glyph
  PROVE  /\ norm_sq(vec3_from_glyph(g)) = K_QLG
         /\ glyph_from_vec3(vec3_from_glyph(g)) = {g}
         /\ qlg_to_sla(vec3_from_glyph(g)) = {OwnLedger(g)}
         /\ round_trip_qlg(vec3_from_glyph(g)) = {vec3_from_glyph(g)}
<1> DEFINE v == vec3_from_glyph(g)
<1>1. v \in (-1 .. 1) \X (-1 .. 1) \X (-1 .. 1)
  <2>1. g = 0 \/ g = 1 \/ g = 2 \/ g = 3 \/ g = 4 \/ g = 5
    BY DEF Glyph
  <2>2. -1 \in -1 .. 1 /\ 0 \in -1 .. 1 /\ 1 \in -1 .. 1
    OBVIOUS
  <2> QED BY <2>1, <2>2, VectorIs
<1>2. norm_sq(v) = K_QLG
  BY <1>1, UnitVectors
<1>3. glyph_from_vec3(v) = {g}
  BY VectorsDiffer DEF glyph_from_vec3
<1> HIDE DEF v
<1>4. qlg_to_sla(v) = {OwnLedger(g)}
  BY <1>2, <1>3 DEF qlg_to_sla, OwnLedger
<1>5. UNION {sla_to_qra(l) : l \in qlg_to_sla(v)} = {g}
  BY <1>4, OwnLedgerFacts
<1>6. round_trip_qlg(v) = {vec3_from_glyph(g)}
  BY <1>5 DEF round_trip_qlg
<1> QED BY <1>2, <1>3, <1>4, <1>6 DEF v

\* A point comes back from its ledger, and one off the sphere has none.
LEMMA SphereDoesReturn == SphereReturns
<1> SUFFICES ASSUME NEW v \in (-1 .. 1) \X (-1 .. 1) \X (-1 .. 1)
             PROVE  round_trip_qlg(v) = IF norm_sq(v) = K_QLG THEN {v} ELSE {}
  BY DEF SphereReturns
<1>1. CASE norm_sq(v) = K_QLG
  <2>1. PICK g \in Glyph : vec3_from_glyph(g) = v
    BY <1>1, UnitVectors
  <2> QED BY <1>1, <2>1, PointFacts
<1>2. CASE norm_sq(v) # K_QLG
  <2>1. qlg_to_sla(v) = {}
    BY <1>2 DEF qlg_to_sla
  <2>2. UNION {sla_to_qra(l) : l \in qlg_to_sla(v)} = {}
    BY <2>1
  <2>3. round_trip_qlg(v) = {}
    BY <2>2 DEF round_trip_qlg
  <2> QED BY <1>2, <2>3
<1> QED BY <1>1, <1>2

\* A glyph has a certificate that is valid and comes back to it.
LEMMA GlyphsReconcile ==
  ASSUME NEW g \in Glyph
  PROVE  \E c \in reconcile(g) : certificate_is_valid(c) /\ c.qra_target = g
<1> DEFINE l == OwnLedger(g)
           c == Certificate(g, l, g)
           norm == norm_sq(vec3_from_glyph(g))
<1>1. norm = K_QLG /\ is_balanced(l) /\ l.omega = K_QLG /\ sla_to_qra(l) = {g}
      /\ qlg_to_sla(vec3_from_glyph(g)) = {l}
  BY PointFacts, OwnLedgerFacts
<1>2. c = [glyph |-> g, qlg_norm_sq |-> norm, sla_balanced |-> is_balanced(l), sla_omega |-> l.omega,
           qra_target |-> g, isomorphism_holds |-> g = g /\ norm = K_QLG /\ l.omega = K_QLG]
  BY Zenon DEF Certificate
<1> HIDE DEF l, norm
<1>3. c.qra_target = g /\ c.isomorphism_holds /\ c.sla_balanced /\ c.qlg_norm_sq = K_QLG /\ c.sla_omega = K_QLG
  <2> HIDE DEF c
  <2> QED BY <1>1, <1>2
<1>4. c \in reconcile(g)
  <2>1. c \in {Certificate(g, l, t) : t \in sla_to_qra(l)}
    BY <1>1
  <2> HIDE DEF c
  <2> QED BY <1>1, <2>1 DEF reconcile
<1> HIDE DEF c
<1> QED BY <1>3, <1>4 DEF certificate_is_valid

\* A ledger that classifies as a glyph is that glyph's own up to its symbol.
LEMMA ClassifiedIsOwn ==
  ASSUME LedgerOK, NEW g \in sla_to_qra(ledger)
  PROVE  [ledger EXCEPT !.s = OwnLedger(g).s] = OwnLedger(g)
<1>1. PICK s \in Symbol64, d \in Int, i \in Int, o \in Omegas :
        ledger = [s |-> s, delta |-> d, iota |-> i, omega |-> o]
  BY DEF LedgerOK
<1>2. i = Wrap(-d) /\ Fits(d)
  BY <1>1 DEF LedgerOK
<1>3. g \in Glyph /\ o = K_QLG /\ WrapU(d - 1) = g
  BY <1>1 DEF sla_to_qra
<1>4. Modulus \in Nat /\ Half \in Nat /\ Modulus = Half + Half /\ Half >= 8
  BY HalfFacts, LedgerBounds
<1>5. -Half <= d /\ d < Half
  BY <1>2, WrapSmall DEF Fits
<1>6. PICK q \in Int : d - 1 = Modulus * q + g
  <2>1. d - 1 \in Int
    OBVIOUS
  <2> QED BY <1>3, <2>1, ModExists DEF WrapU
<1>7. d = g + 1
  <2>1. g \in 0 .. 5 /\ g \in Int
    BY <1>3 DEF Glyph
  <2> DEFINE mq == Modulus * q
  <2>2. CASE q = 0
    <3>1. mq = 0
      BY <1>4, <2>2
    <3> HIDE DEF mq
    <3>2. d - 1 = mq + g
      BY <1>6 DEF mq
    <3> QED BY <2>1, <3>1, <3>2
  <2>3. CASE q >= 1
    <3>1. mq \in Int /\ mq >= Modulus
      BY <1>4, <2>3
    <3>2. d - 1 = mq + g
      BY <1>6
    <3> HIDE DEF mq
    <3> QED BY <1>4, <1>5, <2>1, <3>1, <3>2
  <2>4. CASE q <= -1
    <3>1. mq \in Int /\ mq <= -Modulus
      BY <1>4, <2>4
    <3>2. d - 1 = mq + g
      BY <1>6
    <3> HIDE DEF mq
    <3> QED BY <1>4, <1>5, <2>1, <3>1, <3>2
  <2> QED BY <2>2, <2>3, <2>4
<1> DEFINE own == OwnLedger(g)
           t == own.s
<1>8. own = [s |-> t, delta |-> d, iota |-> i, omega |-> o]
  <2>1. own = NewLedger(g, d, o)
    BY <1>3, <1>7 DEF OwnLedger
  <2>2. own = [s |-> WrapU(g), delta |-> d, iota |-> i, omega |-> o]
    BY <1>2, <2>1 DEF NewLedger
  <2>3. t = WrapU(g)
    BY <2>2
  <2> QED BY <2>2, <2>3
<1> HIDE DEF own, t
<1>9. [ledger EXCEPT !.s = t] = [s |-> t, delta |-> d, iota |-> i, omega |-> o]
  BY <1>1
<1>10. [ledger EXCEPT !.s = t] = own
  BY <1>8, <1>9
<1> QED BY <1>10 DEF own, t

LEMMA IsomorphismImplied == LedgerInv => IsomorphismHolds
<1> SUFFICES ASSUME LedgerInv PROVE IsomorphismHolds
  OBVIOUS
<1>1. TransitionsReconcile
  <2> SUFFICES ASSUME NEW c \in Glyph, NEW p \in Glyph
               PROVE  \E cert \in reconcile_transition(c, p) :
                        certificate_is_valid(cert) /\ cert.qra_target = next_glyph(c, p)
    BY DEF TransitionsReconcile
  <2>1. next_glyph(c, p) \in Glyph
    BY RustRows
  <2> QED BY <2>1, GlyphsReconcile DEF reconcile_transition
<1>2. validate_central_isomorphism
  BY PointFacts DEF validate_central_isomorphism, canonical_points
<1>3. validate_full_reconciliation
  BY GlyphsReconcile DEF validate_full_reconciliation
<1>4. ASSUME NEW g \in sla_to_qra(ledger)
      PROVE  \E l \in qlg_to_sla(vec3_from_glyph(g)) : [ledger EXCEPT !.s = l.s] = l
  <2>1. g \in Glyph
    BY DEF sla_to_qra
  <2>2. OwnLedger(g) \in qlg_to_sla(vec3_from_glyph(g))
    BY <2>1, PointFacts
  <2>3. [ledger EXCEPT !.s = OwnLedger(g).s] = OwnLedger(g)
    BY ClassifiedIsOwn DEF LedgerInv
  <2> QED BY <2>2, <2>3
<1> QED BY <1>1, <1>2, <1>3, <1>4, SphereDoesReturn DEF IsomorphismHolds

\* Sphere, ledgers and glyphs are one and the same as far as a release build's
\* integers tell, whatever the ledger has become: IsomorphismHolds always holds.
THEOREM IsomorphismAlwaysHolds == LedgerSpec => []IsomorphismHolds
<1>1. LedgerSpec => []LedgerInv
  BY LedgerInvInit, LedgerInvNext, PTL DEF LedgerSpec
<1> QED BY <1>1, IsomorphismImplied, PTL

(***************************************************************************)
(* What a page is told.                                                    *)
(***************************************************************************)

\* What agent_route answers about a glyph.
Answer(g) ==
  [next_agent |-> IF g = Omega THEN 0 ELSE (g * 3) % 16,
   glyph_next |-> g, wire_byte |-> glyph_wire_byte(g), absorbed |-> g = Omega]
Onward(g) == next_glyph(Answer(g).next_agent % 6, g % 6)

\* What a page is answered for a hop.
LEMMA RouteAnswers ==
  ASSUME NEW from \in Nat, NEW prev \in Nat
  PROVE  /\ next_glyph(from % 6, prev % 6) \in Glyph
         /\ agent_route(from, prev) = Answer(next_glyph(from % 6, prev % 6))
<1> DEFINE c == from % 6
           p == prev % 6
<1>1. c \in Glyph /\ p \in Glyph
  BY DEF Glyph
<1> HIDE DEF c, p
<1>2. qra_next(c, p) = next_glyph(c, p)
  BY <1>1 DEF qra_next
<1>3. agent_route(from, prev) = Answer(qra_next(c, p))
  BY DEF agent_route, Answer, c, p
<1>4. next_glyph(c, p) \in Glyph
  BY <1>1, RustRows
<1> QED BY <1>2, <1>3, <1>4 DEF c, p

\* Where each glyph leads when its agent passes the message on.
LEMMA OnwardIs ==
  ASSUME NEW g \in Glyph
  PROVE  /\ Answer(g).next_agent \in Nat
         /\ Onward(g) = IF g \in {0, 4} THEN 2 ELSE 3
<1>1. g = 0 \/ g = 1 \/ g = 2 \/ g = 3 \/ g = 4 \/ g = 5
  BY DEF Glyph
<1> DEFINE a == Answer(g).next_agent
<1>2. a = IF g = 3 THEN 0 ELSE (g * 3) % 16
  BY DEF Answer, Omega
<1>3. a = CASE g = 0 -> 0 [] g = 1 -> 3 [] g = 2 -> 6 [] g = 3 -> 0 [] g = 4 -> 12 [] g = 5 -> 15
  <2> HIDE DEF a
  <2> QED BY <1>1, <1>2
<1> HIDE DEF a
<1>4. a % 6 = (IF g \in {1, 5} THEN 3 ELSE 0) /\ g % 6 = g /\ a \in Nat
  BY <1>1, <1>3
<1>5. Onward(g) = next_glyph(a % 6, g % 6)
  BY DEF Onward, a
<1>6. next_glyph(a % 6, g % 6) = next_glyph(IF g \in {1, 5} THEN 3 ELSE 0, g)
  BY <1>4
<1>7. next_glyph(IF g \in {1, 5} THEN 3 ELSE 0, g) = IF g \in {0, 4} THEN 2 ELSE 3
  <2>1. next_glyph(0, g) = (IF g \in {2, 3} THEN 3 ELSE 2) /\ next_glyph(3, g) = 3
    BY RustTable DEF Glyph
  <2> QED BY <1>1, <2>1
<1> QED BY <1>4, <1>5, <1>6, <1>7 DEF a

(***************************************************************************)
(* Frames.                                                                 *)
(***************************************************************************)
Flat == Int \X Int \X Int

\* A ledger comes back from its 24 bytes.
LEMMA LedgerBytes ==
  ASSUME NEW b \in Ledgers
  PROVE  b \in Flat /\ b # <<>> /\ Fits(b[2])
<1>1. PICK l \in Built : b = encode(l)
  BY DEF Ledgers
<1>2. PICK s \in Symbols, d \in Amounts, o \in Omegas : l = NewLedger(s, d, o)
  BY DEF Built
<1>3. b = <<WrapU(s), d, o>>
  BY <1>1, <1>2 DEF encode, NewLedger
<1>4. s \in Int
  BY HalfFacts DEF Symbols, Half
<1>5. WrapU(s) \in Int /\ d \in Int /\ o \in Int
  BY <1>4, UnsignedFacts, LedgerBounds
<1>6. Fits(d)
  BY WasmBounds
<1> HIDE DEF Fits
<1> QED BY <1>3, <1>5, <1>6 DEF Flat

LEMMA ComposeIs ==
  ASSUME NEW a \in Flat, NEW b \in Flat
  PROVE  /\ a[3] = b[3] => sla_compose(a, b) = <<WrapU(a[1] + b[1]), Wrap(a[2] + b[2]), a[3]>>
         /\ a[3] # b[3] => sla_compose(a, b) = <<>>
         /\ sla_compose(a, b) \in Flat \cup {<<>>} /\ sla_compose(<<>>, b) = <<>>
<1>1. a # <<>> /\ b # <<>> /\ a[1] \in Int /\ a[2] \in Int /\ a[3] \in Int
      /\ b[1] \in Int /\ b[2] \in Int /\ b[3] \in Int
  BY DEF Flat
<1>2. WrapU(a[1] + b[1]) \in Int /\ Wrap(a[2] + b[2]) \in Int
  <2>1. a[1] + b[1] \in Int /\ a[2] + b[2] \in Int
    BY <1>1
  <2> QED BY <2>1, UnsignedFacts, WrapExists
<1>3. <<>> \notin {a, b}
  BY <1>1
<1>4. a[3] # b[3] => sla_compose(a, b) = <<>>
  BY DEF sla_compose
<1>5. a[3] = b[3] => sla_compose(a, b) = <<WrapU(a[1] + b[1]), Wrap(a[2] + b[2]), a[3]>>
  BY <1>3 DEF sla_compose
<1>6. sla_compose(<<>>, b) = <<>>
  BY DEF sla_compose
<1>7. <<WrapU(a[1] + b[1]), Wrap(a[2] + b[2]), a[3]>> \in Flat
  BY <1>1, <1>2 DEF Flat
<1> QED BY <1>4, <1>5, <1>6, <1>7

Composed(first, rest) == FoldLeft(sla_compose, first, rest)

\* The partial compositions of a list of ledgers.
LEMMA ComposedSteps ==
  ASSUME NEW first \in Flat, NEW rest, IsSeq(rest), \A k \in DOMAIN rest : rest[k] \in Flat
  PROVE  \E f : /\ f[1 .. 0] = first /\ Composed(first, rest) = f[1 .. Len(rest)]
                /\ \A n \in 1 .. Len(rest) : f[1 .. n] = sla_compose(f[1 .. n - 1], rest[n])
<1> DEFINE N == Len(rest)
           G == [n \in 1 .. N |-> [x \in Flat \cup {<<>>} |-> sla_compose(x, rest[n])]]
           IsFold(f) == f = [s \in SUBSET (1 .. N) |->
                               IF s = {} THEN first ELSE sla_compose(f[s \ {Max(s)}], rest[Max(s)])]
           f == CHOOSE f : IsFold(f)
<1>0. N \in Nat /\ DOMAIN rest = 1 .. N
  BY SeqFacts
<1>1. PICK g : Folds(g, N, first, G)
  <2> HIDE DEF G, N
  <2> QED BY <1>0, FoldExists
<1>2. \A s \in SUBSET (1 .. N) : g[s] \in Flat \cup {<<>>}
  <2> DEFINE D == Flat \cup {<<>>}
  <2>1. first \in D
    OBVIOUS
  <2>2. \A n \in 1 .. N, x \in D : G[n][x] \in D
    <3> SUFFICES ASSUME NEW n \in 1 .. N, NEW x \in D PROVE sla_compose(x, rest[n]) \in D
      OBVIOUS
    <3>1. rest[n] \in Flat
      BY <1>0
    <3> QED BY <3>1, ComposeIs
  <2>3. N \in Nat /\ Folds(g, N, first, G)
    BY <1>0, <1>1
  <2> HIDE DEF G, N, D
  <2>4. \A s \in SUBSET (1 .. N) : g[s] \in D
    BY <2>1, <2>2, <2>3, FoldTypes
  <2> QED BY <2>4 DEF D
<1>3. IsFold(g)
  <2>1. ASSUME NEW s \in SUBSET (1 .. N), s # {}
        PROVE  G[Max(s)][g[s \ {Max(s)}]] = sla_compose(g[s \ {Max(s)}], rest[Max(s)])
    <3>1. Max(s) \in 1 .. N
      BY <1>0, <2>1, LastOfPlaces
    <3> HIDE DEF N
    <3> QED BY <3>1, <1>2
  <2> HIDE DEF G, N
  <2> QED BY <1>1, <2>1 DEF Folds
<1>4. Composed(first, rest) = f[1 .. N]
  BY <1>0 DEF Composed, FoldLeft, MapThenFoldSet
<1>5. IsFold(f)
  <2> HIDE DEF IsFold
  <2> QED BY <1>3
<1> HIDE DEF f, N
<1>6. f[1 .. 0] = first
  <2>1. 1 .. 0 = {} /\ {} \in SUBSET (1 .. N)
    OBVIOUS
  <2> QED BY <1>5, <2>1
<1>7. ASSUME NEW n \in 1 .. N
      PROVE  f[1 .. n] = sla_compose(f[1 .. n - 1], rest[n])
  <2>1. n \in Nat /\ n # 0 /\ 1 .. n \in SUBSET (1 .. N)
    BY <1>0
  <2>2. Max(1 .. n) = n /\ (1 .. n) \ {n} = 1 .. n - 1 /\ 1 .. n # {}
    BY <2>1, LastOfFirst
  <2> QED BY <1>5, <2>1, <2>2
<1> QED BY <1>4, <1>6, <1>7 DEF N

\* Ledgers of one omega compose to the ledger of their sum, others to none.
LEMMA ComposedIs ==
  ASSUME NEW ls, IsSeq(ls), ls # <<>>, \A k \in DOMAIN ls : ls[k] \in Ledgers
  PROVE  LET composed == Composed(Head(ls), Tail(ls))
             same == \A k \in DOMAIN ls : ls[k][3] = ls[1][3]
         IN /\ same => composed \in Flat /\ composed[2] = Wrap(Total(ls, 2)) /\ composed[3] = ls[1][3]
            /\ ~same => composed = <<>>
<1> DEFINE N == Len(ls)
           first == Head(ls)
           rest == Tail(ls)
           Same(n) == \A k \in 1 .. n : ls[k][3] = ls[1][3]
<1>1. N \in Nat /\ N >= 1 /\ DOMAIN ls = 1 .. N /\ 1 \in DOMAIN ls
  BY SeqFacts
<1>2. /\ first = ls[1] /\ IsSeq(rest) /\ Len(rest) = N - 1 /\ DOMAIN rest = 1 .. N - 1
      /\ \A k \in 1 .. N - 1 : rest[k] = ls[k + 1]
  BY TailFacts
<1>3. \A k \in 1 .. N : ls[k] \in Flat /\ Fits(ls[k][2]) /\ ls[k][2] \in Int
  <2>1. \A b \in Flat : b[2] \in Int
    BY DEF Flat
  <2> QED BY <1>1, <2>1, LedgerBytes
<1>4. PICK F : /\ F[1 .. 0] = 0 /\ Total(ls, 2) = F[1 .. N]
               /\ \A n \in 0 .. N : F[1 .. n] \in Int
               /\ \A n \in 1 .. N : F[1 .. n] = F[1 .. n - 1] + ls[n][2]
  <2> DEFINE two == 2
  <2>1. \A k \in DOMAIN ls : ls[k][two] \in Int
    BY <1>1, <1>3
  <2> HIDE DEF two
  <2>2. \E F : /\ F[1 .. 0] = 0 /\ Total(ls, two) = F[1 .. N]
               /\ \A n \in 0 .. N : F[1 .. n] \in Int
               /\ \A n \in 1 .. N : F[1 .. n] = F[1 .. n - 1] + ls[n][two]
    BY <2>1, TotalSteps
  <2> QED BY <2>2 DEF two
<1> HIDE DEF N, first, rest
<1>5. first \in Flat /\ \A k \in DOMAIN rest : rest[k] \in Flat
  BY <1>1, <1>2, <1>3
<1>6. PICK f : /\ f[1 .. 0] = first /\ Composed(first, rest) = f[1 .. Len(rest)]
               /\ \A n \in 1 .. Len(rest) : f[1 .. n] = sla_compose(f[1 .. n - 1], rest[n])
  <2>1. IsSeq(rest)
    BY <1>2
  <2> QED BY <2>1, <1>5, ComposedSteps, Zenon
<1> DEFINE M == N - 1
           S == {n \in 0 .. M :
                   /\ Same(n + 1) => f[1 .. n] \in Flat /\ f[1 .. n][2] = Wrap(F[1 .. n + 1])
                                     /\ f[1 .. n][3] = ls[1][3]
                   /\ ~Same(n + 1) => f[1 .. n] = <<>>}
<1>7. M \in Nat /\ M + 1 = N /\ Len(rest) = M
  BY <1>1, <1>2
<1>8. 0 \in S
  <2>1. 0 + 1 = 1 /\ 1 \in 1 .. N /\ 1 - 1 = 0 /\ 0 \in 0 .. M /\ Same(1)
    BY <1>1, <1>7
  <2>2. F[1 .. 1] = ls[1][2]
    <3>1. F[1 .. 1] = F[1 .. 0] + ls[1][2] /\ ls[1][2] \in Int
      BY <2>1, <1>3, <1>4
    <3> QED BY <3>1, <1>4
  <2>3. Wrap(F[1 .. 1]) = ls[1][2]
    BY <2>1, <2>2, <1>3 DEF Fits
  <2> HIDE DEF Same, M
  <2> QED BY <1>2, <1>5, <1>6, <2>1, <2>3
<1>9. ASSUME NEW n \in 0 .. M - 1, n \in S PROVE n + 1 \in S
  <2> DEFINE a == f[1 .. n]
             b == ls[n + 2]
             t == F[1 .. n + 1]
  <2>1. /\ n + 1 \in 0 .. M /\ n + 1 \in 1 .. M /\ (n + 1) - 1 = n /\ (n + 1) + 1 = n + 2
        /\ n + 2 \in 1 .. N /\ (n + 2) - 1 = n + 1 /\ n + 1 \in 0 .. N
    BY <1>1, <1>7
  <2>2. rest[n + 1] = b
    BY <1>2, <1>7, <2>1
  <2>3. f[1 .. n + 1] = sla_compose(a, b)
    BY <1>6, <1>7, <2>1, <2>2
  <2>4. F[1 .. n + 2] = t + b[2] /\ t \in Int
    BY <1>4, <2>1
  <2>5. b \in Flat /\ b[2] \in Int
    BY <1>3, <2>1
  <2>6. Same(n + 2) <=> Same(n + 1) /\ b[3] = ls[1][3]
    <3>1. 1 .. n + 2 = (1 .. n + 1) \cup {n + 2}
      BY <2>1
    <3> QED BY <3>1
  <2>7. /\ Same(n + 1) => a \in Flat /\ a[2] = Wrap(t) /\ a[3] = ls[1][3]
        /\ ~Same(n + 1) => a = <<>>
    BY <1>9
  <2> HIDE DEF a, b, t, Same
  <2>8. CASE Same(n + 2)
    <3>1. a \in Flat /\ a[2] = Wrap(t) /\ a[3] = b[3] /\ a[3] = ls[1][3]
      BY <2>6, <2>7, <2>8
    <3> DEFINE u == WrapU(a[1] + b[1])
               w == Wrap(a[2] + b[2])
    <3>2. sla_compose(a, b) = <<u, w, a[3]>>
      BY <2>5, <3>1, ComposeIs
    <3>3. sla_compose(a, b) \in Flat \cup {<<>>} /\ <<u, w, a[3]>> # <<>>
      BY <2>5, <3>1, ComposeIs
    <3>4. w = Wrap(t + b[2])
      BY <2>4, <2>5, <3>1, WrapSum
    <3> HIDE DEF u, w
    <3>5. sla_compose(a, b) \in Flat /\ sla_compose(a, b)[2] = w /\ sla_compose(a, b)[3] = ls[1][3]
      BY <3>1, <3>2, <3>3
    <3> QED BY <2>1, <2>3, <2>4, <2>8, <3>4, <3>5
  <2>9. CASE ~Same(n + 2)
    <3>1. CASE Same(n + 1)
      <4>1. a \in Flat /\ a[3] # b[3]
        BY <2>6, <2>7, <2>9, <3>1
      <4>2. sla_compose(a, b) = <<>>
        BY <2>5, <4>1, ComposeIs
      <4> QED BY <2>1, <2>3, <2>9, <4>2
    <3>2. CASE ~Same(n + 1)
      <4>1. a = <<>>
        BY <2>7, <3>2
      <4>2. sla_compose(a, b) = <<>>
        BY <2>5, <4>1, ComposeIs
      <4> QED BY <2>1, <2>3, <2>9, <4>2
    <3> QED BY <3>1, <3>2
  <2> QED BY <2>8, <2>9
<1>10. M \in S
  <2>1. \A n \in 0 .. M : n \in S
    <3> HIDE DEF S
    <3> QED BY <1>7, <1>8, <1>9, UpTo
  <2> QED BY <1>7, <2>1
<1>11. /\ Same(N) => f[1 .. M] \in Flat /\ f[1 .. M][2] = Wrap(F[1 .. N]) /\ f[1 .. M][3] = ls[1][3]
       /\ ~Same(N) => f[1 .. M] = <<>>
  BY <1>7, <1>10
<1>12. Same(N) <=> \A k \in DOMAIN ls : ls[k][3] = ls[1][3]
  BY <1>1
<1>13. Composed(Head(ls), Tail(ls)) = f[1 .. M]
  BY <1>6, <1>7 DEF first, rest
<1> HIDE DEF Same, M
<1> QED BY <1>4, <1>11, <1>12, <1>13

(***************************************************************************)
(* What sla_accumulate knows when it has gone through all chunks.          *)
(***************************************************************************)
Gathered == [delta : Int, omega : Int, ok : BOOLEAN, count : Nat]
Nothing  == [delta |-> 0, omega |-> 0, ok |-> TRUE, count |-> 0]
Gather(acc, c) ==
  [delta |-> Wrap(acc.delta + c[2]), omega |-> c[3],
   ok |-> acc.ok /\ (acc.count > 0 => acc.omega = c[3]), count |-> acc.count + 1]

LEMMA GatherTypes ==
  ASSUME NEW acc \in Gathered, NEW c \in Flat
  PROVE  Gather(acc, c) \in Gathered
<1>1. c[2] \in Int /\ c[3] \in Int
  BY DEF Flat
<1>2. acc.delta + c[2] \in Int /\ acc.count + 1 \in Nat
  BY <1>1 DEF Gathered
<1>3. Wrap(acc.delta + c[2]) \in Int
  BY <1>2, WrapExists
<1> DEFINE ok == acc.ok /\ (acc.count > 0 => acc.omega = c[3])
           w == Wrap(acc.delta + c[2])
<1>4. ok \in BOOLEAN
  OBVIOUS
<1>5. Gather(acc, c) = [delta |-> w, omega |-> c[3], ok |-> ok, count |-> acc.count + 1]
  BY Zenon DEF Gather
<1> HIDE DEF ok, w
<1> QED BY <1>1, <1>2, <1>3, <1>4, <1>5 DEF Gathered, w

\* The partial sums of a frame.
LEMMA GatheredSteps ==
  ASSUME NEW ls, IsSeq(ls), \A k \in DOMAIN ls : ls[k] \in Flat
  PROVE  \E f : /\ f[1 .. 0] = Nothing /\ Accumulated(ls) = f[1 .. Len(ls)]
                /\ \A n \in 1 .. Len(ls) : f[1 .. n] = Gather(f[1 .. n - 1], ls[n])
<1> DEFINE N == Len(ls)
           G == [n \in 1 .. N |-> [x \in Gathered |-> Gather(x, ls[n])]]
           IsFold(f) == f = [s \in SUBSET (1 .. N) |->
                               IF s = {} THEN Nothing
                               ELSE [delta |-> Wrap(f[s \ {Max(s)}].delta + ls[Max(s)][2]),
                                     omega |-> ls[Max(s)][3],
                                     ok |-> f[s \ {Max(s)}].ok
                                            /\ (f[s \ {Max(s)}].count > 0 => f[s \ {Max(s)}].omega = ls[Max(s)][3]),
                                     count |-> f[s \ {Max(s)}].count + 1]]
           f == CHOOSE f : IsFold(f)
<1>0. N \in Nat /\ DOMAIN ls = 1 .. N
  BY SeqFacts
<1>1. PICK g : Folds(g, N, Nothing, G)
  <2> HIDE DEF G, N
  <2> QED BY <1>0, FoldExists
<1>2. \A s \in SUBSET (1 .. N) : g[s] \in Gathered
  <2> DEFINE D == Gathered
  <2>1. Nothing \in D
    BY DEF Nothing, Gathered
  <2>2. \A n \in 1 .. N, x \in D : G[n][x] \in D
    <3> SUFFICES ASSUME NEW n \in 1 .. N, NEW x \in D PROVE Gather(x, ls[n]) \in D
      OBVIOUS
    <3>1. ls[n] \in Flat
      BY <1>0
    <3> QED BY <3>1, GatherTypes
  <2>3. N \in Nat /\ Folds(g, N, Nothing, G)
    BY <1>0, <1>1
  <2> HIDE DEF G, N, D
  <2>4. \A s \in SUBSET (1 .. N) : g[s] \in D
    BY <2>1, <2>2, <2>3, FoldTypes
  <2> QED BY <2>4 DEF D
<1>3. g = [s \in SUBSET (1 .. N) |-> IF s = {} THEN Nothing ELSE Gather(g[s \ {Max(s)}], ls[Max(s)])]
  <2>1. ASSUME NEW s \in SUBSET (1 .. N), s # {}
        PROVE  G[Max(s)][g[s \ {Max(s)}]] = Gather(g[s \ {Max(s)}], ls[Max(s)])
    <3>1. Max(s) \in 1 .. N
      BY <1>0, <2>1, LastOfPlaces
    <3> HIDE DEF N
    <3> QED BY <3>1, <1>2
  <2> HIDE DEF G, N
  <2> QED BY <1>1, <2>1 DEF Folds
<1>4. \A h : IsFold(h) <=>
        h = [s \in SUBSET (1 .. N) |-> IF s = {} THEN Nothing ELSE Gather(h[s \ {Max(s)}], ls[Max(s)])]
  BY Zenon DEF Gather
<1>5. Accumulated(ls) = f[1 .. N]
  BY <1>0 DEF Accumulated, FoldLeft, MapThenFoldSet, Nothing
<1>6. IsFold(f)
  <2> HIDE DEF IsFold
  <2> QED BY <1>3, <1>4
<1>7. f = [s \in SUBSET (1 .. N) |-> IF s = {} THEN Nothing ELSE Gather(f[s \ {Max(s)}], ls[Max(s)])]
  <2> HIDE DEF IsFold, f
  <2> QED BY <1>4, <1>6
<1> HIDE DEF IsFold, f, N
<1>8. f[1 .. 0] = Nothing
  <2>1. 1 .. 0 = {} /\ {} \in SUBSET (1 .. N)
    OBVIOUS
  <2> QED BY <1>7, <2>1
<1>9. ASSUME NEW n \in 1 .. N
      PROVE  f[1 .. n] = Gather(f[1 .. n - 1], ls[n])
  <2>1. n \in Nat /\ n # 0 /\ 1 .. n \in SUBSET (1 .. N)
    BY <1>0
  <2>2. Max(1 .. n) = n /\ (1 .. n) \ {n} = 1 .. n - 1 /\ 1 .. n # {}
    BY <2>1, LastOfFirst
  <2> QED BY <1>7, <2>1, <2>2
<1> QED BY <1>5, <1>8, <1>9 DEF N

\* It knows the sum, the last omega, and whether all were of one omega.
LEMMA AccumulatedIs ==
  ASSUME NEW ls, IsSeq(ls), \A k \in DOMAIN ls : ls[k] \in Flat
  PROVE  LET acc == Accumulated(ls)
         IN /\ acc.delta = Wrap(Total(ls, 2)) /\ acc.count = Len(ls)
            /\ acc.omega = IF ls = <<>> THEN 0 ELSE ls[Len(ls)][3]
            /\ acc.ok <=> \A k \in DOMAIN ls : ls[k][3] = ls[1][3]
<1> DEFINE N == Len(ls)
           Same(n) == \A k \in 1 .. n : ls[k][3] = ls[1][3]
<1>1. N \in Nat /\ DOMAIN ls = 1 .. N /\ (ls = <<>> <=> N = 0)
  BY SeqFacts
<1>2. \A k \in 1 .. N : ls[k] \in Flat /\ ls[k][2] \in Int /\ ls[k][3] \in Int
  BY <1>1 DEF Flat
<1>3. PICK F : /\ F[1 .. 0] = 0 /\ Total(ls, 2) = F[1 .. N]
               /\ \A n \in 0 .. N : F[1 .. n] \in Int
               /\ \A n \in 1 .. N : F[1 .. n] = F[1 .. n - 1] + ls[n][2]
  <2> DEFINE two == 2
  <2>1. \A k \in DOMAIN ls : ls[k][two] \in Int
    BY <1>1, <1>2
  <2> HIDE DEF two
  <2>2. \E F : /\ F[1 .. 0] = 0 /\ Total(ls, two) = F[1 .. N]
               /\ \A n \in 0 .. N : F[1 .. n] \in Int
               /\ \A n \in 1 .. N : F[1 .. n] = F[1 .. n - 1] + ls[n][two]
    BY <2>1, TotalSteps
  <2> QED BY <2>2 DEF two
<1>4. PICK f : /\ f[1 .. 0] = Nothing /\ Accumulated(ls) = f[1 .. N]
               /\ \A n \in 1 .. N : f[1 .. n] = Gather(f[1 .. n - 1], ls[n])
  BY GatheredSteps
<1> HIDE DEF N
<1> DEFINE S == {n \in 0 .. N :
                   /\ f[1 .. n].delta = Wrap(F[1 .. n]) /\ f[1 .. n].count = n
                   /\ f[1 .. n].omega = IF n = 0 THEN 0 ELSE ls[n][3]
                   /\ f[1 .. n].ok <=> Same(n)}
<1>5. 0 \in S
  <2>1. /\ Nothing.delta = 0 /\ Nothing.count = 0 /\ Nothing.omega = 0 /\ Nothing.ok
        /\ Same(0) /\ 0 \in 0 .. N
    BY <1>1 DEF Nothing
  <2> HIDE DEF Same
  <2> QED BY <1>3, <1>4, <2>1, WrapZero
<1>6. ASSUME NEW n \in 0 .. N - 1, n \in S PROVE n + 1 \in S
  <2> DEFINE acc == f[1 .. n]
             more == f[1 .. n + 1]
             c == ls[n + 1]
             t == F[1 .. n]
  <2>1. n + 1 \in 0 .. N /\ n + 1 \in 1 .. N /\ (n + 1) - 1 = n /\ n \in 0 .. N /\ n \in Nat
    BY <1>1
  <2>2. more = Gather(acc, c) /\ F[1 .. n + 1] = t + c[2] /\ t \in Int /\ c[2] \in Int
    BY <1>2, <1>3, <1>4, <2>1
  <2>3. acc.delta = Wrap(t) /\ acc.count = n /\ (n # 0 => acc.omega = ls[n][3]) /\ (acc.ok <=> Same(n))
    BY <1>6
  <2>4. Same(n + 1) <=> Same(n) /\ (n > 0 => ls[n][3] = c[3])
    <3>1. 1 .. n + 1 = (1 .. n) \cup {n + 1}
      BY <2>1
    <3>2. CASE n = 0
      BY <3>1, <3>2
    <3>3. CASE n # 0
      <4>1. n \in 1 .. n /\ 1 \in 1 .. n
        BY <2>1, <3>3
      <4> QED BY <2>1, <3>1, <3>3, <4>1
    <3> QED BY <3>2, <3>3
  <2> HIDE DEF acc, more, c, t, Same
  <2>5. /\ more.delta = Wrap(acc.delta + c[2]) /\ more.omega = c[3] /\ more.count = acc.count + 1
        /\ more.ok <=> acc.ok /\ (acc.count > 0 => acc.omega = c[3])
    BY <2>2 DEF Gather
  <2>6. Wrap(acc.delta + c[2]) = Wrap(t + c[2])
    BY <2>2, <2>3, WrapSum
  <2>7. more.ok <=> Same(n + 1)
    BY <2>1, <2>3, <2>4, <2>5
  <2> QED BY <2>1, <2>2, <2>3, <2>5, <2>6, <2>7 DEF more, c
<1>7. N \in S
  <2>1. \A n \in 0 .. N : n \in S
    <3> HIDE DEF S
    <3> QED BY <1>1, <1>5, <1>6, UpTo
  <2> QED BY <1>1, <2>1
<1>8. Same(N) <=> \A k \in DOMAIN ls : ls[k][3] = ls[1][3]
  BY <1>1
<1>9. /\ f[1 .. N].delta = Wrap(F[1 .. N]) /\ f[1 .. N].count = N
      /\ f[1 .. N].omega = IF N = 0 THEN 0 ELSE ls[N][3]
      /\ f[1 .. N].ok <=> Same(N)
  BY <1>7
<1> HIDE DEF Same
<1> QED BY <1>1, <1>3, <1>4, <1>8, <1>9 DEF N

\* A sum does not depend on the order that Reverse turns round.
LEMMA TotalTurnedRound ==
  ASSUME NEW ls, IsSeq(ls), NEW field, \A k \in DOMAIN ls : ls[k][field] \in Int
  PROVE  /\ IsSeq(Reverse(ls)) /\ Len(Reverse(ls)) = Len(ls) /\ DOMAIN Reverse(ls) = 1 .. Len(ls)
         /\ \A k \in 1 .. Len(ls) : Reverse(ls)[k] = ls[Len(ls) - k + 1]
         /\ Total(Reverse(ls), field) = Total(ls, field)
<1> DEFINE N == Len(ls)
           r == Reverse(ls)
<1>1. N \in Nat /\ DOMAIN ls = 1 .. N
  BY SeqFacts
<1>2. r = [k \in 1 .. N |-> ls[(N - k) + 1]]
  BY DEF Reverse
<1>3. DOMAIN r = 1 .. N /\ \A k \in 1 .. N : r[k] = ls[N - k + 1]
  BY <1>2
<1>4. IsSeq(r) /\ Len(r) = N
  <2> HIDE DEF N, r
  <2>1. r = [k \in 1 .. N |-> r[k]]
    BY <1>2
  <2>2. \A k \in 1 .. N : r[k] \in {r[j] : j \in DOMAIN r}
    BY <1>3
  <2>3. r \in Seq({r[j] : j \in DOMAIN r})
    <3> DEFINE T == {r[j] : j \in DOMAIN r}
    <3>1. \A k \in 1 .. N : r[k] \in T
      BY <2>2
    <3> HIDE DEF T
    <3>2. r \in [1 .. N -> T]
      BY <2>1, <3>1
    <3>3. r \in Seq(T)
      BY <1>1, <3>2
    <3> QED BY <3>3 DEF T
  <2> QED BY <1>1, <1>3, <2>3 DEF IsSeq
<1>5. PICK F : /\ F[1 .. 0] = 0 /\ Total(ls, field) = F[1 .. N]
               /\ \A n \in 0 .. N : F[1 .. n] \in Int
               /\ \A n \in 1 .. N : F[1 .. n] = F[1 .. n - 1] + ls[n][field]
  BY TotalSteps
<1> HIDE DEF N, r
<1>6. \A k \in DOMAIN r : r[k][field] \in Int
  <2> SUFFICES ASSUME NEW k \in 1 .. N PROVE r[k][field] \in Int
    BY <1>3
  <2>1. N - k + 1 \in 1 .. N
    BY <1>1
  <2> QED BY <1>1, <1>3, <2>1
<1>7. PICK R : /\ R[1 .. 0] = 0 /\ Total(r, field) = R[1 .. N]
               /\ \A n \in 0 .. N : R[1 .. n] \in Int
               /\ \A n \in 1 .. N : R[1 .. n] = R[1 .. n - 1] + r[n][field]
  BY <1>4, <1>6, TotalSteps
<1> DEFINE S == {n \in 0 .. N : R[1 .. n] = F[1 .. N] - F[1 .. N - n]}
<1>8. 0 \in S
  <2>1. N - 0 = N /\ 0 \in 0 .. N /\ F[1 .. N] \in Int
    BY <1>1, <1>5
  <2> QED BY <1>7, <2>1
<1>9. ASSUME NEW n \in 0 .. N - 1, n \in S PROVE n + 1 \in S
  <2>1. /\ n + 1 \in 0 .. N /\ n + 1 \in 1 .. N /\ (n + 1) - 1 = n /\ N - (n + 1) + 1 = N - n
        /\ N - n \in 1 .. N /\ (N - n) - 1 = N - (n + 1) /\ N - (n + 1) \in 0 .. N /\ N \in 0 .. N
        /\ N - n \in 0 .. N
    BY <1>1
  <2> DEFINE x == r[n + 1][field]
             a == F[1 .. N - n]
             b == F[1 .. N - (n + 1)]
             c == F[1 .. N]
             d == R[1 .. n]
  <2>2. R[1 .. n + 1] = d + x
    BY <1>7, <2>1
  <2>3. r[n + 1] = ls[N - n]
    BY <1>3, <2>1
  <2>4. a = b + x
    BY <1>5, <2>1, <2>3
  <2>5. a \in Int /\ b \in Int /\ c \in Int /\ x \in Int
    BY <1>3, <1>5, <1>6, <2>1
  <2>6. d = c - a
    BY <1>9
  <2> HIDE DEF x, a, b, c, d
  <2>7. d + x = c - b
    BY <2>4, <2>5, <2>6
  <2> QED BY <2>1, <2>2, <2>7 DEF b, c
<1>10. N \in S
  <2>1. \A n \in 0 .. N : n \in S
    <3> HIDE DEF S
    <3> QED BY <1>1, <1>8, <1>9, UpTo
  <2> QED BY <1>1, <2>1
<1>11. R[1 .. N] = F[1 .. N]
  <2>1. N - N = 0 /\ F[1 .. N] \in Int
    BY <1>1, <1>5
  <2> QED BY <1>5, <1>10, <2>1
<1>12. Total(r, field) = Total(ls, field)
  BY <1>5, <1>7, <1>11
<1> QED BY <1>1, <1>3, <1>4, <1>12 DEF r, N

FlatOK == IsSeq(flat) /\ \A k \in DOMAIN flat : flat[k] \in Ledgers

\* A frame is the ledger of the wrapped sums.
LEMMA FrameIs ==
  ASSUME NEW ls, IsSeq(ls), \A k \in DOMAIN ls : ls[k] \in Flat
  PROVE  sla_accumulate(ls) =
           IF \A k \in DOMAIN ls : ls[k][3] = ls[1][3]
           THEN encode_wire_frame(Wrap(Total(ls, 2)), IF ls = <<>> THEN 0 ELSE ls[1][3])
           ELSE <<>>
<1> DEFINE acc == Accumulated(ls)
           N == Len(ls)
           same == \A k \in DOMAIN ls : ls[k][3] = ls[1][3]
<1>1. /\ acc.delta = Wrap(Total(ls, 2))
      /\ acc.omega = IF ls = <<>> THEN 0 ELSE ls[N][3]
      /\ acc.ok <=> same
  BY AccumulatedIs
<1>2. same => (ls # <<>> => ls[N][3] = ls[1][3])
  <2>1. N \in Nat /\ DOMAIN ls = 1 .. N /\ (ls = <<>> <=> N = 0)
    BY SeqFacts
  <2>2. ls # <<>> => N \in DOMAIN ls
    BY <2>1
  <2> QED BY <2>2
<1>3. sla_accumulate(ls) = IF acc.ok THEN encode_wire_frame(acc.delta, acc.omega) ELSE <<>>
  BY DEF sla_accumulate
<1> HIDE DEF acc, N, same
<1>4. sla_accumulate(ls) = IF same THEN encode_wire_frame(Wrap(Total(ls, 2)), IF ls = <<>> THEN 0 ELSE ls[1][3])
                           ELSE <<>>
  BY <1>1, <1>2, <1>3
<1> QED BY <1>4 DEF same

LEMMA BytesBalance ==
  ASSUME NEW s, NEW d \in Int, NEW o
  PROVE  is_balanced(decode(<<s, d, o>>)) /\ decode(<<s, d, o>>).omega = o
<1>1. decode(<<s, d, o>>) = NewLedger(s, d, o)
  BY DEF decode
<1> DEFINE l == NewLedger(s, d, o)
<1>2. l.delta = d /\ l.iota = Wrap(-d) /\ l.omega = o
  BY DEF NewLedger
<1> HIDE DEF l
<1>3. reconciliation(l) = 0
  BY <1>2, WrapZero DEF reconciliation
<1> QED BY <1>1, <1>2, <1>3 DEF is_balanced, l

\* Frames do not depend on the order of their ledgers.
LEMMA FramesImplied == FlatOK => FramesAreOrderFree
<1> SUFFICES ASSUME FlatOK PROVE FramesAreOrderFree
  OBVIOUS
<1> DEFINE N == Len(flat)
           same == \A k \in DOMAIN flat : flat[k][3] = flat[1][3]
           composed == IF flat = <<>> THEN <<0, 0, 0>> ELSE Composed(Head(flat), Tail(flat))
           back == Reverse(flat)
           total == Total(flat, 2)
<1>1. IsSeq(flat) /\ N \in Nat /\ DOMAIN flat = 1 .. N /\ (flat = <<>> <=> N = 0)
  BY SeqFacts DEF FlatOK
<1>2. \A k \in DOMAIN flat : flat[k] \in Flat /\ flat[k][2] \in Int
  <2>1. \A b \in Flat : b[2] \in Int
    BY DEF Flat
  <2> QED BY <2>1, LedgerBytes DEF FlatOK
<1>3. /\ IsSeq(back) /\ DOMAIN back = 1 .. N /\ Len(back) = N
      /\ \A k \in 1 .. N : back[k] = flat[N - k + 1]
      /\ Total(back, 2) = total
  <2>1. \A k \in DOMAIN flat : flat[k][2] \in Int
    BY <1>2
  <2> QED BY <1>1, <2>1, TotalTurnedRound
<1>4. \A k \in DOMAIN back : back[k] \in Flat
  <2> SUFFICES ASSUME NEW k \in 1 .. N PROVE back[k] \in Flat
    BY <1>3
  <2>1. N - k + 1 \in 1 .. N
    BY <1>1
  <2> HIDE DEF N, back
  <2> QED BY <1>1, <1>2, <1>3, <2>1
<1>5. flat # <<>> => 1 \in 1 .. N /\ back # <<>> /\ N - 1 + 1 = N /\ N \in 1 .. N
  <2>1. back = <<>> <=> Len(back) = 0
    BY <1>3, SeqFacts
  <2> QED BY <1>1, <1>3, <2>1
<1>6. flat = <<>> => back = <<>>
  <2>1. back = <<>> <=> Len(back) = 0
    BY <1>3, SeqFacts
  <2> QED BY <1>1, <1>3, <2>1
<1>7. (\A k \in DOMAIN back : back[k][3] = back[1][3]) <=> same
  <2> HIDE DEF N, back
  <2>1. ASSUME same, NEW k \in 1 .. N PROVE back[k][3] = back[1][3]
    <3>1. N - k + 1 \in 1 .. N /\ N - 1 + 1 \in 1 .. N /\ 1 \in 1 .. N
      BY <1>1
    <3>2. flat[N - k + 1][3] = flat[1][3] /\ flat[N - 1 + 1][3] = flat[1][3]
      BY <1>1, <2>1, <3>1
    <3> QED BY <1>3, <3>1, <3>2
  <2>2. ASSUME \A k \in DOMAIN back : back[k][3] = back[1][3], NEW k \in 1 .. N
        PROVE  flat[k][3] = flat[1][3]
    <3>1. N - k + 1 \in 1 .. N /\ N \in 1 .. N /\ N - (N - k + 1) + 1 = k /\ N - N + 1 = 1
      BY <1>1
    <3>2. back[N - k + 1][3] = back[1][3] /\ back[N][3] = back[1][3]
      BY <1>3, <2>2, <3>1
    <3>3. back[N - k + 1] = flat[k] /\ back[N] = flat[1]
      BY <1>3, <3>1
    <3> QED BY <3>2, <3>3
  <2> QED BY <1>1, <1>3, <2>1, <2>2
<1>8. same => (flat # <<>> => back[1][3] = flat[1][3])
  <2> HIDE DEF N, back
  <2> QED BY <1>1, <1>3, <1>5
<1>9. sla_accumulate(flat) = IF same THEN encode_wire_frame(Wrap(total), IF flat = <<>> THEN 0 ELSE flat[1][3]) ELSE <<>>
  BY <1>1, <1>2, FrameIs
<1>10. sla_accumulate(back) = sla_accumulate(flat)
  <2> DEFINE backSame == \A k \in DOMAIN back : back[k][3] = back[1][3]
  <2>1. sla_accumulate(back) = IF backSame
                               THEN encode_wire_frame(Wrap(Total(back, 2)), IF back = <<>> THEN 0 ELSE back[1][3])
                               ELSE <<>>
    BY <1>3, <1>4, FrameIs
  <2>2. backSame <=> same
    BY <1>7
  <2> HIDE DEF backSame, same, back, total
  <2> QED BY <1>3, <1>5, <1>6, <1>8, <1>9, <2>1, <2>2
<1>11. /\ same => composed[2] = Wrap(total) /\ composed[3] = (IF flat = <<>> THEN 0 ELSE flat[1][3])
                  /\ composed \in Flat
       /\ ~same => composed = <<>>
  <2>1. CASE flat = <<>>
    <3>1. same /\ composed = <<0, 0, 0>>
      BY <1>1, <2>1
    <3>2. total = 0
      <4>1. PICK F : F[1 .. 0] = 0 /\ Total(flat, 2) = F[1 .. N]
        <5>1. \A k \in DOMAIN flat : flat[k][2] \in Int
          BY <1>2
        <5> QED BY <1>1, <5>1, TotalSteps
      <4> QED BY <1>1, <2>1, <4>1
    <3> HIDE DEF same, composed, total
    <3> QED BY <2>1, <3>1, <3>2, WrapZero DEF Flat
  <2>2. CASE flat # <<>>
    <3>1. composed = Composed(Head(flat), Tail(flat))
      BY <2>2
    <3>2. /\ same => Composed(Head(flat), Tail(flat)) \in Flat
                     /\ Composed(Head(flat), Tail(flat))[2] = Wrap(total)
                     /\ Composed(Head(flat), Tail(flat))[3] = flat[1][3]
          /\ ~same => Composed(Head(flat), Tail(flat)) = <<>>
      BY <1>1, <2>2, ComposedIs DEF FlatOK
    <3> HIDE DEF same, composed, total
    <3> QED BY <2>2, <3>1, <3>2
  <2> QED BY <2>1, <2>2
<1>12. composed # <<>> <=> same
  <2>1. \A b \in Flat : b # <<>>
    BY DEF Flat
  <2> HIDE DEF composed, same
  <2> QED BY <1>11, <2>1
<1>13. composed # <<>> => /\ composed[1] \in Int /\ composed[2] \in Int /\ composed[3] \in Int
                          /\ composed = <<composed[1], composed[2], composed[3]>>
  <2> HIDE DEF composed, same
  <2>1. \A b \in Flat : b[1] \in Int /\ b[2] \in Int /\ b[3] \in Int /\ b = <<b[1], b[2], b[3]>>
    BY DEF Flat
  <2> QED BY <1>11, <1>12, <2>1
<1>14. composed # <<>> => sla_is_balanced(composed)
  <2> HIDE DEF composed, same
  <2> QED BY <1>13, BytesBalance DEF sla_is_balanced
<1>15. ASSUME NEW b \in ToSet(flat), composed # <<>>, sla_evolve(composed, b) # <<>>
       PROVE  b[3] = 0 /\ sla_is_balanced(sla_evolve(composed, b))
  <2>1. PICK k \in DOMAIN flat : b = flat[k]
    BY DEF ToSet
  <2>2. b \in Flat
    BY <1>2, <2>1
  <2>3. b[1] \in Int /\ b[2] \in Int /\ b[3] \in Int /\ b = <<b[1], b[2], b[3]>>
    BY <2>2 DEF Flat
  <2> HIDE DEF composed, same
  <2>4. /\ Increments(decode(b))
        /\ sla_evolve(composed, b) = encode(NewLedger(composed[1] + b[1], Wrap(composed[2] + b[2]), composed[3]))
    BY <1>15 DEF sla_evolve
  <2>5. b[3] = 0
    <3>1. decode(b).omega = b[3]
      BY <2>3, BytesBalance
    <3> QED BY <2>4, <3>1 DEF Increments
  <2> DEFINE w == Wrap(composed[2] + b[2])
             u == WrapU(composed[1] + b[1])
  <2>6. sla_evolve(composed, b) = <<u, w, composed[3]>>
    BY <2>4 DEF encode, NewLedger
  <2>7. w \in Int
    <3>1. composed[2] + b[2] \in Int
      BY <1>13, <1>15, <2>3
    <3> QED BY <3>1, WrapExists
  <2>8. sla_is_balanced(<<u, w, composed[3]>>)
    <3> HIDE DEF u, w
    <3>1. is_balanced(decode(<<u, w, composed[3]>>))
      BY <2>7, BytesBalance
    <3> QED BY <3>1 DEF sla_is_balanced
  <2> QED BY <2>5, <2>6, <2>8
<1>16. sla_accumulate(flat) = IF composed = <<>> THEN <<>> ELSE encode_wire_frame(composed[2], composed[3])
  <2> HIDE DEF composed, same, total
  <2> QED BY <1>9, <1>11, <1>12
<1>17. composed = IF flat = <<>> THEN <<0, 0, 0>> ELSE FoldLeft(sla_compose, Head(flat), Tail(flat))
  BY Zenon DEF Composed
<1> HIDE DEF composed, back
<1>18. FramesAreOrderFree <=>
         /\ sla_accumulate(flat) = IF composed = <<>> THEN <<>> ELSE encode_wire_frame(composed[2], composed[3])
         /\ sla_accumulate(Reverse(flat)) = sla_accumulate(flat)
         /\ composed # <<>> => sla_is_balanced(composed)
         /\ \A l \in ToSet(flat) : composed # <<>> /\ sla_evolve(composed, l) # <<>> =>
              l[3] = 0 /\ sla_is_balanced(sla_evolve(composed, l))
  BY <1>17, Zenon DEF FramesAreOrderFree
<1> QED BY <1>10, <1>14, <1>15, <1>16, <1>18, Zenon DEF back

(***************************************************************************)
(* Indexes.                                                                *)
(***************************************************************************)

\* The ledger a page gets for a glyph.
LEMMA PagesLedger ==
  ASSUME NEW g \in Glyph
  PROVE  /\ encode(qra_to_sla(g)) # <<>>
         /\ sla_to_qra(decode(encode(qra_to_sla(g)))) = {g} \cap {Pi}
<1> DEFINE x == vec3_from_glyph(g)[1]
           s == WrapU(g)
           l == decode(<<s, x, K_QLG>>)
<1>1. g = 0 \/ g = 1 \/ g = 2 \/ g = 3 \/ g = 4 \/ g = 5
  BY DEF Glyph
<1>2. x = CASE g = 0 -> 1 [] g = 1 -> -1 [] OTHER -> 0
  BY <1>1, VectorIs
<1>3. encode(qra_to_sla(g)) = <<s, x, K_QLG>>
  BY DEF encode, qra_to_sla, NewLedger
<1> HIDE DEF x
<1>4. x \in Int
  BY <1>2
<1>5. l.delta = x /\ is_balanced(l) /\ l.omega = K_QLG
  <2>1. l.delta = x
    BY DEF decode, NewLedger
  <2> QED BY <1>4, <2>1, BytesBalance
<1> HIDE DEF l
<1>6. sla_to_qra(l) = {h \in Glyph : WrapU(x - 1) = h}
  BY <1>5 DEF sla_to_qra
<1>7. Modulus \in Nat /\ Modulus >= 16
  BY LedgerBounds
<1>8. CASE g = 0
  <2>1. x - 1 = 0 /\ WrapU(0) = 0
    BY <1>2, <1>7, <1>8, WrapUIs
  <2> QED BY <1>3, <1>6, <1>8, <2>1 DEF l, Pi, Glyph
<1>9. CASE g # 0
  <2> DEFINE y == x - 1
  <2>1. y = -1 \/ y = -2
    BY <1>1, <1>2, <1>9
  <2>2. Modulus + y \in Int /\ 0 <= Modulus + y /\ Modulus + y < Modulus /\ Modulus + y >= 14
        /\ y \in Int
    BY <1>7, <2>1
  <2>3. y = Modulus * (-1) + (Modulus + y)
    BY <1>7, <2>2
  <2>4. WrapU(y) = Modulus + y
    BY <2>2, <2>3, ModIs DEF WrapU
  <2>5. WrapU(y) \notin Glyph
    BY <2>2, <2>4 DEF Glyph
  <2>6. sla_to_qra(l) = {}
    BY <1>6, <2>5
  <2>7. {g} \cap {Pi} = {}
    BY <1>9 DEF Pi
  <2> QED BY <1>3, <2>6, <2>7 DEF l
<1> QED BY <1>8, <1>9

LEMMA TensorIs ==
  ASSUME NEW c \in Glyph, NEW p \in Glyph
  PROVE  qra_tensor[6 * c + p] = next_glyph(c, p)
<1>1. c \in 0 .. 5 /\ p \in 0 .. 5
  BY DEF Glyph
<1> DEFINE k == 6 * c + p
<1>2. k \in 0 .. 35 /\ k \div 6 = c /\ k % 6 = p
  BY <1>1
<1> HIDE DEF k
<1>3. qra_tensor[k] = next_glyph(k \div 6, k % 6)
  BY <1>2 DEF qra_tensor
<1> QED BY <1>2, <1>3 DEF k

LEMMA NamesKnown ==
  ASSUME NEW g \in Glyph
  PROVE  glyph_name(g) # "Unknown"
BY DEF glyph_name, Glyph, Pi, Gamma, Delta, Omega, Lambda, Psi

\* Every call of a page refuses the same indices.
LEMMA RefusedTogether ==
  ASSUME NEW i
  PROVE  LET refused == {glyph_name_for(i) = "Unknown", qlg_norm_sq(i) = -1, qlg_point_for_glyph(i) = <<>>, reconcile_glyph(i) = {},
                         sla_ledger_for_glyph(i) = <<>>, qra_next(i, Pi) = 255, qra_next(Pi, i) = 255}
         IN refused = {i \notin Glyph}
<1>1. CASE i \in Glyph
  <2>1. (glyph_name_for(i) = "Unknown") = FALSE
    <3>1. glyph_name_for(i) = glyph_name(i)
      BY <1>1 DEF glyph_name_for, OrNothing
    <3> QED BY <1>1, <3>1, NamesKnown
  <2>2. (qlg_norm_sq(i) = -1) = FALSE
    <3>1. qlg_norm_sq(i) = norm_sq(vec3_from_glyph(i))
      BY <1>1 DEF qlg_norm_sq, OrNothing
    <3>2. qlg_norm_sq(i) = 1
      BY <1>1, <3>1, PointFacts DEF K_QLG
    <3> QED BY <3>2
  <2>3. (qlg_point_for_glyph(i) = <<>>) = FALSE
    <3>1. qlg_point_for_glyph(i) = vec3_from_glyph(i)
      BY <1>1 DEF qlg_point_for_glyph, OrNothing
    <3>2. vec3_from_glyph(i) # <<>>
      <4>1. i = 0 \/ i = 1 \/ i = 2 \/ i = 3 \/ i = 4 \/ i = 5
        BY <1>1 DEF Glyph
      <4>2. \A a, b, c : <<a, b, c>> # <<>>
        OBVIOUS
      <4> QED BY <4>1, <4>2, VectorIs
    <3> QED BY <3>1, <3>2
  <2>4. (reconcile_glyph(i) = {}) = FALSE
    <3>1. reconcile_glyph(i) = reconcile(i)
      BY <1>1 DEF reconcile_glyph, OrNothing
    <3> QED BY <1>1, <3>1, GlyphsReconcile
  <2>5. (sla_ledger_for_glyph(i) = <<>>) = FALSE
    <3>1. sla_ledger_for_glyph(i) = encode(qra_to_sla(i))
      BY <1>1 DEF sla_ledger_for_glyph, OrNothing
    <3> QED BY <1>1, <3>1, PagesLedger
  <2>6. (qra_next(i, Pi) = 255) = FALSE /\ (qra_next(Pi, i) = 255) = FALSE
    <3>1. Pi \in Glyph
      BY DEF Pi, Glyph
    <3>2. qra_next(i, Pi) = next_glyph(i, Pi) /\ qra_next(Pi, i) = next_glyph(Pi, i)
      BY <1>1, <3>1 DEF qra_next
    <3>3. next_glyph(i, Pi) \in Glyph /\ next_glyph(Pi, i) \in Glyph
      BY <1>1, <3>1, RustRows
    <3> QED BY <3>2, <3>3 DEF Glyph
  <2>7. (i \notin Glyph) = FALSE
    BY <1>1
  <2> QED BY <2>1, <2>2, <2>3, <2>4, <2>5, <2>6, <2>7, Zenon
<1>2. CASE i \notin Glyph
  <2>1. /\ (glyph_name_for(i) = "Unknown") = TRUE /\ (qlg_norm_sq(i) = -1) = TRUE
        /\ (qlg_point_for_glyph(i) = <<>>) = TRUE /\ (reconcile_glyph(i) = {}) = TRUE
        /\ (sla_ledger_for_glyph(i) = <<>>) = TRUE
    BY <1>2 DEF glyph_name_for, qlg_norm_sq, qlg_point_for_glyph, reconcile_glyph, sla_ledger_for_glyph, OrNothing
  <2>2. (qra_next(i, Pi) = 255) = TRUE /\ (qra_next(Pi, i) = 255) = TRUE
    BY <1>2 DEF qra_next
  <2>3. (i \notin Glyph) = TRUE
    BY <1>2
  <2> QED BY <2>1, <2>2, <2>3, Zenon
<1> QED BY <1>1, <1>2

LEMMA IndexesAre == IndexesAreGlyphs
<1>1. ASSUME NEW i \in Glyph
      PROVE  /\ qlg_norm_sq(i) = K_QLG /\ \A p \in Glyph : qra_next(i, p) = qra_tensor[6 * i + p]
             /\ \E c \in reconcile_glyph(i) : c \in reconcile_all_json /\ certificate_is_valid(c)
             /\ sla_to_qra(decode(sla_ledger_for_glyph(i))) = {i} \cap {Pi}
  <2>1. /\ qlg_norm_sq(i) = norm_sq(vec3_from_glyph(i)) /\ reconcile_glyph(i) = reconcile(i)
        /\ sla_ledger_for_glyph(i) = encode(qra_to_sla(i))
    BY DEF qlg_norm_sq, reconcile_glyph, sla_ledger_for_glyph, OrNothing
  <2>2. qlg_norm_sq(i) = K_QLG
    BY <2>1, PointFacts
  <2>3. ASSUME NEW p \in Glyph PROVE qra_next(i, p) = qra_tensor[6 * i + p]
    <3>1. qra_next(i, p) = next_glyph(i, p)
      BY DEF qra_next
    <3> QED BY <3>1, TensorIs
  <2>4. \E c \in reconcile_glyph(i) : c \in reconcile_all_json /\ certificate_is_valid(c)
    <3>1. PICK c \in reconcile(i) : certificate_is_valid(c)
      BY GlyphsReconcile
    <3>2. c \in reconcile_all_json
      BY <3>1 DEF reconcile_all_json
    <3> QED BY <2>1, <3>1, <3>2
  <2>5. sla_to_qra(decode(sla_ledger_for_glyph(i))) = {i} \cap {Pi}
    BY <2>1, PagesLedger
  <2> QED BY <2>2, <2>3, <2>4, <2>5
<1> QED BY <1>1, RefusedTogether, Zenon DEF IndexesAreGlyphs

\* What the page is told of exhaustion holds.
LEMMA ExhaustionValid == qra_validate_exhaustion
<1>1. Pi \in Glyph /\ Gamma \in Glyph /\ Delta \in Glyph /\ Omega \in Glyph
  BY DEF Glyph, Pi, Gamma, Delta, Omega
<1>2. ASSUME NEW a \in Glyph, NEW b \in Glyph, NEW c \in Glyph
      PROVE  qra_evolve_witness(<<a, b, c>>) = <<next_glyph(a, b), next_glyph(b, c), next_glyph(c, a)>>
  <2> DEFINE w == <<a, b, c>>
  <2>1. w[1] = a /\ w[2] = b /\ w[3] = c /\ ToSet(w) \subseteq Glyph
    BY DEF ToSet
  <2> HIDE DEF w
  <2>2. qra_evolve_witness(w) = <<next_glyph(a, b), next_glyph(b, c), next_glyph(c, a)>>
    BY <2>1 DEF qra_evolve_witness
  <2> QED BY <2>2 DEF w
<1>3. next_glyph(Pi, Gamma) = Delta /\ next_glyph(Gamma, Delta) = Omega /\ next_glyph(Delta, Pi) = Omega
  BY <1>1, RustTable DEF Glyph, Pi, Gamma, Delta, Omega
<1>4. next_glyph(Delta, Omega) = Omega /\ next_glyph(Omega, Omega) = Omega /\ next_glyph(Omega, Delta) = Omega
  BY <1>1, RustTable DEF Glyph, Pi, Gamma, Delta, Omega
<1>5. qra_evolve_witness(<<Pi, Gamma, Delta>>) = <<Delta, Omega, Omega>>
  BY <1>1, <1>2, <1>3
<1>6. qra_evolve_witness(<<Delta, Omega, Omega>>) = <<Omega, Omega, Omega>>
  BY <1>1, <1>2, <1>4
<1> QED BY <1>5, <1>6 DEF qra_validate_exhaustion

(***************************************************************************)
(* The invariant: after three hops at the latest a message is with the     *)
(* absorber, and what a page has collected are ledgers.                    *)
(***************************************************************************)
HopOK ==
  \/ hop = [n |-> 0]
  \/ \E k \in Nat \ {0}, g \in Glyph :
       /\ hop = [n |-> k, answer |-> Answer(g)]
       /\ k >= 2 => g \in {Delta, Omega}
       /\ k >= 3 => g = Omega
WasmInv == HopOK /\ FlatOK

LEMMA WasmInvInit == WasmInit => WasmInv
<1>1. IsSeq(<<>>) /\ DOMAIN <<>> = {}
  BY DEF IsSeq
<1> QED BY <1>1 DEF WasmInit, WasmInv, HopOK, FlatOK

LEMMA FirstHop ==
  ASSUME WasmInv, hop.n = 0, NEW from \in Agents, NEW prev \in Glyph \cup {255}, Route(from, prev)
  PROVE  WasmInv'
<1>1. from \in Nat /\ prev \in Nat
  BY WasmBounds DEF Glyph
<1> DEFINE g == next_glyph(from % 6, prev % 6)
<1>2. g \in Glyph /\ agent_route(from, prev) = Answer(g)
  BY <1>1, RouteAnswers
<1> HIDE DEF g
<1>3. hop' = [n |-> 1, answer |-> Answer(g)]
  BY <1>2 DEF Route
<1>4. HopOK'
  <2>1. 1 \in Nat \ {0}
    OBVIOUS
  <2> QED BY <1>2, <1>3, <2>1 DEF HopOK
<1> QED BY <1>4 DEF WasmInv, FlatOK, Route

LEMMA NextHop ==
  ASSUME WasmInv, hop.n > 0, Route(hop.answer.next_agent, hop.answer.glyph_next)
  PROVE  WasmInv'
<1>1. hop # [n |-> 0]
  OBVIOUS
<1>2. PICK k \in Nat \ {0}, g \in Glyph :
        /\ hop = [n |-> k, answer |-> Answer(g)]
        /\ k >= 2 => g \in {Delta, Omega}
        /\ k >= 3 => g = Omega
  BY <1>1 DEF WasmInv, HopOK
<1> DEFINE a == Answer(g).next_agent
           h == Onward(g)
<1>3. hop.n = k /\ hop.answer.next_agent = a /\ hop.answer.glyph_next = g
  <2>1. hop.n = k /\ hop.answer = Answer(g)
    BY <1>2
  <2>2. Answer(g).glyph_next = g
    BY DEF Answer
  <2> QED BY <2>1, <2>2
<1>4. a \in Nat /\ g \in Nat /\ h = IF g \in {0, 4} THEN 2 ELSE 3
  BY OnwardIs DEF Glyph
<1>5. h = next_glyph(a % 6, g % 6)
  BY DEF Onward
<1> HIDE DEF a, h
<1>6. h \in Glyph /\ agent_route(a, g) = Answer(h)
  BY <1>4, <1>5, RouteAnswers
<1>7. hop' = [n |-> k + 1, answer |-> Answer(h)]
  BY <1>3, <1>6 DEF Route
<1>8. HopOK'
  <2>1. k + 1 \in Nat \ {0}
    OBVIOUS
  <2>2. k + 1 >= 2 => h \in {Delta, Omega}
    BY <1>4 DEF Delta, Omega
  <2>3. k + 1 >= 3 => h = Omega
    BY <1>2, <1>4 DEF Delta, Omega
  <2> QED BY <1>6, <1>7, <2>1, <2>2, <2>3 DEF HopOK
<1> QED BY <1>8 DEF WasmInv, FlatOK, Route

LEMMA CollectStep ==
  ASSUME WasmInv, NEW bytes \in Ledgers, Collect(bytes)
  PROVE  WasmInv'
<1>1. flat' = Append(flat, bytes) /\ hop' = hop
  BY DEF Collect
<1>2. /\ IsSeq(flat') /\ DOMAIN flat' = 1 .. Len(flat) + 1
      /\ \A k \in 1 .. Len(flat) : flat'[k] = flat[k]
      /\ flat'[Len(flat) + 1] = bytes
  BY <1>1, AppendFacts DEF WasmInv, FlatOK
<1>3. Len(flat) \in Nat /\ DOMAIN flat = 1 .. Len(flat)
  BY SeqFacts DEF WasmInv, FlatOK
<1>4. FlatOK'
  <2>1. \A k \in 1 .. Len(flat) + 1 : k \in 1 .. Len(flat) \/ k = Len(flat) + 1
    BY <1>3
  <2> QED BY <1>2, <1>3, <2>1 DEF WasmInv, FlatOK
<1> QED BY <1>1, <1>4 DEF WasmInv, HopOK

LEMMA WasmInvNext == WasmInv /\ [WasmNext]_wasmVars => WasmInv'
<1> SUFFICES ASSUME WasmInv, [WasmNext]_wasmVars PROVE WasmInv'
  OBVIOUS
<1>1. CASE UNCHANGED wasmVars
  BY <1>1 DEF wasmVars, WasmInv, HopOK, FlatOK
<1>2. CASE hop.n = 0 /\ flat = <<>> /\ \E from \in Agents, prev \in Glyph \cup {255} : Route(from, prev)
  BY <1>2, FirstHop
<1>3. CASE hop.n > 0 /\ Route(hop.answer.next_agent, hop.answer.glyph_next)
  BY <1>3, NextHop
<1>4. CASE hop.n = 0 /\ \E bytes \in Ledgers : Collect(bytes)
  BY <1>4, CollectStep
<1> QED BY <1>1, <1>2, <1>3, <1>4 DEF WasmNext

LEMMA WasmImplied == WasmInv => WasmAgreesWithTheCrates
<1> SUFFICES ASSUME WasmInv PROVE WasmAgreesWithTheCrates
  OBVIOUS
<1>1. AbsorbedForGood
  <2>1. ASSUME hop.n >= 4
        PROVE  hop.answer = [next_agent |-> 0, glyph_next |-> Omega, wire_byte |-> 10, absorbed |-> TRUE]
    <3>1. hop # [n |-> 0]
      BY <2>1
    <3>2. PICK k \in Nat \ {0}, g \in Glyph :
            hop = [n |-> k, answer |-> Answer(g)] /\ (k >= 3 => g = Omega)
      BY <3>1 DEF WasmInv, HopOK
    <3>3. hop.n = k /\ hop.answer = Answer(g)
      BY <3>2
    <3>4. hop.answer = Answer(Omega)
      BY <2>1, <3>2, <3>3
    <3>5. glyph_wire_byte(Omega) = 10
      BY DEF glyph_wire_byte, to_byte, Glyph, Omega, Pi, Gamma, Delta, Lambda, Psi
    <3> QED BY <3>4, <3>5 DEF Answer
  <2> QED BY <2>1 DEF AbsorbedForGood
<1>2. FramesAreOrderFree
  BY FramesImplied DEF WasmInv
<1>3. validate_isomorphism
  BY GlyphsReconcile DEF validate_isomorphism, validate_full_reconciliation
<1> QED BY <1>1, <1>2, <1>3, IndexesAre, ExhaustionValid DEF WasmAgreesWithTheCrates

\* Whatever a page routes and collects, in integers of whatever width:
\* WasmAgreesWithTheCrates always holds.
THEOREM WasmAgrees == WasmSpec => []WasmAgreesWithTheCrates
<1>1. WasmSpec => []WasmInv
  BY WasmInvInit, WasmInvNext, PTL DEF WasmSpec
<1> QED BY <1>1, WasmImplied, PTL

(***************************************************************************)
(* The numeric stages.  A sum over the coordinates of a vector is the last *)
(* of its partial sums, which exist by induction; what follows is linear.  *)
(***************************************************************************)

\* s[n] is the sum of the first n coordinates of f.
PartSums(s, f) ==
  s \in [0 .. Dim2 -> Int] /\ s[0] = 0 /\ \A n \in I : s[n] = s[n - 1] + f[n]

\* A vector of integers has sums, and SumOver is the last of them.
LEMMA SumExists ==
  ASSUME NEW f, \A i \in I : f[i] \in Int
  PROVE  \E s : PartSums(s, f) /\ SumOver(f) = s[Dim2]
<1> DEFINE N == Dim2
           V(s) == s = [n \in 0 .. Dim2 |-> IF n = 0 THEN 0 ELSE s[n - 1] + f[n]]
           u == CHOOSE s : V(s)
           G == [n \in 1 .. N |-> [x \in Int |-> x + f[n]]]
<1>0. N \in Nat /\ I = 1 .. N /\ 0 \in Int
  BY KernelBounds DEF I
<1>1. SumOver(f) = u[Dim2]
  BY DEF SumOver
<1>2. \A i \in 1 .. N : \A x \in Int : G[i][x] = x + f[i] /\ G[i][x] \in Int
  BY <1>0
<1>3. PICK s \in [0 .. N -> Int] : Steps(s, N, 0, G)
  <2> DEFINE D == Int  b == 0
  <2>1. b \in D /\ \A i \in 1 .. N : \A x \in D : G[i][x] \in D
    BY <1>2
  <2> HIDE DEF N, G, D, b
  <2>2. \E s \in [0 .. N -> D] : Steps(s, N, b, G)
    BY <1>0, <2>1, StepsExist
  <2> QED BY <2>2 DEF D, b
<1>4. V(s)
  <2>1. s = [n \in 0 .. N |-> IF n = 0 THEN 0 ELSE G[n][s[n - 1]]]
    BY <1>3 DEF Steps
  <2>2. ASSUME NEW n \in 0 .. N, n # 0 PROVE G[n][s[n - 1]] = s[n - 1] + f[n]
    <3>1. n \in 1 .. N /\ n - 1 \in 0 .. N
      BY <1>0, <2>2
    <3> HIDE DEF G
    <3> QED BY <1>2, <1>3, <3>1
  <2> HIDE DEF G
  <2> QED BY <2>1, <2>2
<1>5. V(u)
  <2> HIDE DEF V
  <2> QED BY <1>4
<1> HIDE DEF u, G
<1>6. \A n \in 0 .. N : u[n] = IF n = 0 THEN 0 ELSE u[n - 1] + f[n]
  BY <1>5
<1>7. u[0] = 0 /\ \A n \in I : u[n] = u[n - 1] + f[n]
  BY <1>0, <1>6
<1>8. \A n \in 0 .. N : u[n] \in Int
  <2> DEFINE S == {n \in 0 .. N : u[n] \in Int}
  <2>1. 0 \in S
    BY <1>0, <1>7
  <2>2. ASSUME NEW n \in 0 .. N - 1, n \in S PROVE n + 1 \in S
    <3>1. n + 1 \in I /\ n + 1 \in 0 .. N /\ (n + 1) - 1 = n
      BY <1>0
    <3>2. u[n + 1] = u[(n + 1) - 1] + f[n + 1]
      BY <1>7, <3>1
    <3> QED BY <2>2, <3>1, <3>2
  <2>3. \A n \in 0 .. N : n \in S
    <3> HIDE DEF S, N
    <3> QED BY <1>0, <2>1, <2>2, UpTo
  <2> QED BY <2>3
<1>9. u = [n \in 0 .. N |-> u[n]]
  BY <1>5
<1>10. u \in [0 .. N -> Int]
  BY <1>8, <1>9
<1>11. PartSums(u, f)
  BY <1>7, <1>10 DEF PartSums
<1> QED BY <1>1, <1>11

\* The sums of a vector are one.
LEMMA SumIs ==
  ASSUME NEW f, \A i \in I : f[i] \in Int, NEW s, PartSums(s, f)
  PROVE  SumOver(f) = s[Dim2]
<1> DEFINE N == Dim2
<1>0. N \in Nat /\ I = 1 .. N
  BY KernelBounds DEF I
<1>1. PICK u : PartSums(u, f) /\ SumOver(f) = u[Dim2]
  BY SumExists
<1> DEFINE S == {n \in 0 .. N : u[n] = s[n]}
<1>2. 0 \in S
  BY <1>0, <1>1 DEF PartSums
<1>3. ASSUME NEW n \in 0 .. N - 1, n \in S PROVE n + 1 \in S
  <2>1. n + 1 \in I /\ n + 1 \in 0 .. N /\ (n + 1) - 1 = n
    BY <1>0
  <2>2. u[n + 1] = u[(n + 1) - 1] + f[n + 1] /\ s[n + 1] = s[(n + 1) - 1] + f[n + 1]
    BY <1>1, <2>1 DEF PartSums
  <2> QED BY <1>3, <2>1, <2>2
<1>4. \A n \in 0 .. N : n \in S
  <2> HIDE DEF S, N
  <2> QED BY <1>0, <1>2, <1>3, UpTo
<1>5. N \in 0 .. N
  BY <1>0
<1> QED BY <1>1, <1>4, <1>5

\* A sum of integers is an integer.
LEMMA SumInt ==
  ASSUME NEW f, \A i \in I : f[i] \in Int
  PROVE  SumOver(f) \in Int
<1>1. PICK u : PartSums(u, f) /\ SumOver(f) = u[Dim2]
  BY SumExists
<1>2. Dim2 \in 0 .. Dim2
  BY KernelBounds
<1> QED BY <1>1, <1>2 DEF PartSums

\* Vectors with the same coordinates have the same sum.
LEMMA SumSame ==
  ASSUME NEW f, NEW g, \A i \in I : f[i] \in Int /\ g[i] = f[i]
  PROVE  SumOver(g) = SumOver(f)
<1>1. PICK s : PartSums(s, f) /\ SumOver(f) = s[Dim2]
  BY SumExists
<1>2. PartSums(s, g)
  BY <1>1 DEF PartSums
<1> QED BY <1>1, <1>2, SumIs

\* A sum of sums is the sum of both.
LEMMA SumAdd ==
  ASSUME NEW f, NEW g, NEW h, \A i \in I : f[i] \in Int /\ g[i] \in Int /\ h[i] = f[i] + g[i]
  PROVE  SumOver(h) = SumOver(f) + SumOver(g)
<1>0. I = 1 .. Dim2 /\ Dim2 \in Nat
  BY KernelBounds DEF I
<1>1. PICK s : PartSums(s, f) /\ SumOver(f) = s[Dim2]
  BY SumExists
<1>2. PICK t : PartSums(t, g) /\ SumOver(g) = t[Dim2]
  BY SumExists
<1> DEFINE u == [n \in 0 .. Dim2 |-> s[n] + t[n]]
<1>3. \A n \in I : n \in 0 .. Dim2 /\ n - 1 \in 0 .. Dim2
  BY <1>0
<1>4. PartSums(u, h)
  <2>1. u \in [0 .. Dim2 -> Int] /\ u[0] = 0
    BY <1>0, <1>1, <1>2 DEF PartSums
  <2>2. ASSUME NEW n \in I PROVE u[n] = u[n - 1] + h[n]
    <3>1. s[n] = s[n - 1] + f[n] /\ t[n] = t[n - 1] + g[n] /\ s[n - 1] \in Int /\ t[n - 1] \in Int
      BY <1>1, <1>2, <1>3 DEF PartSums
    <3>2. u[n] = s[n] + t[n] /\ u[n - 1] = s[n - 1] + t[n - 1]
      BY <1>3
    <3> QED BY <3>1, <3>2
  <2> HIDE DEF u
  <2> QED BY <2>1, <2>2 DEF PartSums
<1>5. SumOver(h) = u[Dim2]
  <2> HIDE DEF u
  <2> QED BY <1>4, SumIs
<1> QED BY <1>0, <1>1, <1>2, <1>5

\* A factor of each term is one of the sum.
LEMMA SumTimes ==
  ASSUME NEW c \in Int, NEW f, NEW h, \A i \in I : f[i] \in Int /\ h[i] = c * f[i]
  PROVE  SumOver(h) = c * SumOver(f)
<1>0. I = 1 .. Dim2 /\ Dim2 \in Nat
  BY KernelBounds DEF I
<1>1. PICK s : PartSums(s, f) /\ SumOver(f) = s[Dim2]
  BY SumExists
<1> DEFINE u == [n \in 0 .. Dim2 |-> c * s[n]]
<1>3. \A n \in I : n \in 0 .. Dim2 /\ n - 1 \in 0 .. Dim2
  BY <1>0
<1>4. PartSums(u, h)
  <2>0. \A n \in 0 .. Dim2 : s[n] \in Int
    BY <1>1 DEF PartSums
  <2>1. u \in [0 .. Dim2 -> Int] /\ u[0] = 0
    <3>1. \A n \in 0 .. Dim2 : c * s[n] \in Int
      BY <2>0
    <3>2. s[0] = 0
      BY <1>1 DEF PartSums
    <3> QED BY <1>0, <3>1, <3>2
  <2>2. ASSUME NEW n \in I PROVE u[n] = u[n - 1] + h[n]
    <3>1. s[n] = s[n - 1] + f[n] /\ s[n - 1] \in Int
      BY <1>1, <1>3 DEF PartSums
    <3>2. u[n] = c * s[n] /\ u[n - 1] = c * s[n - 1]
      BY <1>3
    <3> DEFINE x == s[n - 1]  y == f[n]
    <3>3. x \in Int /\ y \in Int /\ h[n] = c * y /\ s[n] = x + y
      BY <3>1
    <3> HIDE DEF x, y, u
    <3>4. c * (x + y) = c * x + c * y
      BY <3>3
    <3> QED BY <3>2, <3>3, <3>4 DEF x
  <2> HIDE DEF u
  <2> QED BY <2>1, <2>2 DEF PartSums
<1>5. SumOver(h) = u[Dim2]
  <2>1. \A i \in I : h[i] \in Int
    OBVIOUS
  <2> HIDE DEF u
  <2> QED BY <1>4, <2>1, SumIs
<1> QED BY <1>0, <1>1, <1>5

\* A vector of zeros sums to zero.
LEMMA SumZero ==
  ASSUME NEW f, \A i \in I : f[i] = 0
  PROVE  SumOver(f) = 0
<1> DEFINE s == [n \in 0 .. Dim2 |-> 0]
<1>0. I = 1 .. Dim2 /\ Dim2 \in Nat
  BY KernelBounds DEF I
<1>1. PartSums(s, f)
  <2>1. \A n \in I : n \in 0 .. Dim2 /\ n - 1 \in 0 .. Dim2
    BY <1>0
  <2> QED BY <1>0, <2>1 DEF PartSums
<1>2. SumOver(f) = s[Dim2]
  <2> HIDE DEF s
  <2> QED BY <1>1, SumIs
<1> QED BY <1>0, <1>2

\* A sum of terms none of which is negative is no less than each of them.
LEMMA SumBounds ==
  ASSUME NEW f, \A i \in I : f[i] \in Nat
  PROVE  SumOver(f) \in Nat /\ \A i \in I : f[i] <= SumOver(f)
<1>0. I = 1 .. Dim2 /\ Dim2 \in Nat
  BY KernelBounds DEF I
<1>1. PICK s : PartSums(s, f) /\ SumOver(f) = s[Dim2]
  BY SumExists
<1>2. \A n \in 0 .. Dim2 : s[n] \in Int
  BY <1>1 DEF PartSums
<1> DEFINE S == {n \in 0 .. Dim2 : s[n] \in Nat /\ \A i \in 1 .. n : f[i] <= s[n]}
<1>3. 0 \in S
  BY <1>0, <1>1 DEF PartSums
<1>4. ASSUME NEW n \in 0 .. Dim2 - 1, n \in S PROVE n + 1 \in S
  <2> DEFINE k == n + 1
  <2>1. k \in I /\ k \in 0 .. Dim2 /\ k - 1 = n /\ n \in Nat
    BY <1>0
  <2>2. s[k] = s[k - 1] + f[k]
    BY <1>1, <2>1 DEF PartSums
  <2>3. s[n] \in Nat /\ \A i \in 1 .. n : f[i] <= s[n]
    BY <1>4
  <2>4. \A i \in 1 .. k : i = k \/ i \in 1 .. n
    BY <2>1
  <2>5. f[k] \in Nat /\ \A i \in 1 .. n : f[i] \in Nat
    BY <1>0, <2>1
  <2> HIDE DEF k, S
  <2>6. s[k] = s[n] + f[k]
    BY <2>1, <2>2
  <2>7. s[k] \in Nat /\ s[n] <= s[k] /\ f[k] <= s[k]
    BY <2>3, <2>5, <2>6
  <2>8. \A i \in 1 .. k : f[i] <= s[k]
    BY <2>3, <2>4, <2>5, <2>7
  <2>9. k \in S
    BY <2>1, <2>7, <2>8 DEF S
  <2> QED BY <2>9 DEF k
<1>5. \A n \in 0 .. Dim2 : n \in S
  <2> HIDE DEF S
  <2> QED BY <1>0, <1>3, <1>4, UpTo
<1>6. Dim2 \in S
  BY <1>0, <1>5
<1> QED BY <1>0, <1>1, <1>6

\* A sum with one term that is not zero is that term.
LEMMA SumOne ==
  ASSUME NEW k \in I, NEW f, f[k] \in Int, \A i \in I : i # k => f[i] = 0
  PROVE  SumOver(f) = f[k]
<1> DEFINE s == [n \in 0 .. Dim2 |-> IF n < k THEN 0 ELSE f[k]]
<1>0. I = 1 .. Dim2 /\ Dim2 \in Nat /\ k \in 1 .. Dim2
  BY KernelBounds DEF I
<1>1. PartSums(s, f)
  <2>1. \A n \in I : n \in 0 .. Dim2 /\ n - 1 \in 0 .. Dim2
    BY <1>0
  <2>2. s \in [0 .. Dim2 -> Int] /\ s[0] = 0
    BY <1>0
  <2>3. ASSUME NEW n \in I PROVE s[n] = s[n - 1] + f[n]
    <3>1. CASE n = k
      BY <1>0, <2>1, <3>1
    <3>2. CASE n # k
      <4>1. n < k <=> n - 1 < k
        BY <1>0, <3>2
      <4>2. f[n] = 0 /\ s[n - 1] \in Int
        BY <2>1, <3>2
      <4>3. s[n] = s[n - 1]
        BY <2>1, <4>1
      <4> HIDE DEF s
      <4> QED BY <4>2, <4>3
    <3> QED BY <3>1, <3>2
  <2> HIDE DEF s
  <2> QED BY <2>2, <2>3 DEF PartSums
<1>2. SumOver(f) = s[Dim2]
  <2>1. \A i \in I : f[i] \in Int
    OBVIOUS
  <2> HIDE DEF s
  <2> QED BY <1>1, <2>1, SumIs
<1>3. s[Dim2] = f[k]
  BY <1>0
<1> QED BY <1>2, <1>3

\* The sum of as many ones as there are coordinates.
LEMMA SumOnes ==
  ASSUME NEW f, \A i \in I : f[i] = 1
  PROVE  SumOver(f) = Dim2
<1> DEFINE s == [n \in 0 .. Dim2 |-> n]
<1>0. I = 1 .. Dim2 /\ Dim2 \in Nat
  BY KernelBounds DEF I
<1>1. PartSums(s, f)
  <2>1. \A n \in I : n \in 0 .. Dim2 /\ n - 1 \in 0 .. Dim2 /\ n \in Int /\ n = n - 1 + 1
    BY <1>0
  <2>2. s \in [0 .. Dim2 -> Int] /\ s[0] = 0
    BY <1>0
  <2>3. \A n \in I : s[n] = s[n - 1] + f[n]
    BY <2>1
  <2> HIDE DEF s
  <2> QED BY <2>2, <2>3 DEF PartSums
<1>2. SumOver(f) = s[Dim2]
  <2> HIDE DEF s
  <2> QED BY <1>1, SumIs
<1> QED BY <1>0, <1>2

\* The columns of p are the rows of q; s holds the sums of the rows of p.
Crosses(p, q) == \A i, k \in I : p[i][k] \in Int /\ q[k][i] = p[i][k]
RowSums(s, p) == \A k \in I : s[k] = SumOver(p[k])

\* Rows and columns of a matrix have the same sum in all.
LEMMA SumSwap ==
  ASSUME NEW a, NEW b, Crosses(a, b), NEW r, RowSums(r, a), NEW c, RowSums(c, b)
  PROVE  SumOver(r) = SumOver(c)
<1> USE DEF Crosses, RowSums
<1> DEFINE q == [i \in I |-> CHOOSE s : PartSums(s, a[i]) /\ SumOver(a[i]) = s[Dim2]]
<1>0. I = 1 .. Dim2 /\ Dim2 \in Nat
  BY KernelBounds DEF I
<1>1. \A i \in I : PartSums(q[i], a[i]) /\ SumOver(a[i]) = q[i][Dim2]
  <2> SUFFICES ASSUME NEW i \in I PROVE PartSums(q[i], a[i]) /\ SumOver(a[i]) = q[i][Dim2]
    OBVIOUS
  <2>1. \E s : PartSums(s, a[i]) /\ SumOver(a[i]) = s[Dim2]
    <3> DEFINE f == a[i]
    <3>1. \A j \in I : f[j] \in Int
      OBVIOUS
    <3> HIDE DEF f
    <3>2. \E s : PartSums(s, f) /\ SumOver(f) = s[Dim2]
      BY <3>1, SumExists
    <3> QED BY <3>2 DEF f
  <2> QED BY <2>1
<1> HIDE DEF q
<1>2. \A j \in I : SumOver(b[j]) \in Int
  <2> SUFFICES ASSUME NEW j \in I PROVE SumOver(b[j]) \in Int
    OBVIOUS
  <2> DEFINE f == b[j]
  <2>1. \A i \in I : f[i] \in Int
    OBVIOUS
  <2> HIDE DEF f
  <2>2. SumOver(f) \in Int
    BY <2>1, SumInt
  <2> QED BY <2>2 DEF f
<1>3. PICK t : PartSums(t, c) /\ SumOver(c) = t[Dim2]
  BY <1>2, SumExists
<1> DEFINE Col(n) == [i \in I |-> q[i][n]]
           S == {n \in 0 .. Dim2 : SumOver(Col(n)) = t[n]}
<1>4. \A n \in 0 .. Dim2 : \A i \in I : Col(n)[i] = q[i][n] /\ q[i][n] \in Int
  BY <1>1 DEF PartSums
<1>5. 0 \in S
  <2>1. \A i \in I : Col(0)[i] = 0
    BY <1>1 DEF PartSums
  <2> DEFINE f == Col(0)
  <2>2. \A i \in I : f[i] = 0
    BY <2>1
  <2> HIDE DEF f
  <2>3. SumOver(f) = 0
    BY <2>2, SumZero
  <2>4. t[0] = 0 /\ 0 \in 0 .. Dim2
    BY <1>0, <1>3 DEF PartSums
  <2> QED BY <2>3, <2>4 DEF f
<1>6. ASSUME NEW n \in 0 .. Dim2 - 1, n \in S PROVE n + 1 \in S
  <2> DEFINE k == n + 1
  <2>1. k \in I /\ k \in 0 .. Dim2 /\ k - 1 = n /\ n \in 0 .. Dim2
    BY <1>0
  <2> HIDE DEF k
  <2> DEFINE f == Col(n)  g == b[k]  h == Col(k)
  <2>2. ASSUME NEW i \in I PROVE f[i] \in Int /\ g[i] \in Int /\ h[i] = f[i] + g[i]
    <3>1. q[i][k] = q[i][k - 1] + a[i][k]
      BY <1>1, <2>1 DEF PartSums
    <3>2. g[i] = a[i][k] /\ a[i][k] \in Int
      BY <2>1
    <3> QED BY <1>4, <2>1, <3>1, <3>2
  <2>3. SumOver(h) = SumOver(f) + SumOver(g)
    <3> HIDE DEF f, g, h
    <3> QED BY <2>2, SumAdd
  <2>4. t[k] = t[k - 1] + c[k] /\ c[k] = SumOver(g)
    BY <1>3, <2>1 DEF PartSums
  <2>5. SumOver(f) = t[n]
    BY <1>6
  <2> HIDE DEF f, g
  <2>6. SumOver(h) = t[k]
    BY <2>1, <2>3, <2>4, <2>5
  <2> QED BY <2>1, <2>6 DEF k
<1>7. \A n \in 0 .. Dim2 : n \in S
  <2> HIDE DEF S
  <2> QED BY <1>0, <1>5, <1>6, UpTo
<1>8. SumOver(Col(Dim2)) = t[Dim2]
  BY <1>0, <1>7
<1> DEFINE l == Col(Dim2)
<1>9. \A i \in I : l[i] \in Int /\ r[i] = l[i]
  BY <1>0, <1>1, <1>4
<1>10. SumOver(r) = SumOver(l)
  <2> HIDE DEF l
  <2> QED BY <1>9, SumSame
<1> QED BY <1>3, <1>8, <1>10

(***************************************************************************)
(* Matrices of integers: products associate and distribute, the transpose  *)
(* turns them round, and a trace does not see their order.                 *)
(***************************************************************************)

\* Matrices of integers, the identity, and sums of matrices.
Mats == [I -> [I -> Int]]
Id == [i \in I |-> [j \in I |-> IF i = j THEN 1 ELSE 0]]
MatAdd(a, b) == [i \in I |-> [j \in I |-> a[i][j] + b[i][j]]]

\* Matrices with the same entries are the same.
LEMMA SameMats ==
  ASSUME NEW a \in Mats, NEW b \in Mats, \A i, j \in I : a[i][j] = b[i][j]
  PROVE  a = b
<1>1. ASSUME NEW i \in I PROVE a[i] = b[i]
  <2>1. a[i] \in [I -> Int] /\ b[i] \in [I -> Int] /\ \A j \in I : a[i][j] = b[i][j]
    BY DEF Mats
  <2> QED BY <2>1
<1>2. a \in [I -> [I -> Int]] /\ b \in [I -> [I -> Int]]
  BY DEF Mats
<1> QED BY <1>1, <1>2

\* The entries are integers.
LEMMA MatEntries ==
  ASSUME NEW a \in Mats
  PROVE  \A i, j \in I : a[i][j] \in Int
BY DEF Mats

\* So is a product of integers.
LEMMA ProductOf ==
  ASSUME NEW x \in Int, NEW y \in Int
  PROVE  x * y \in Int
OBVIOUS

\* What a product of matrices is.
LEMMA MultIs ==
  ASSUME NEW a \in Mats, NEW b \in Mats
  PROVE  /\ matrix_mult(a, b) \in Mats
         /\ \A i, j \in I : matrix_mult(a, b)[i][j] = SumOver([k \in I |-> a[i][k] * b[k][j]])
<1>1. ASSUME NEW i \in I, NEW j \in I PROVE SumOver([k \in I |-> a[i][k] * b[k][j]]) \in Int
  <2> DEFINE f == [k \in I |-> a[i][k] * b[k][j]]
  <2>1. \A k \in I : f[k] \in Int
    <3> SUFFICES ASSUME NEW k \in I PROVE f[k] \in Int
      OBVIOUS
    <3>1. a[i][k] \in Int /\ b[k][j] \in Int
      BY MatEntries
    <3> QED BY <3>1
  <2> HIDE DEF f
  <2>2. SumOver(f) \in Int
    BY <2>1, SumInt
  <2> QED BY <2>2 DEF f
<1> QED BY <1>1 DEF matrix_mult, Mats

\* What a transpose is.
LEMMA TransposeIs ==
  ASSUME NEW a \in Mats
  PROVE  transpose(a) \in Mats /\ \A i, j \in I : transpose(a)[i][j] = a[j][i]
BY DEF transpose, Mats

\* What the identity is.
LEMMA IdIs == Id \in Mats /\ \A i, j \in I : Id[i][j] = IF i = j THEN 1 ELSE 0
BY DEF Id, Mats

\* What a sum of matrices is.
LEMMA AddIs ==
  ASSUME NEW a \in Mats, NEW b \in Mats
  PROVE  MatAdd(a, b) \in Mats /\ \A i, j \in I : MatAdd(a, b)[i][j] = a[i][j] + b[i][j]
BY DEF MatAdd, Mats

\* The product of matrices associates: both ways it sums the same terms.
LEMMA MultAssoc ==
  ASSUME NEW a \in Mats, NEW b \in Mats, NEW c \in Mats
  PROVE  matrix_mult(matrix_mult(a, b), c) = matrix_mult(a, matrix_mult(b, c))
<1> DEFINE ab == matrix_mult(a, b)  bc == matrix_mult(b, c)
           x == matrix_mult(ab, c)  y == matrix_mult(a, bc)
<1>1. ab \in Mats /\ bc \in Mats
  BY MultIs
<1>2. x \in Mats /\ y \in Mats
  <2> HIDE DEF ab, bc
  <2> QED BY <1>1, MultIs
<1>3. ASSUME NEW i \in I, NEW j \in I PROVE x[i][j] = y[i][j]
  \* The terms a[i][l] * b[l][k] * c[k][j], by k and by l.
  <2> DEFINE p == [k \in I |-> [l \in I |-> c[k][j] * (a[i][l] * b[l][k])]]
             q == [l \in I |-> [k \in I |-> a[i][l] * (b[l][k] * c[k][j])]]
             r == [k \in I |-> SumOver(p[k])]
             s == [l \in I |-> SumOver(q[l])]
             f == [k \in I |-> ab[i][k] * c[k][j]]
             g == [l \in I |-> a[i][l] * bc[l][j]]
  <2>1. \A m, n \in I : a[m][n] \in Int /\ b[m][n] \in Int /\ c[m][n] \in Int
    BY MatEntries
  <2>2. ASSUME NEW k \in I, NEW l \in I PROVE p[k][l] \in Int /\ q[l][k] = p[k][l]
    <3> DEFINE u == a[i][l]  v == b[l][k]  w == c[k][j]
    <3>1. u \in Int /\ v \in Int /\ w \in Int
      BY <2>1
    <3>2. p[k][l] = w * (u * v) /\ q[l][k] = u * (v * w)
      OBVIOUS
    <3> HIDE DEF u, v, w, p, q
    <3>3. w * (u * v) = u * (v * w) /\ w * (u * v) \in Int
      BY <3>1
    <3> QED BY <3>2, <3>3
  <2>3. SumOver(r) = SumOver(s)
    <3>1. RowSums(r, p) /\ RowSums(s, q)
      BY DEF RowSums
    <3>2. Crosses(p, q)
      BY <2>2 DEF Crosses
    <3> HIDE DEF p, q, r, s
    <3> QED BY <3>1, <3>2, SumSwap
  <2>4. ASSUME NEW k \in I PROVE r[k] \in Int /\ f[k] = r[k]
    <3> DEFINE w == c[k][j]  t == [l \in I |-> a[i][l] * b[l][k]]  z == p[k]
    <3>1. w \in Int /\ \A l \in I : t[l] \in Int
      BY <2>1, ProductOf
    <3>2. \A l \in I : z[l] = w * t[l]
      OBVIOUS
    <3>3. ab[i][k] = SumOver(t)
      BY MultIs
    <3>4. SumOver(t) \in Int
      <4> HIDE DEF t
      <4> QED BY <3>1, SumInt
    <3>5. SumOver(z) = w * SumOver(t)
      <4> HIDE DEF w, t, z
      <4> QED BY <3>1, <3>2, SumTimes
    <3>6. r[k] = SumOver(z) /\ f[k] = ab[i][k] * w
      OBVIOUS
    <3> DEFINE e == SumOver(t)
    <3> HIDE DEF w, t, z, ab, r, f, e
    <3>7. e \in Int /\ r[k] = w * e /\ f[k] = e * w
      BY <3>3, <3>4, <3>5, <3>6 DEF e
    <3> QED BY <3>1, <3>7
  <2>5. ASSUME NEW l \in I PROVE s[l] \in Int /\ g[l] = s[l]
    <3> DEFINE w == a[i][l]  t == [k \in I |-> b[l][k] * c[k][j]]  z == q[l]
    <3>1. w \in Int /\ \A k \in I : t[k] \in Int
      BY <2>1, ProductOf
    <3>2. \A k \in I : z[k] = w * t[k]
      OBVIOUS
    <3>3. bc[l][j] = SumOver(t)
      BY MultIs
    <3>4. SumOver(t) \in Int
      <4> HIDE DEF t
      <4> QED BY <3>1, SumInt
    <3>5. SumOver(z) = w * SumOver(t)
      <4> HIDE DEF w, t, z
      <4> QED BY <3>1, <3>2, SumTimes
    <3>6. s[l] = SumOver(z) /\ g[l] = w * bc[l][j]
      OBVIOUS
    <3> DEFINE e == SumOver(t)
    <3> HIDE DEF w, t, z, bc, s, g, e
    <3>7. e \in Int /\ s[l] = w * e /\ g[l] = w * e
      BY <3>3, <3>4, <3>5, <3>6 DEF e
    <3> QED BY <3>1, <3>7
  <2>6. x[i][j] = SumOver(f) /\ y[i][j] = SumOver(g)
    <3> HIDE DEF ab, bc
    <3> QED BY <1>1, MultIs
  <2>7. SumOver(f) = SumOver(r)
    <3> HIDE DEF f, r
    <3> QED BY <2>4, SumSame
  <2>8. SumOver(g) = SumOver(s)
    <3> HIDE DEF g, s
    <3> QED BY <2>5, SumSame
  <2> QED BY <2>3, <2>6, <2>7, <2>8
<1> QED
  <2> HIDE DEF x, y
  <2>1. x = y
    BY <1>2, <1>3, SameMats
  <2> QED BY <2>1 DEF x, y

\* The identity is one on both sides.
LEMMA MultId ==
  ASSUME NEW a \in Mats
  PROVE  matrix_mult(a, Id) = a /\ matrix_mult(Id, a) = a
<1> DEFINE x == matrix_mult(a, Id)  y == matrix_mult(Id, a)
<1>1. x \in Mats /\ y \in Mats
  BY IdIs, MultIs
<1>2. ASSUME NEW i \in I, NEW j \in I PROVE x[i][j] = a[i][j] /\ y[i][j] = a[i][j]
  <2> DEFINE f == [k \in I |-> a[i][k] * Id[k][j]]  g == [k \in I |-> Id[i][k] * a[k][j]]
  <2>1. x[i][j] = SumOver(f) /\ y[i][j] = SumOver(g)
    BY IdIs, MultIs
  <2>2. \A k, l \in I : a[k][l] \in Int /\ a[k][l] * 1 = a[k][l] /\ 1 * a[k][l] = a[k][l]
                        /\ a[k][l] * 0 = 0 /\ 0 * a[k][l] = 0
    BY MatEntries
  <2>3. f[j] = a[i][j] /\ f[j] \in Int /\ \A k \in I : k # j => f[k] = 0
    BY <2>2, IdIs
  <2>4. g[i] = a[i][j] /\ g[i] \in Int /\ \A k \in I : k # i => g[k] = 0
    BY <2>2, IdIs
  <2> HIDE DEF f, g
  <2>5. SumOver(f) = f[j] /\ SumOver(g) = g[i]
    BY <2>3, <2>4, SumOne
  <2> QED BY <2>1, <2>3, <2>4, <2>5
<1> HIDE DEF x, y
<1>3. x = a /\ y = a
  BY <1>1, <1>2, SameMats
<1> QED BY <1>3 DEF x, y

\* The transpose turns a product round.
LEMMA TransMult ==
  ASSUME NEW a \in Mats, NEW b \in Mats
  PROVE  transpose(matrix_mult(a, b)) = matrix_mult(transpose(b), transpose(a))
<1> DEFINE ab == matrix_mult(a, b)  at == transpose(a)  bt == transpose(b)
           x == transpose(ab)  y == matrix_mult(bt, at)
<1>0. ab \in Mats /\ at \in Mats /\ bt \in Mats
  BY MultIs, TransposeIs
<1>1. x \in Mats /\ y \in Mats
  <2> HIDE DEF ab, at, bt
  <2> QED BY <1>0, MultIs, TransposeIs
<1>2. ASSUME NEW i \in I, NEW j \in I PROVE x[i][j] = y[i][j]
  <2> DEFINE f == [k \in I |-> a[j][k] * b[k][i]]  g == [k \in I |-> bt[i][k] * at[k][j]]
  <2>1. x[i][j] = ab[j][i]
    <3> HIDE DEF ab
    <3> QED BY <1>0, TransposeIs
  <2>2. ab[j][i] = SumOver(f)
    BY MultIs
  <2>3. y[i][j] = SumOver(g)
    <3> HIDE DEF at, bt
    <3> QED BY <1>0, MultIs
  <2>4. ASSUME NEW k \in I PROVE f[k] \in Int /\ g[k] = f[k]
    <3> DEFINE u == a[j][k]  v == b[k][i]
    <3>1. u \in Int /\ v \in Int
      BY MatEntries
    <3>2. bt[i][k] = v /\ at[k][j] = u
      BY TransposeIs
    <3>3. f[k] = u * v /\ g[k] = v * u
      BY <3>2
    <3> HIDE DEF u, v, f, g
    <3> QED BY <3>1, <3>3
  <2> HIDE DEF f, g, x, y, ab
  <2>5. SumOver(g) = SumOver(f)
    BY <2>4, SumSame
  <2> QED BY <2>1, <2>2, <2>3, <2>5
<1> HIDE DEF x, y
<1>3. x = y
  BY <1>1, <1>2, SameMats
<1> QED BY <1>3 DEF x, y

\* The product distributes on the left.
LEMMA MultAddLeft ==
  ASSUME NEW a \in Mats, NEW b \in Mats, NEW c \in Mats
  PROVE  matrix_mult(MatAdd(a, b), c) = MatAdd(matrix_mult(a, c), matrix_mult(b, c))
<1> DEFINE s == MatAdd(a, b)  ac == matrix_mult(a, c)  bc == matrix_mult(b, c)
           x == matrix_mult(s, c)  y == MatAdd(ac, bc)
<1>0. s \in Mats /\ ac \in Mats /\ bc \in Mats
  BY AddIs, MultIs
<1>1. x \in Mats /\ y \in Mats
  <2> HIDE DEF s, ac, bc
  <2> QED BY <1>0, AddIs, MultIs
<1>2. ASSUME NEW i \in I, NEW j \in I PROVE x[i][j] = y[i][j]
  <2> DEFINE f == [k \in I |-> a[i][k] * c[k][j]]  g == [k \in I |-> b[i][k] * c[k][j]]
             h == [k \in I |-> s[i][k] * c[k][j]]
  <2>1. x[i][j] = SumOver(h)
    <3> HIDE DEF s
    <3> QED BY <1>0, MultIs
  <2>2. ac[i][j] = SumOver(f) /\ bc[i][j] = SumOver(g)
    BY MultIs
  <2>3. y[i][j] = ac[i][j] + bc[i][j]
    <3> HIDE DEF ac, bc
    <3> QED BY <1>0, AddIs
  <2>4. ASSUME NEW k \in I PROVE f[k] \in Int /\ g[k] \in Int /\ h[k] = f[k] + g[k]
    <3> DEFINE u == a[i][k]  v == b[i][k]  w == c[k][j]
    <3>1. u \in Int /\ v \in Int /\ w \in Int
      BY MatEntries
    <3>2. s[i][k] = u + v
      BY AddIs
    <3>3. f[k] = u * w /\ g[k] = v * w /\ h[k] = (u + v) * w
      BY <3>2
    <3> HIDE DEF u, v, w, f, g, h
    <3>4. (u + v) * w = u * w + v * w /\ u * w \in Int /\ v * w \in Int
      BY <3>1
    <3> QED BY <3>3, <3>4
  <2> HIDE DEF f, g, h, x, y, ac, bc
  <2>5. SumOver(h) = SumOver(f) + SumOver(g)
    BY <2>4, SumAdd
  <2> QED BY <2>1, <2>2, <2>3, <2>5
<1> HIDE DEF x, y
<1>3. x = y
  BY <1>1, <1>2, SameMats
<1> QED BY <1>3 DEF x, y

\* The product distributes on the right.
LEMMA MultAddRight ==
  ASSUME NEW a \in Mats, NEW b \in Mats, NEW c \in Mats
  PROVE  matrix_mult(c, MatAdd(a, b)) = MatAdd(matrix_mult(c, a), matrix_mult(c, b))
<1> DEFINE s == MatAdd(a, b)  ca == matrix_mult(c, a)  cb == matrix_mult(c, b)
           x == matrix_mult(c, s)  y == MatAdd(ca, cb)
<1>0. s \in Mats /\ ca \in Mats /\ cb \in Mats
  BY AddIs, MultIs
<1>1. x \in Mats /\ y \in Mats
  <2> HIDE DEF s, ca, cb
  <2> QED BY <1>0, AddIs, MultIs
<1>2. ASSUME NEW i \in I, NEW j \in I PROVE x[i][j] = y[i][j]
  <2> DEFINE f == [k \in I |-> c[i][k] * a[k][j]]  g == [k \in I |-> c[i][k] * b[k][j]]
             h == [k \in I |-> c[i][k] * s[k][j]]
  <2>1. x[i][j] = SumOver(h)
    <3> HIDE DEF s
    <3> QED BY <1>0, MultIs
  <2>2. ca[i][j] = SumOver(f) /\ cb[i][j] = SumOver(g)
    BY MultIs
  <2>3. y[i][j] = ca[i][j] + cb[i][j]
    <3> HIDE DEF ca, cb
    <3> QED BY <1>0, AddIs
  <2>4. ASSUME NEW k \in I PROVE f[k] \in Int /\ g[k] \in Int /\ h[k] = f[k] + g[k]
    <3> DEFINE u == a[k][j]  v == b[k][j]  w == c[i][k]
    <3>1. u \in Int /\ v \in Int /\ w \in Int
      BY MatEntries
    <3>2. s[k][j] = u + v
      BY AddIs
    <3>3. f[k] = w * u /\ g[k] = w * v /\ h[k] = w * (u + v)
      BY <3>2
    <3> HIDE DEF u, v, w, f, g, h
    <3>4. w * (u + v) = w * u + w * v /\ w * u \in Int /\ w * v \in Int
      BY <3>1
    <3> QED BY <3>3, <3>4
  <2> HIDE DEF f, g, h, x, y, ca, cb
  <2>5. SumOver(h) = SumOver(f) + SumOver(g)
    BY <2>4, SumAdd
  <2> QED BY <2>1, <2>2, <2>3, <2>5
<1> HIDE DEF x, y
<1>3. x = y
  BY <1>1, <1>2, SameMats
<1> QED BY <1>3 DEF x, y

\* The trace of a matrix of integers.
Tr(a) == SumOver([i \in I |-> a[i][i]])

\* A trace is an integer.
LEMMA TrInt ==
  ASSUME NEW a \in Mats
  PROVE  Tr(a) \in Int
<1> DEFINE f == [i \in I |-> a[i][i]]
<1>1. \A i \in I : f[i] \in Int
  BY MatEntries
<1> HIDE DEF f
<1>2. SumOver(f) \in Int
  BY <1>1, SumInt
<1> QED BY <1>2 DEF f, Tr

\* The trace of a sum is the sum of the traces.
LEMMA TrAdd ==
  ASSUME NEW a \in Mats, NEW b \in Mats
  PROVE  Tr(MatAdd(a, b)) = Tr(a) + Tr(b)
<1> DEFINE f == [i \in I |-> a[i][i]]  g == [i \in I |-> b[i][i]]  h == [i \in I |-> MatAdd(a, b)[i][i]]
<1>1. \A i \in I : f[i] \in Int /\ g[i] \in Int /\ h[i] = f[i] + g[i]
  BY MatEntries, AddIs
<1> HIDE DEF f, g, h
<1>2. SumOver(h) = SumOver(f) + SumOver(g)
  BY <1>1, SumAdd
<1> QED BY <1>2 DEF f, g, h, Tr

\* The trace does not see the order of a product.
LEMMA TrMult ==
  ASSUME NEW a \in Mats, NEW b \in Mats
  PROVE  Tr(matrix_mult(a, b)) = Tr(matrix_mult(b, a))
<1> DEFINE p == [i \in I |-> [k \in I |-> a[i][k] * b[k][i]]]
           q == [k \in I |-> [i \in I |-> b[k][i] * a[i][k]]]
           r == [i \in I |-> matrix_mult(a, b)[i][i]]  s == [k \in I |-> matrix_mult(b, a)[k][k]]
<1>1. Crosses(p, q)
  <2> SUFFICES ASSUME NEW i \in I, NEW k \in I PROVE p[i][k] \in Int /\ q[k][i] = p[i][k]
    BY DEF Crosses
  <2> DEFINE u == a[i][k]  v == b[k][i]
  <2>1. u \in Int /\ v \in Int /\ p[i][k] = u * v /\ q[k][i] = v * u
    BY MatEntries
  <2> HIDE DEF u, v, p, q
  <2> QED BY <2>1
<1>2. RowSums(r, p) /\ RowSums(s, q)
  BY MultIs DEF RowSums
<1> HIDE DEF p, q, r, s
<1>3. SumOver(r) = SumOver(s)
  BY <1>1, <1>2, SumSwap
<1> QED BY <1>3 DEF r, s, Tr

\* The trace of the identity is the dimension.
LEMMA TrId == Tr(Id) = Dim2
<1> DEFINE f == [i \in I |-> Id[i][i]]
<1>1. \A i \in I : f[i] = 1
  BY IdIs
<1> HIDE DEF f
<1>2. SumOver(f) = Dim2
  BY <1>1, SumOnes
<1> QED BY <1>2 DEF f, Tr

(***************************************************************************)
(* The density loop.  Its matrices hold pairs, of which each half is moved *)
(* by itself; a turn keeps the trace, the symmetry and the mean.           *)
(***************************************************************************)

\* u r u', on whole numbers.
Conj(u, r) == matrix_mult(u, matrix_mult(r, transpose(u)))

\* u r u' is a matrix of integers.
LEMMA ConjIs ==
  ASSUME NEW u \in Mats, NEW r \in Mats
  PROVE  Conj(u, r) \in Mats
<1> DEFINE t == transpose(u)  rt == matrix_mult(r, t)
<1>1. t \in Mats
  BY TransposeIs
<1> HIDE DEF t
<1>2. rt \in Mats
  BY <1>1, MultIs
<1> HIDE DEF rt
<1>3. matrix_mult(u, rt) \in Mats
  BY <1>2, MultIs
<1> QED BY <1>3 DEF rt, t, Conj

\* p holds the terms of the sum in row i and column j.
Weighted(p, u, r, i, j) == \A k, l \in I : p[k][l] = (u[i][k] * u[j][l]) * r[k][l]

\* Its entries are sums over rows and columns at once.
LEMMA ConjSum ==
  ASSUME NEW u \in Mats, NEW r \in Mats, NEW i \in I, NEW j \in I,
         NEW p, Weighted(p, u, r, i, j), NEW s, RowSums(s, p)
  PROVE  SumOver(s) = Conj(u, r)[i][j]
<1>0. /\ \A k, l \in I : p[k][l] = (u[i][k] * u[j][l]) * r[k][l]
      /\ \A k \in I : s[k] = SumOver(p[k])
  BY DEF Weighted, RowSums
<1> DEFINE t == transpose(u)  rt == matrix_mult(r, t)
           f == [k \in I |-> u[i][k] * rt[k][j]]
<1>1. t \in Mats /\ \A l \in I : t[l][j] = u[j][l]
  BY TransposeIs
<1>2. rt \in Mats /\ \A k \in I : rt[k][j] = SumOver([l \in I |-> r[k][l] * t[l][j]])
  <2> HIDE DEF t
  <2> QED BY <1>1, MultIs
<1>3. Conj(u, r)[i][j] = SumOver(f)
  <2>1. Conj(u, r) = matrix_mult(u, rt)
    BY DEF Conj
  <2> HIDE DEF rt, t
  <2> QED BY <1>2, <2>1, MultIs
<1>4. ASSUME NEW k \in I PROVE s[k] \in Int /\ f[k] = s[k]
  <2> DEFINE w == u[i][k]  q == [l \in I |-> r[k][l] * t[l][j]]  z == p[k]
  <2>1. w \in Int
    BY MatEntries
  <2>2. ASSUME NEW l \in I PROVE q[l] \in Int /\ z[l] = w * q[l]
    <3> DEFINE a == u[j][l]  b == r[k][l]
    <3>1. a \in Int /\ b \in Int
      BY MatEntries
    <3>2. q[l] = b * a /\ z[l] = (w * a) * b
      BY <1>0, <1>1
    <3> HIDE DEF a, b, w, q, z
    <3>3. b * a \in Int /\ (w * a) * b = w * (b * a)
      BY <2>1, <3>1
    <3> QED BY <3>2, <3>3
  <2>3. f[k] = w * SumOver(q)
    BY <1>2
  <2>4. s[k] = SumOver(z)
    BY <1>0
  <2> HIDE DEF w, q, z, f
  <2>5. SumOver(q) \in Int
    BY <2>2, SumInt
  <2>6. SumOver(z) = w * SumOver(q)
    BY <2>1, <2>2, SumTimes
  <2>7. w * SumOver(q) \in Int
    BY <2>1, <2>5, ProductOf
  <2> QED BY <2>3, <2>4, <2>6, <2>7
<1> HIDE DEF f
<1>5. SumOver(f) = SumOver(s)
  BY <1>4, SumSame
<1> QED BY <1>3, <1>4, <1>5

\* A matrix of pairs of integers, and the matrices of its first and second numbers.
PairMats == [I -> [I -> Int \X Int]]
Firsts(rho)  == [i \in I |-> [j \in I |-> rho[i][j][1]]]
Seconds(rho) == [i \in I |-> [j \in I |-> rho[i][j][2]]]

\* What the halves of a matrix of pairs are.
LEMMA PartsAre ==
  ASSUME NEW rho \in PairMats
  PROVE  /\ Firsts(rho) \in Mats /\ Seconds(rho) \in Mats
         /\ \A i, j \in I : /\ rho[i][j] = <<Firsts(rho)[i][j], Seconds(rho)[i][j]>>
                            /\ rho[i][j][1] = Firsts(rho)[i][j] /\ rho[i][j][2] = Seconds(rho)[i][j]
                            /\ Firsts(rho)[i][j] \in Int /\ Seconds(rho)[i][j] \in Int
<1>1. \A i, j \in I : rho[i][j] \in Int \X Int
  BY DEF PairMats
<1>2. \A i, j \in I : rho[i][j] = <<rho[i][j][1], rho[i][j][2]>>
                      /\ rho[i][j][1] \in Int /\ rho[i][j][2] \in Int
  BY <1>1
<1> QED BY <1>2 DEF Firsts, Seconds, Mats

\* Matrices of pairs with the same halves are the same.
LEMMA SamePairs ==
  ASSUME NEW a \in PairMats, NEW b \in PairMats,
         Firsts(a) = Firsts(b), Seconds(a) = Seconds(b)
  PROVE  a = b
<1>1. \A i, j \in I : a[i][j] = b[i][j]
  BY PartsAre
<1>2. ASSUME NEW i \in I PROVE a[i] = b[i]
  <2>1. a[i] \in [I -> Int \X Int] /\ b[i] \in [I -> Int \X Int] /\ \A j \in I : a[i][j] = b[i][j]
    BY <1>1 DEF PairMats
  <2> QED BY <2>1
<1>3. a \in [I -> [I -> Int \X Int]] /\ b \in [I -> [I -> Int \X Int]]
  BY DEF PairMats
<1> QED BY <1>2, <1>3

\* Conjugate moves each half by itself.
LEMMA ConjugateIs ==
  ASSUME NEW u \in Mats, NEW rho \in PairMats
  PROVE  /\ Conjugate(u, rho) \in PairMats
         /\ Firsts(Conjugate(u, rho)) = Conj(u, Firsts(rho))
         /\ Seconds(Conjugate(u, rho)) = Conj(u, Seconds(rho))
<1> DEFINE r1 == Firsts(rho)  r2 == Seconds(rho)  c1 == Conj(u, r1)  c2 == Conj(u, r2)
           m == Conjugate(u, rho)
<1>1. r1 \in Mats /\ r2 \in Mats
  BY PartsAre
<1>2. c1 \in Mats /\ c2 \in Mats
  <2> HIDE DEF r1, r2
  <2> QED BY <1>1, ConjIs
<1>3. ASSUME NEW i \in I, NEW j \in I PROVE m[i][j] = <<c1[i][j], c2[i][j]>>
  <2> DEFINE P(k) == [l \in I |-> Scaled(u[i][k] * u[j][l], rho[k][l])]
             S == [k \in I |-> SumPairs(P(k))]
             p1 == [k \in I |-> [l \in I |-> P(k)[l][1]]]  s1 == [k \in I |-> S[k][1]]
             p2 == [k \in I |-> [l \in I |-> P(k)[l][2]]]  s2 == [k \in I |-> S[k][2]]
  <2>1. m[i][j] = SumPairs(S)
    BY DEF Conjugate
  <2>2. Weighted(p1, u, r1, i, j) /\ Weighted(p2, u, r2, i, j)
    BY DEF Scaled, Firsts, Seconds, Weighted
  <2>3. RowSums(s1, p1) /\ RowSums(s2, p2)
    BY DEF SumPairs, RowSums
  <2>4. SumPairs(S) = <<SumOver(s1), SumOver(s2)>>
    BY DEF SumPairs
  <2> HIDE DEF p1, p2, s1, s2, r1, r2, S, P, m
  <2>5. SumOver(s1) = Conj(u, r1)[i][j]
    BY <1>1, <2>2, <2>3, ConjSum
  <2>6. SumOver(s2) = Conj(u, r2)[i][j]
    BY <1>1, <2>2, <2>3, ConjSum
  <2> QED BY <2>1, <2>4, <2>5, <2>6
<1>4. DOMAIN m = I /\ \A i \in I : m[i] = [j \in I |-> m[i][j]]
  BY DEF Conjugate
<1>5. m = [i \in I |-> [j \in I |-> m[i][j]]]
  BY DEF Conjugate
<1> HIDE DEF m, c1, c2
<1>6. \A i, j \in I : c1[i][j] \in Int /\ c2[i][j] \in Int
  BY <1>2, MatEntries
<1>7. m \in PairMats
  <2>1. \A i, j \in I : m[i][j] \in Int \X Int
    <3> SUFFICES ASSUME NEW i \in I, NEW j \in I PROVE m[i][j] \in Int \X Int
      OBVIOUS
    <3>1. m[i][j] = <<c1[i][j], c2[i][j]>>
      BY <1>3
    <3>2. c1[i][j] \in Int /\ c2[i][j] \in Int
      BY <1>6
    <3> QED BY <3>1, <3>2
  <2> QED BY <1>5, <2>1 DEF PairMats
<1>8. Firsts(m) \in Mats /\ Seconds(m) \in Mats
  BY <1>7, PartsAre
<1>9. \A i, j \in I : Firsts(m)[i][j] = c1[i][j] /\ Seconds(m)[i][j] = c2[i][j]
  BY <1>3 DEF Firsts, Seconds
<1>10. Firsts(m) = c1 /\ Seconds(m) = c2
  BY <1>2, <1>8, <1>9, SameMats
<1> QED BY <1>7, <1>10 DEF m, c1, c2

\* What a turn makes of the halves.
LEMMA EvolveIs ==
  ASSUME NEW u \in Mats, NEW rho \in PairMats
  PROVE  /\ density_evolve(rho, u) \in PairMats
         /\ \A i, j \in I :
              /\ Firsts(density_evolve(rho, u))[i][j]
                   = Conj(u, Seconds(rho))[i][j] + Firsts(rho)[i][j] - Seconds(rho)[i][j]
              /\ Seconds(density_evolve(rho, u))[i][j]
                   = Conj(u, Firsts(rho))[i][j] - Conj(u, Seconds(rho))[i][j]
                     + (Seconds(rho)[i][j] - (Firsts(rho)[i][j] - Seconds(rho)[i][j]))
<1> DEFINE m == Conjugate(u, rho)  d == density_evolve(rho, u)
           r1 == Firsts(rho)  r2 == Seconds(rho)  c1 == Conj(u, r1)  c2 == Conj(u, r2)
<1>1. r1 \in Mats /\ r2 \in Mats /\ \A i, j \in I : rho[i][j] = <<r1[i][j], r2[i][j]>>
  BY PartsAre
<1>2. m \in PairMats /\ Firsts(m) = c1 /\ Seconds(m) = c2
  BY ConjugateIs
<1>3. d = [i \in I |-> [j \in I |-> Plus(TimesG(m[i][j]), TimesG(TimesG(rho[i][j])))]]
  BY DEF density_evolve
<1> HIDE DEF m, d, r1, r2, c1, c2
<1>4. \A i, j \in I : m[i][j] = <<c1[i][j], c2[i][j]>> /\ c1[i][j] \in Int /\ c2[i][j] \in Int
  BY <1>2, PartsAre
<1>5. \A i, j \in I : r1[i][j] \in Int /\ r2[i][j] \in Int
  BY <1>1, MatEntries
<1>6. ASSUME NEW i \in I, NEW j \in I
      PROVE  /\ d[i][j] \in Int \X Int
             /\ d[i][j][1] = c2[i][j] + r1[i][j] - r2[i][j]
             /\ d[i][j][2] = c1[i][j] - c2[i][j] + (r2[i][j] - (r1[i][j] - r2[i][j]))
  <2> DEFINE a == c1[i][j]  b == c2[i][j]  x == r1[i][j]  y == r2[i][j]
  <2>1. d[i][j] = Plus(TimesG(<<a, b>>), TimesG(TimesG(<<x, y>>)))
    BY <1>1, <1>3, <1>4
  <2>2. a \in Int /\ b \in Int /\ x \in Int /\ y \in Int
    BY <1>4, <1>5
  <2> HIDE DEF a, b, x, y
  <2>3. d[i][j] = <<b + (x - y), a - b + (y - (x - y))>>
    BY <2>1 DEF Plus, TimesG
  <2>4. b + (x - y) \in Int /\ a - b + (y - (x - y)) \in Int /\ b + (x - y) = b + x - y
    BY <2>2
  <2>5. d[i][j] \in Int \X Int /\ d[i][j][1] = b + x - y /\ d[i][j][2] = a - b + (y - (x - y))
    BY <2>3, <2>4
  <2> QED BY <2>5 DEF a, b, x, y
<1>7. d \in PairMats
  BY <1>3, <1>6 DEF PairMats
<1>8. \A i, j \in I : Firsts(d)[i][j] = d[i][j][1] /\ Seconds(d)[i][j] = d[i][j][2]
  BY DEF Firsts, Seconds
<1>9. /\ d \in PairMats
      /\ \A i, j \in I :
           /\ Firsts(d)[i][j] = c2[i][j] + r1[i][j] - r2[i][j]
           /\ Seconds(d)[i][j] = c1[i][j] - c2[i][j] + (r2[i][j] - (r1[i][j] - r2[i][j]))
  BY <1>6, <1>7, <1>8
<1> QED BY <1>9 DEF d, c1, c2, r1, r2

\* Transposed twice, a matrix is itself.
LEMMA TransTwice ==
  ASSUME NEW a \in Mats
  PROVE  transpose(transpose(a)) = a
<1> DEFINE t == transpose(a)  x == transpose(t)
<1>1. t \in Mats /\ \A i, j \in I : t[i][j] = a[j][i]
  BY TransposeIs
<1> HIDE DEF t
<1>2. x \in Mats /\ \A i, j \in I : x[i][j] = t[j][i]
  BY <1>1, TransposeIs
<1> HIDE DEF x
<1>3. \A i, j \in I : x[i][j] = a[i][j]
  BY <1>1, <1>2
<1>4. x = a
  BY <1>2, <1>3, SameMats
<1> QED BY <1>4 DEF x, t

\* The identity is symmetric.
LEMMA TransId == transpose(Id) = Id
<1> DEFINE x == transpose(Id)
<1>1. x \in Mats /\ \A i, j \in I : x[i][j] = Id[j][i]
  BY IdIs, TransposeIs
<1> HIDE DEF x
<1>2. \A i, j \in I : x[i][j] = Id[i][j]
  BY <1>1, IdIs
<1>3. x = Id
  BY <1>1, <1>2, IdIs, SameMats
<1> QED BY <1>3 DEF x

\* Conjugation is linear, inverse to itself under a reflection, and keeps symmetry.
LEMMA ConjAdd ==
  ASSUME NEW u \in Mats, NEW a \in Mats, NEW b \in Mats
  PROVE  Conj(u, MatAdd(a, b)) = MatAdd(Conj(u, a), Conj(u, b))
<1> DEFINE t == transpose(u)  at == matrix_mult(a, t)  bt == matrix_mult(b, t)
<1>1. t \in Mats
  BY TransposeIs
<1> HIDE DEF t
<1>2. at \in Mats /\ bt \in Mats /\ matrix_mult(MatAdd(a, b), t) = MatAdd(at, bt)
  BY <1>1, MultIs, MultAddLeft
<1> HIDE DEF at, bt
<1>3. matrix_mult(u, MatAdd(at, bt)) = MatAdd(matrix_mult(u, at), matrix_mult(u, bt))
  BY <1>2, MultAddRight
<1>4. matrix_mult(u, matrix_mult(MatAdd(a, b), t)) = MatAdd(matrix_mult(u, at), matrix_mult(u, bt))
  BY <1>2, <1>3
<1> QED BY <1>4 DEF t, at, bt, Conj

\* Moved twice by a reflection, a matrix is itself.
LEMMA ConjTwice ==
  ASSUME NEW u \in Mats, NEW r \in Mats, matrix_mult(u, u) = Id
  PROVE  Conj(u, Conj(u, r)) = r
<1> DEFINE t == transpose(u)  rt == matrix_mult(r, t)  c == matrix_mult(u, rt)
           ct == matrix_mult(c, t)  tt == matrix_mult(t, t)  rtt == matrix_mult(rt, t)
<1>1. t \in Mats
  BY TransposeIs
<1>2. tt = Id
  <2>1. transpose(matrix_mult(u, u)) = tt
    BY TransMult
  <2> QED BY <2>1, TransId
<1>3. c = Conj(u, r)
  BY DEF Conj
<1>4. Conj(u, c) = matrix_mult(u, ct)
  BY DEF Conj
<1> HIDE DEF t
<1>5. rt \in Mats
  BY <1>1, MultIs
<1>6. rtt = r
  <2>1. rtt = matrix_mult(r, tt)
    BY <1>1, MultAssoc
  <2>2. matrix_mult(r, Id) = r
    BY MultId
  <2> QED BY <1>2, <2>1, <2>2
<1> HIDE DEF rt
<1>7. c \in Mats /\ ct = matrix_mult(u, rtt)
  BY <1>1, <1>5, MultIs, MultAssoc
<1>8. matrix_mult(u, matrix_mult(u, r)) = r
  <2>1. matrix_mult(matrix_mult(u, u), r) = matrix_mult(u, matrix_mult(u, r))
    BY MultAssoc
  <2>2. matrix_mult(Id, r) = r
    BY MultId
  <2> QED BY <2>1, <2>2
<1> HIDE DEF c, ct, rtt
<1> QED BY <1>3, <1>4, <1>6, <1>7, <1>8

\* Moving and transposing do not mind their order.
LEMMA ConjTrans ==
  ASSUME NEW u \in Mats, NEW r \in Mats
  PROVE  transpose(Conj(u, r)) = Conj(u, transpose(r))
<1> DEFINE t == transpose(u)  rt == matrix_mult(r, t)  rr == transpose(r)
<1>1. t \in Mats /\ transpose(t) = u /\ rr \in Mats
  BY TransposeIs, TransTwice
<1>2. Conj(u, r) = matrix_mult(u, rt) /\ Conj(u, rr) = matrix_mult(u, matrix_mult(rr, t))
  BY DEF Conj
<1>3. rt \in Mats /\ transpose(rt) = matrix_mult(u, rr)
  <2>1. transpose(rt) = matrix_mult(transpose(t), rr)
    <3> HIDE DEF t
    <3> QED BY <1>1, TransMult
  <2>2. rt \in Mats
    <3> HIDE DEF t
    <3> QED BY <1>1, MultIs
  <2> QED BY <1>1, <2>1, <2>2
<1>4. transpose(matrix_mult(u, rt)) = matrix_mult(transpose(rt), t)
  <2> HIDE DEF rt
  <2> QED BY <1>3, TransMult
<1>5. matrix_mult(matrix_mult(u, rr), t) = matrix_mult(u, matrix_mult(rr, t))
  <2> HIDE DEF t, rr
  <2> QED BY <1>1, MultAssoc
<1> QED BY <1>2, <1>3, <1>4, <1>5

\* A square matrix whose product with its transpose is the identity is orthogonal
\* from the other side too: the squares of what is left of the identity sum to zero.
LEMMA LeftIsRight ==
  ASSUME NEW u \in Mats, matrix_mult(u, transpose(u)) = Id
  PROVE  matrix_mult(transpose(u), u) = Id
<1> DEFINE t == transpose(u)  w == matrix_mult(t, u)
<1>1. t \in Mats /\ transpose(t) = u
  BY TransposeIs, TransTwice
<1>2. matrix_mult(u, t) = Id /\ transpose(u) = t
  OBVIOUS
<1> HIDE DEF t
<1>3. w \in Mats /\ transpose(w) = w
  <2>1. transpose(w) = matrix_mult(t, transpose(t))
    BY <1>1, <1>2, TransMult
  <2> QED BY <1>1, <2>1, MultIs
<1>4. matrix_mult(w, w) = w
  <2>1. w \in Mats
    BY <1>3
  <2>2. matrix_mult(u, w) = matrix_mult(matrix_mult(u, t), u)
    BY <1>1, MultAssoc
  <2>3. matrix_mult(Id, u) = u
    BY MultId
  <2>4. matrix_mult(w, w) = matrix_mult(t, matrix_mult(u, w))
    <3> DEFINE v == matrix_mult(t, u)
    <3> HIDE DEF v
    <3>1. \A b \in Mats : matrix_mult(matrix_mult(t, u), b) = matrix_mult(t, matrix_mult(u, b))
      BY <1>1, MultAssoc
    <3> QED BY <2>1, <3>1
  <2> QED BY <1>2, <2>2, <2>3, <2>4
<1>5. Tr(w) = Dim2
  <2>1. Tr(matrix_mult(t, u)) = Tr(matrix_mult(u, t))
    BY <1>1, TrMult
  <2> QED BY <1>2, <2>1, TrId
<1> HIDE DEF w
<1> DEFINE F(i) == [j \in I |-> (Id[i][j] - w[i][j]) * (Id[i][j] - w[i][j])]
           R == [i \in I |-> SumOver(F(i))]  d == [i \in I |-> w[i][i]]  ones == [i \in I |-> 1]
<1>6. \A i, j \in I : w[i][j] \in Int /\ w[j][i] = w[i][j]
  BY <1>3, MatEntries, TransposeIs
<1>7. ASSUME NEW i \in I PROVE (\A j \in I : F(i)[j] \in Nat) /\ SumOver(F(i)) = 1 - w[i][i]
  <2> DEFINE f == F(i)
             g == [j \in I |-> IF i = j THEN 1 - 2 * w[i][i] ELSE 0]  h == [j \in I |-> w[i][j] * w[j][i]]
  <2>1. SumOver(h) = w[i][i]
    <3>1. matrix_mult(w, w)[i][i] = SumOver(h)
      BY <1>3, MultIs
    <3> QED BY <1>4, <3>1
  <2>2. ASSUME NEW j \in I
        PROVE  g[j] \in Int /\ h[j] \in Int /\ f[j] \in Nat /\ f[j] = g[j] + h[j]
    <3> DEFINE a == w[i][j]
    <3>1. a \in Int /\ w[j][i] = a
      BY <1>6
    <3>2. h[j] = a * a /\ g[j] = IF i = j THEN 1 - 2 * a ELSE 0
      BY <3>1
    <3>3. f[j] = IF i = j THEN (1 - a) * (1 - a) ELSE (0 - a) * (0 - a)
      BY IdIs
    <3> HIDE DEF a, f, g, h
    <3>4. (1 - a) * (1 - a) = (1 - 2 * a) + a * a /\ (0 - a) * (0 - a) = 0 + a * a
          /\ (1 - a) * (1 - a) >= 0 /\ a * a >= 0 /\ a * a \in Int
      BY <3>1
    <3> QED BY <3>1, <3>2, <3>3, <3>4
  <2>3. g[i] = 1 - 2 * w[i][i] /\ g[i] \in Int /\ \A j \in I : j # i => g[j] = 0
    BY <1>6
  <2> HIDE DEF f, g, h
  <2>4. SumOver(g) = g[i]
    BY <2>3, SumOne
  <2>5. SumOver(f) = SumOver(g) + SumOver(h)
    BY <2>2, SumAdd
  <2>6. SumOver(f) = 1 - w[i][i]
    BY <1>6, <2>1, <2>3, <2>4, <2>5
  <2> QED BY <2>2, <2>6 DEF f
<1>8. \A i \in I : R[i] \in Nat /\ R[i] = 1 - w[i][i] /\ \A j \in I : F(i)[j] <= R[i]
  <2> SUFFICES ASSUME NEW i \in I
               PROVE  R[i] \in Nat /\ R[i] = 1 - w[i][i] /\ \A j \in I : F(i)[j] <= R[i]
    OBVIOUS
  <2> DEFINE f == F(i)
  <2>1. R[i] = SumOver(f) /\ SumOver(f) = 1 - w[i][i] /\ \A j \in I : f[j] \in Nat
    BY <1>7
  <2> HIDE DEF f, R, F
  <2>2. SumOver(f) \in Nat /\ \A j \in I : f[j] <= SumOver(f)
    BY <2>1, SumBounds
  <2> QED BY <2>1, <2>2 DEF f
<1>9. SumOver(R) = 0
  <2>1. \A i \in I : R[i] \in Int /\ d[i] \in Int /\ ones[i] = R[i] + d[i] /\ ones[i] = 1
    BY <1>6, <1>8
  <2>2. SumOver(d) = Dim2
    BY <1>5 DEF Tr
  <2> HIDE DEF R, d, ones
  <2>3. SumOver(ones) = SumOver(R) + SumOver(d) /\ SumOver(ones) = Dim2
    BY <2>1, SumAdd, SumOnes
  <2>4. SumOver(R) \in Int
    BY <2>1, SumInt
  <2> QED BY <2>2, <2>3, <2>4, KernelBounds
<1>10. \A i \in I : R[i] = 0
  <2>1. \A i \in I : R[i] \in Nat
    BY <1>8
  <2> HIDE DEF R
  <2>2. \A i \in I : R[i] <= SumOver(R)
    BY <2>1, SumBounds
  <2> QED BY <1>9, <2>1, <2>2
<1>11. ASSUME NEW i \in I, NEW j \in I PROVE w[i][j] = Id[i][j]
  <2> DEFINE e == Id[i][j] - w[i][j]
  <2>1. F(i)[j] \in Nat /\ F(i)[j] <= 0 /\ F(i)[j] = e * e
    BY <1>7, <1>8, <1>10
  <2>2. Id[i][j] \in Int /\ w[i][j] \in Int /\ e \in Int
    BY <1>6, IdIs
  <2>3. e * e = 0
    BY <2>1
  <2>4. e = 0
    <3> HIDE DEF e
    <3> QED BY <2>2, <2>3
  <2> QED BY <2>2, <2>4
<1>12. w = Id
  BY <1>3, <1>11, IdIs, SameMats
<1> QED BY <1>12 DEF w, t

\* Moving by an orthogonal matrix keeps the trace.
LEMMA ConjTrace ==
  ASSUME NEW u \in Mats, NEW r \in Mats, matrix_mult(u, transpose(u)) = Id
  PROVE  Tr(Conj(u, r)) = Tr(r)
<1> DEFINE t == transpose(u)  rt == matrix_mult(r, t)
<1>1. t \in Mats /\ matrix_mult(t, u) = Id
  BY TransposeIs, LeftIsRight
<1>2. Conj(u, r) = matrix_mult(u, rt)
  BY DEF Conj
<1> HIDE DEF t
<1>3. rt \in Mats /\ matrix_mult(rt, u) = matrix_mult(r, matrix_mult(t, u))
  BY <1>1, MultIs, MultAssoc
<1>4. matrix_mult(r, Id) = r
  BY MultId
<1> HIDE DEF rt
<1>5. Tr(matrix_mult(u, rt)) = Tr(matrix_mult(rt, u))
  BY <1>3, TrMult
<1> QED BY <1>1, <1>2, <1>3, <1>4, <1>5

\* The trace of a matrix of pairs is that of its halves.
LEMMA TraceIs ==
  ASSUME NEW rho \in PairMats
  PROVE  trace(rho) = <<Tr(Firsts(rho)), Tr(Seconds(rho))>>
<1> DEFINE xs == [i \in I |-> rho[i][i]]
           f == [i \in I |-> xs[i][1]]  g == [i \in I |-> Firsts(rho)[i][i]]
           h == [i \in I |-> xs[i][2]]  k == [i \in I |-> Seconds(rho)[i][i]]
<1>1. \A i \in I : f[i] \in Int /\ h[i] \in Int /\ g[i] = f[i] /\ k[i] = h[i]
  BY PartsAre
<1>2. trace(rho) = <<SumOver(f), SumOver(h)>>
  BY DEF trace, SumPairs
<1>3. Tr(Firsts(rho)) = SumOver(g) /\ Tr(Seconds(rho)) = SumOver(k)
  BY DEF Tr
<1> HIDE DEF f, g, h, k
<1>4. SumOver(g) = SumOver(f) /\ SumOver(k) = SumOver(h)
  BY <1>1, SumSame
<1> QED BY <1>2, <1>3, <1>4

\* So is its transpose.
LEMMA TransPairs ==
  ASSUME NEW rho \in PairMats
  PROVE  /\ transpose(rho) \in PairMats
         /\ Firsts(transpose(rho)) = transpose(Firsts(rho))
         /\ Seconds(transpose(rho)) = transpose(Seconds(rho))
<1> DEFINE t == transpose(rho)
<1>1. t \in PairMats
  BY DEF PairMats, transpose
<1>2. Firsts(t) = transpose(Firsts(rho)) /\ Seconds(t) = transpose(Seconds(rho))
  BY DEF Firsts, Seconds, transpose
<1> QED BY <1>1, <1>2

\* What a turn keeps; fd, sd are the numbers of the next matrix, c1, c2 those of the moved one.
Turned(fd, sd, f, s, c1, c2) ==
  /\ fd \in Mats /\ sd \in Mats /\ f \in Mats /\ s \in Mats /\ c1 \in Mats /\ c2 \in Mats
  /\ MatAdd(fd, s) = MatAdd(c2, f)
  /\ MatAdd(MatAdd(sd, c2), f) = MatAdd(c1, MatAdd(s, s))
Moved(rho, u) ==
  Turned(Firsts(density_evolve(rho, u)), Seconds(density_evolve(rho, u)), Firsts(rho), Seconds(rho),
         Conj(u, Firsts(rho)), Conj(u, Seconds(rho)))

\* Every turn does so.
LEMMA EvolveMoves ==
  ASSUME NEW u \in Mats, NEW rho \in PairMats
  PROVE  Moved(rho, u)
<1> DEFINE d == density_evolve(rho, u)  fd == Firsts(d)  sd == Seconds(d)
           f == Firsts(rho)  s == Seconds(rho)  c1 == Conj(u, f)  c2 == Conj(u, s)
           x == MatAdd(fd, s)  y == MatAdd(c2, f)  v == MatAdd(sd, c2)  ss == MatAdd(s, s)
           z == MatAdd(v, f)  w == MatAdd(c1, ss)
<1>1. d \in PairMats
  BY EvolveIs
<1>2. \A i, j \in I :
        /\ fd[i][j] = c2[i][j] + f[i][j] - s[i][j]
        /\ sd[i][j] = c1[i][j] - c2[i][j] + (s[i][j] - (f[i][j] - s[i][j]))
  BY EvolveIs
<1>3. f \in Mats /\ s \in Mats
  BY PartsAre
<1> HIDE DEF f, s
<1>4. c1 \in Mats /\ c2 \in Mats
  BY <1>3, ConjIs
<1> HIDE DEF d
<1>5. fd \in Mats /\ sd \in Mats
  BY <1>1, PartsAre
<1> HIDE DEF fd, sd, c1, c2
<1>6. /\ \A i, j \in I : f[i][j] \in Int /\ s[i][j] \in Int /\ c1[i][j] \in Int /\ c2[i][j] \in Int
      /\ \A i, j \in I : fd[i][j] \in Int /\ sd[i][j] \in Int
  BY <1>3, <1>4, <1>5, MatEntries
<1>7. /\ x \in Mats /\ y \in Mats /\ v \in Mats /\ ss \in Mats
      /\ \A i, j \in I : /\ x[i][j] = fd[i][j] + s[i][j] /\ y[i][j] = c2[i][j] + f[i][j]
                         /\ v[i][j] = sd[i][j] + c2[i][j] /\ ss[i][j] = s[i][j] + s[i][j]
  BY <1>3, <1>4, <1>5, AddIs
<1> HIDE DEF x, y, v, ss
<1>8. z \in Mats /\ w \in Mats
      /\ \A i, j \in I : z[i][j] = v[i][j] + f[i][j] /\ w[i][j] = c1[i][j] + ss[i][j]
  BY <1>3, <1>4, <1>7, AddIs
<1> HIDE DEF z, w
<1>9. \A i, j \in I : x[i][j] = y[i][j] /\ z[i][j] = w[i][j]
  BY <1>2, <1>6, <1>7, <1>8
<1>10. x = y /\ z = w
  BY <1>7, <1>8, <1>9, SameMats
<1>11. Turned(fd, sd, f, s, c1, c2)
  BY <1>3, <1>4, <1>5, <1>10 DEF Turned, x, y, v, ss, z, w
<1> QED BY <1>11 DEF Moved, d, fd, sd, f, s, c1, c2

\* A turn keeps the trace under an orthogonal matrix.
LEMMA TraceStays ==
  ASSUME NEW u \in Mats, NEW rho \in PairMats, matrix_mult(u, transpose(u)) = Id
  PROVE  trace(density_evolve(rho, u)) = trace(rho)
<1> DEFINE d == density_evolve(rho, u)  fd == Firsts(d)  sd == Seconds(d)
           f == Firsts(rho)  s == Seconds(rho)  c1 == Conj(u, f)  c2 == Conj(u, s)
<1>1. Turned(fd, sd, f, s, c1, c2)
  BY EvolveMoves DEF Moved
<1>2. f \in Mats /\ s \in Mats
  BY PartsAre
<1>3. d \in PairMats
  BY EvolveIs
<1>4. trace(rho) = <<Tr(f), Tr(s)>>
  BY TraceIs
<1> HIDE DEF d
<1>5. trace(d) = <<Tr(fd), Tr(sd)>>
  BY <1>3, TraceIs
<1> HIDE DEF f, s
<1>6. Tr(c1) = Tr(f) /\ Tr(c2) = Tr(s)
  BY <1>2, ConjTrace
<1> HIDE DEF fd, sd, c1, c2
<1>7. Tr(fd) + Tr(s) = Tr(c2) + Tr(f)
  <2>1. Tr(MatAdd(fd, s)) = Tr(fd) + Tr(s) /\ Tr(MatAdd(c2, f)) = Tr(c2) + Tr(f)
    BY <1>1, TrAdd DEF Turned
  <2> QED BY <1>1, <2>1 DEF Turned
<1>8. Tr(sd) + Tr(c2) + Tr(f) = Tr(c1) + (Tr(s) + Tr(s))
  <2> DEFINE v == MatAdd(sd, c2)  ss == MatAdd(s, s)
  <2>1. v \in Mats /\ ss \in Mats /\ Tr(v) = Tr(sd) + Tr(c2) /\ Tr(ss) = Tr(s) + Tr(s)
    BY <1>1, AddIs, TrAdd DEF Turned
  <2>2. MatAdd(v, f) = MatAdd(c1, ss) /\ c1 \in Mats /\ f \in Mats
    BY <1>1 DEF Turned
  <2> HIDE DEF v, ss
  <2>3. Tr(MatAdd(v, f)) = Tr(v) + Tr(f) /\ Tr(MatAdd(c1, ss)) = Tr(c1) + Tr(ss)
    BY <2>1, <2>2, TrAdd
  <2> QED BY <2>1, <2>2, <2>3
<1>9. Tr(fd) \in Int /\ Tr(sd) \in Int /\ Tr(f) \in Int /\ Tr(s) \in Int
  BY <1>1, TrInt DEF Turned
<1>10. Tr(fd) = Tr(f) /\ Tr(sd) = Tr(s)
  BY <1>6, <1>7, <1>8, <1>9
<1> QED BY <1>4, <1>5, <1>10 DEF d

\* A turn keeps the symmetry.
LEMMA SymmetryStays ==
  ASSUME NEW u \in Mats, NEW rho \in PairMats, transpose(rho) = rho
  PROVE  transpose(density_evolve(rho, u)) = density_evolve(rho, u)
<1> DEFINE d == density_evolve(rho, u)  fd == Firsts(d)  sd == Seconds(d)
           f == Firsts(rho)  s == Seconds(rho)  c1 == Conj(u, f)  c2 == Conj(u, s)
<1>1. \A i, j \in I :
        /\ fd[i][j] = c2[i][j] + f[i][j] - s[i][j]
        /\ sd[i][j] = c1[i][j] - c2[i][j] + (s[i][j] - (f[i][j] - s[i][j]))
  BY EvolveIs
<1>2. f \in Mats /\ s \in Mats
  BY PartsAre
<1>3. d \in PairMats
  BY EvolveIs
<1>4. transpose(f) = f /\ transpose(s) = s
  BY TransPairs
<1> HIDE DEF f, s
<1>5. c1 \in Mats /\ c2 \in Mats /\ transpose(c1) = c1 /\ transpose(c2) = c2
  BY <1>2, <1>4, ConjIs, ConjTrans
<1> HIDE DEF c1, c2, d
<1>6. fd \in Mats /\ sd \in Mats
  BY <1>3, PartsAre
<1> HIDE DEF fd, sd
<1>7. \A i, j \in I : /\ f[i][j] = f[j][i] /\ s[i][j] = s[j][i]
                      /\ c1[i][j] = c1[j][i] /\ c2[i][j] = c2[j][i]
  BY <1>2, <1>4, <1>5, TransposeIs
<1> DEFINE tf == transpose(fd)  ts == transpose(sd)
<1>8. tf \in Mats /\ ts \in Mats /\ \A i, j \in I : tf[i][j] = fd[j][i] /\ ts[i][j] = sd[j][i]
  BY <1>6, TransposeIs
<1> HIDE DEF tf, ts
<1>9. \A i, j \in I : tf[i][j] = fd[i][j] /\ ts[i][j] = sd[i][j]
  BY <1>1, <1>7, <1>8
<1>10. tf = fd /\ ts = sd
  BY <1>6, <1>8, <1>9, SameMats
<1>11. transpose(d) \in PairMats /\ Firsts(transpose(d)) = tf /\ Seconds(transpose(d)) = ts
  BY <1>3, TransPairs DEF tf, ts, fd, sd
<1>12. transpose(d) = d
  BY <1>3, <1>10, <1>11, SamePairs DEF fd, sd
<1> QED BY <1>12 DEF d

Mean(u, rho) == [i \in I |-> [j \in I |-> Plus(rho[i][j], Conjugate(u, rho)[i][j])]]

\* What the mean is, half by half.
LEMMA MeanIs ==
  ASSUME NEW u \in Mats, NEW rho \in PairMats
  PROVE  /\ Mean(u, rho) \in PairMats
         /\ Firsts(Mean(u, rho)) = MatAdd(Firsts(rho), Conj(u, Firsts(rho)))
         /\ Seconds(Mean(u, rho)) = MatAdd(Seconds(rho), Conj(u, Seconds(rho)))
<1> DEFINE m == Conjugate(u, rho)  p == Mean(u, rho)
           f == Firsts(rho)  s == Seconds(rho)  c1 == Conj(u, f)  c2 == Conj(u, s)
<1>1. m \in PairMats /\ Firsts(m) = c1 /\ Seconds(m) = c2
  BY ConjugateIs
<1>2. p = [i \in I |-> [j \in I |-> Plus(rho[i][j], m[i][j])]]
  BY DEF Mean
<1> HIDE DEF m, p, c1, c2
<1>3. \A i, j \in I : m[i][j][1] = c1[i][j] /\ m[i][j][2] = c2[i][j]
                      /\ c1[i][j] \in Int /\ c2[i][j] \in Int
  BY <1>1, PartsAre
<1>4. \A i, j \in I : rho[i][j][1] = f[i][j] /\ rho[i][j][2] = s[i][j]
                      /\ f[i][j] \in Int /\ s[i][j] \in Int
  BY PartsAre
<1> HIDE DEF f, s
<1>5. \A i, j \in I : p[i][j] = <<f[i][j] + c1[i][j], s[i][j] + c2[i][j]>>
  BY <1>2, <1>3, <1>4 DEF Plus
<1>6. p \in PairMats
  <2>1. ASSUME NEW i \in I, NEW j \in I PROVE Plus(rho[i][j], m[i][j]) \in Int \X Int
    BY <1>3, <1>4 DEF Plus
  <2> QED BY <1>2, <2>1 DEF PairMats
<1>7. Firsts(p) = MatAdd(f, c1) /\ Seconds(p) = MatAdd(s, c2)
  BY <1>5 DEF Firsts, Seconds, MatAdd
<1> QED BY <1>6, <1>7 DEF p, c1, c2, f, s

\* A turn keeps the mean under a reflection.
LEMMA MeanStays ==
  ASSUME NEW u \in Mats, NEW rho \in PairMats, matrix_mult(u, u) = Id
  PROVE  Mean(u, density_evolve(rho, u)) = Mean(u, rho)
<1> DEFINE d == density_evolve(rho, u)  fd == Firsts(d)  sd == Seconds(d)
           f == Firsts(rho)  s == Seconds(rho)  c1 == Conj(u, f)  c2 == Conj(u, s)
           cf == Conj(u, fd)  cs == Conj(u, sd)
<1>1. Turned(fd, sd, f, s, c1, c2)
  BY EvolveMoves DEF Moved
<1>2. f \in Mats /\ s \in Mats
  BY PartsAre
<1>3. d \in PairMats
  BY EvolveIs
<1> HIDE DEF d, f, s
<1>4. fd \in Mats /\ sd \in Mats
  BY <1>3, PartsAre
<1> HIDE DEF fd, sd
<1>5. c1 \in Mats /\ c2 \in Mats /\ cf \in Mats /\ cs \in Mats
  BY <1>2, <1>4, ConjIs
<1>6. Conj(u, c1) = f /\ Conj(u, c2) = s
  BY <1>2, ConjTwice
<1>7. MatAdd(cf, c2) = MatAdd(s, c1)
  <2>1. Conj(u, MatAdd(fd, s)) = MatAdd(cf, c2)
    BY <1>2, <1>4, ConjAdd
  <2> HIDE DEF c2
  <2>2. Conj(u, MatAdd(c2, f)) = MatAdd(Conj(u, c2), c1)
    BY <1>2, <1>5, ConjAdd
  <2> QED BY <1>1, <1>6, <2>1, <2>2 DEF Turned
<1>8. MatAdd(MatAdd(cs, s), c1) = MatAdd(f, MatAdd(c2, c2))
  <2> DEFINE v == MatAdd(sd, c2)  ss == MatAdd(s, s)
  <2>1. ss \in Mats /\ Conj(u, ss) = MatAdd(c2, c2)
    BY <1>2, AddIs, ConjAdd
  <2> HIDE DEF c2
  <2>2. v \in Mats /\ Conj(u, v) = MatAdd(cs, s)
    BY <1>4, <1>5, <1>6, AddIs, ConjAdd
  <2> HIDE DEF v, ss
  <2>3. Conj(u, MatAdd(v, f)) = MatAdd(Conj(u, v), c1)
    BY <1>2, <2>2, ConjAdd
  <2> HIDE DEF c1
  <2>4. Conj(u, MatAdd(c1, ss)) = MatAdd(f, Conj(u, ss))
    BY <1>5, <1>6, <2>1, ConjAdd
  <2>5. MatAdd(v, f) = MatAdd(c1, ss)
    BY <1>1 DEF Turned, v, ss
  <2> QED BY <2>1, <2>2, <2>3, <2>4, <2>5
<1>9. MatAdd(fd, s) = MatAdd(c2, f) /\ MatAdd(MatAdd(sd, c2), f) = MatAdd(c1, MatAdd(s, s))
  BY <1>1 DEF Turned
<1> HIDE DEF c1, c2, cf, cs
<1> DEFINE x == MatAdd(fd, cf)  y == MatAdd(f, c1)  z == MatAdd(sd, cs)  w == MatAdd(s, c2)
<1>10. x \in Mats /\ y \in Mats /\ z \in Mats /\ w \in Mats
  BY <1>2, <1>4, <1>5, AddIs
<1>11. ASSUME NEW i \in I, NEW j \in I PROVE x[i][j] = y[i][j] /\ z[i][j] = w[i][j]
  <2> DEFINE a == fd[i][j]  b == sd[i][j]  p == f[i][j]  q == s[i][j]
             m == c1[i][j]  n == c2[i][j]  k == cf[i][j]  l == cs[i][j]
  <2>1. /\ a \in Int /\ b \in Int /\ p \in Int /\ q \in Int
        /\ m \in Int /\ n \in Int /\ k \in Int /\ l \in Int
    BY <1>2, <1>4, <1>5, MatEntries
  <2>2. a + q = n + p /\ k + n = q + m
    <3>1. /\ MatAdd(fd, s)[i][j] = a + q /\ MatAdd(c2, f)[i][j] = n + p
          /\ MatAdd(cf, c2)[i][j] = k + n /\ MatAdd(s, c1)[i][j] = q + m
      BY <1>2, <1>4, <1>5, AddIs
    <3> QED BY <1>7, <1>9, <3>1
  <2>3. b + n + p = m + (q + q)
    <3> DEFINE v == MatAdd(sd, c2)  ss == MatAdd(s, s)
    <3>1. v \in Mats /\ ss \in Mats /\ v[i][j] = b + n /\ ss[i][j] = q + q
      BY <1>2, <1>4, <1>5, AddIs
    <3>2. MatAdd(v, f) = MatAdd(c1, ss)
      BY <1>9
    <3> HIDE DEF v, ss
    <3>3. MatAdd(v, f)[i][j] = v[i][j] + p /\ MatAdd(c1, ss)[i][j] = m + ss[i][j]
      BY <1>2, <1>5, <3>1, AddIs
    <3> QED BY <3>1, <3>2, <3>3
  <2>4. l + q + m = p + (n + n)
    <3> DEFINE v == MatAdd(cs, s)  nn == MatAdd(c2, c2)
    <3>1. v \in Mats /\ nn \in Mats /\ v[i][j] = l + q /\ nn[i][j] = n + n
      BY <1>2, <1>4, <1>5, AddIs
    <3>2. MatAdd(v, c1) = MatAdd(f, nn)
      BY <1>8
    <3> HIDE DEF v, nn
    <3>3. MatAdd(v, c1)[i][j] = v[i][j] + m /\ MatAdd(f, nn)[i][j] = p + nn[i][j]
      BY <1>2, <1>5, <3>1, AddIs
    <3> QED BY <3>1, <3>2, <3>3
  <2>5. x[i][j] = a + k /\ y[i][j] = p + m /\ z[i][j] = b + l /\ w[i][j] = q + n
    BY <1>2, <1>4, <1>5, AddIs
  <2> HIDE DEF a, b, p, q, m, n, k, l, x, y, z, w
  <2> QED BY <2>1, <2>2, <2>3, <2>4, <2>5
<1> HIDE DEF x, y, z, w
<1>12. x = y /\ z = w
  BY <1>10, <1>11, SameMats
<1>13. Mean(u, d) \in PairMats /\ Firsts(Mean(u, d)) = x /\ Seconds(Mean(u, d)) = z
  BY <1>3, MeanIs DEF x, z, fd, sd, cf, cs
<1>14. Mean(u, rho) \in PairMats /\ Firsts(Mean(u, rho)) = y /\ Seconds(Mean(u, rho)) = w
  BY MeanIs DEF y, w, f, s, c1, c2
<1>15. Mean(u, d) = Mean(u, rho)
  BY <1>12, <1>13, <1>14, SamePairs
<1> QED BY <1>15 DEF d

\* A turn leaves alone what the matrix leaves alone.
LEMMA FixedStays ==
  ASSUME NEW u \in Mats, NEW rho \in PairMats, Conjugate(u, rho) = rho
  PROVE  density_evolve(rho, u) = rho
<1> DEFINE d == density_evolve(rho, u)  fd == Firsts(d)  sd == Seconds(d)
           f == Firsts(rho)  s == Seconds(rho)
<1>1. Conj(u, f) = f /\ Conj(u, s) = s
  BY ConjugateIs
<1>2. \A i, j \in I :
        /\ fd[i][j] = s[i][j] + f[i][j] - s[i][j]
        /\ sd[i][j] = f[i][j] - s[i][j] + (s[i][j] - (f[i][j] - s[i][j]))
  BY <1>1, EvolveIs
<1>3. f \in Mats /\ s \in Mats
  BY PartsAre
<1>4. d \in PairMats
  BY EvolveIs
<1> HIDE DEF d, f, s
<1>5. fd \in Mats /\ sd \in Mats
  BY <1>4, PartsAre
<1> HIDE DEF fd, sd
<1>6. \A i, j \in I : f[i][j] \in Int /\ s[i][j] \in Int
  BY <1>3, MatEntries
<1>7. \A i, j \in I : fd[i][j] = f[i][j] /\ sd[i][j] = s[i][j]
  BY <1>2, <1>6
<1>8. fd = f /\ sd = s
  BY <1>3, <1>5, <1>7, SameMats
<1>9. d = rho
  BY <1>4, <1>8, SamePairs DEF f, s, fd, sd
<1> QED BY <1>9 DEF d

\* What a turn keeps of the first matrix.
KeptOf(first, u, rho) ==
  /\ matrix_mult(u, transpose(u)) = Id => trace(rho) = trace(first)
  /\ transpose(first) = first => transpose(rho) = rho
  /\ matrix_mult(u, u) = Id => Mean(u, rho) = Mean(u, first)

\* A turn keeps all of it.
LEMMA TurnKeeps ==
  ASSUME NEW u \in Mats, NEW first, NEW rho \in PairMats, KeptOf(first, u, rho)
  PROVE  density_evolve(rho, u) \in PairMats /\ KeptOf(first, u, density_evolve(rho, u))
<1>1. density_evolve(rho, u) \in PairMats
  BY EvolveIs
<1>2. matrix_mult(u, transpose(u)) = Id => trace(density_evolve(rho, u)) = trace(rho)
  BY TraceStays
<1>3. transpose(rho) = rho => transpose(density_evolve(rho, u)) = density_evolve(rho, u)
  BY SymmetryStays
<1>4. matrix_mult(u, u) = Id => Mean(u, density_evolve(rho, u)) = Mean(u, rho)
  BY MeanStays
<1> QED BY <1>1, <1>2, <1>3, <1>4 DEF KeptOf

\* The turns so far: matrices of pairs, no more than allowed, each keeping what it must;
\* a matrix the loop does not change ends it.
LoopInv ==
  /\ turns \in Seq(PairMats) /\ unitary \in Mats /\ Len(turns) >= 1
  /\ loop \in {"running", "converged", "given up"}
  /\ Len(turns) <= MaxTurns + 1 /\ (loop = "running" => Len(turns) <= MaxTurns)
  /\ \A k \in DOMAIN turns : KeptOf(turns[1], unitary, turns[k])
  /\ Conjugate(unitary, turns[1]) = turns[1] =>
       loop # "given up" /\ Len(turns) <= 2 /\ (loop = "running" => Len(turns) = 1)
KernelInv ==
  /\ matrix \in Mats
  /\ \/ element = ZeroElement /\ other = ZeroElement
     \/ element \in Elements /\ other \in Elements
AlgebraInv == KernelInv /\ (loop = "idle" \/ LoopInv)

\* What the constants and the beginning give are matrices of integers.
LEMMA MatricesAre == Matrices \subseteq Mats /\ Unitaries \subseteq Mats /\ ZeroMatrix \in Mats
<1>1. Entries \subseteq Int
  BY KernelBounds
<1>2. Matrices \subseteq Mats
  BY <1>1 DEF Matrices, Mats
<1>3. Unitaries \subseteq Mats
  BY TurnsBound DEF Mats, I
<1> QED BY <1>2, <1>3 DEF ZeroMatrix, Mats

\* The loop begins within its invariant.
LEMMA ConvergeStarts ==
  ASSUME NEW rho \in Matrices, NEW u \in Unitaries, converge(rho, u)
  PROVE  LoopInv'
<1> DEFINE e == Exact(rho)
<1>1. rho \in Mats /\ u \in Mats
  BY MatricesAre
<1>2. e \in PairMats
  <2>1. \A i, j \in I : rho[i][j] \in Int
    BY <1>1, MatEntries
  <2>2. \A i, j \in I : <<rho[i][j], 0>> \in Int \X Int
    BY <2>1
  <2> QED BY <2>2 DEF Exact, PairMats
<1> HIDE DEF e
<1>3. turns' = << e >> /\ unitary' = u /\ loop' = "running"
  BY DEF converge, e
<1>4. KeptOf(e, u, e)
  BY DEF KeptOf
<1>5. turns' \in Seq(PairMats) /\ Len(turns') = 1 /\ turns'[1] = e /\ DOMAIN turns' = {1}
  BY <1>2, <1>3
<1>6. MaxTurns \in Nat /\ MaxTurns >= 1
  BY TurnsBound
<1> QED BY <1>1, <1>3, <1>4, <1>5, <1>6 DEF LoopInv

\* A turn stays within it.
LEMMA ConvergeTurns ==
  ASSUME LoopInv, converge_turn
  PROVE  LoopInv'
<1> DEFINE L == Len(turns)  last == turns[L]  next == density_evolve(last, unitary)
<1>0. L \in Nat /\ L >= 1 /\ last \in PairMats /\ turns[1] \in PairMats /\ DOMAIN turns = 1 .. L
  <2>1. turns \in Seq(PairMats) /\ Len(turns) >= 1
    BY DEF LoopInv
  <2>2. Len(turns) \in Nat /\ DOMAIN turns = 1 .. Len(turns) /\ \A k \in 1 .. Len(turns) : turns[k] \in PairMats
    BY <2>1
  <2> QED BY <2>1, <2>2
<1>1. Last(turns) = last
  BY DEF Last
<1>2. loop = "running" /\ turns' = Append(turns, next) /\ unitary' = unitary
  BY <1>1 DEF converge_turn
<1>3. loop' = "converged" \/ (next # last /\ loop' = IF L = MaxTurns THEN "given up" ELSE "running")
  BY <1>1 DEF converge_turn
<1>4. next \in PairMats /\ KeptOf(turns[1], unitary, next)
  <2>1. unitary \in Mats /\ KeptOf(turns[1], unitary, last)
    <3>1. L \in DOMAIN turns
      BY <1>0
    <3> QED BY <3>1 DEF LoopInv
  <2> HIDE DEF last
  <2> QED BY <1>0, <2>1, TurnKeeps
<1>5. Conjugate(unitary, turns[1]) = turns[1] => L = 1 /\ next = last
  <2> SUFFICES ASSUME Conjugate(unitary, turns[1]) = turns[1] PROVE L = 1 /\ next = last
    OBVIOUS
  <2>1. L = 1 /\ unitary \in Mats
    BY <1>2 DEF LoopInv
  <2> HIDE DEF L
  <2>2. last = turns[1]
    BY <2>1
  <2> QED BY <1>0, <2>1, <2>2, FixedStays
<1> HIDE DEF next
<1>6. /\ turns' \in Seq(PairMats) /\ Len(turns') = L + 1 /\ DOMAIN turns' = 1 .. L + 1
      /\ turns'[L + 1] = next /\ \A k \in 1 .. L : turns'[k] = turns[k]
  <2>1. turns \in Seq(PairMats)
    BY DEF LoopInv
  <2> QED BY <1>2, <1>4, <2>1
<1>7. L <= MaxTurns /\ MaxTurns \in Nat
  BY <1>2, TurnsBound DEF LoopInv
<1> HIDE DEF L, last
<1>8. turns'[1] = turns[1]
  BY <1>0, <1>6
<1>9. \A k \in DOMAIN turns' : KeptOf(turns'[1], unitary', turns'[k])
  <2> SUFFICES ASSUME NEW k \in 1 .. L + 1 PROVE KeptOf(turns[1], unitary, turns'[k])
    BY <1>2, <1>6, <1>8
  <2>1. CASE k = L + 1
    BY <1>4, <1>6, <2>1
  <2>2. CASE k # L + 1
    <3>1. k \in 1 .. L
      BY <1>0, <2>2
    <3> QED BY <1>0, <1>6, <3>1 DEF LoopInv
  <2> QED BY <2>1, <2>2
<1>10. Conjugate(unitary', turns'[1]) = turns'[1] => L = 1 /\ loop' = "converged"
  BY <1>2, <1>3, <1>5, <1>8
<1>11. loop' \in {"running", "converged", "given up"} /\ (loop' = "running" => L # MaxTurns)
  BY <1>3
<1>12. L + 1 >= 1 /\ L + 1 <= MaxTurns + 1 /\ (L # MaxTurns => L + 1 <= MaxTurns)
  BY <1>0, <1>7
<1>13. unitary' \in Mats
  BY <1>2 DEF LoopInv
<1>14. Conjugate(unitary', turns'[1]) = turns'[1] =>
         loop' # "given up" /\ Len(turns') <= 2 /\ (loop' = "running" => Len(turns') = 1)
  BY <1>6, <1>10
<1>15. /\ Len(turns') >= 1 /\ Len(turns') <= MaxTurns + 1
       /\ (loop' = "running" => Len(turns') <= MaxTurns)
  BY <1>6, <1>11, <1>12
<1>16. turns' \in Seq(PairMats) /\ loop' \in {"running", "converged", "given up"}
  BY <1>6, <1>11
<1> QED BY <1>9, <1>13, <1>14, <1>15, <1>16 DEF LoopInv

\* The invariant holds at first.
LEMMA AlgebraInvInit == AlgebraInit => AlgebraInv
BY MatricesAre DEF AlgebraInit, KernelInit, DensityInit, AlgebraInv, KernelInv

\* Every step keeps it.
LEMMA AlgebraInvNext == AlgebraInv /\ [AlgebraNext]_algebraVars => AlgebraInv'
<1> SUFFICES ASSUME AlgebraInv, [AlgebraNext]_algebraVars PROVE AlgebraInv'
  OBVIOUS
<1>1. CASE KernelNext /\ UNCHANGED densityVars
  <2>1. KernelInv'
    <3>1. CASE Compare
      BY <3>1 DEF Compare, AlgebraInv, KernelInv, Elements
    <3>2. CASE Analyse
      BY <3>2, MatricesAre DEF Analyse, AlgebraInv, KernelInv, Elements
    <3> QED BY <1>1, <3>1, <3>2 DEF KernelNext
  <2>2. (loop = "idle" \/ LoopInv)'
    BY <1>1 DEF AlgebraInv, LoopInv, densityVars
  <2> QED BY <2>1, <2>2 DEF AlgebraInv
<1>2. CASE DensityNext /\ UNCHANGED kernelVars
  <2>1. KernelInv'
    BY <1>2 DEF AlgebraInv, KernelInv, kernelVars, Elements
  <2>2. LoopInv'
    <3>1. CASE converge_turn
      <4>1. loop = "running"
        BY <3>1 DEF converge_turn
      <4>2. LoopInv
        BY <4>1 DEF AlgebraInv
      <4> QED BY <3>1, <4>2, ConvergeTurns
    <3>2. CASE \E rho \in Matrices, u \in Unitaries : converge(rho, u)
      <4>1. PICK rho \in Matrices, u \in Unitaries : converge(rho, u)
        BY <3>2
      <4> QED BY <4>1, ConvergeStarts
    <3> QED BY <1>2, <3>1, <3>2 DEF DensityNext
  <2> QED BY <2>1, <2>2 DEF AlgebraInv
<1>3. CASE UNCHANGED algebraVars
  <2>1. KernelInv'
    BY <1>3 DEF AlgebraInv, KernelInv, algebraVars, kernelVars, Elements
  <2>2. (loop = "idle" \/ LoopInv)'
    BY <1>3 DEF AlgebraInv, LoopInv, algebraVars, densityVars
  <2> QED BY <2>1, <2>2 DEF AlgebraInv
<1> QED BY <1>1, <1>2, <1>3 DEF AlgebraNext

\* The invariant of the loop is stronger than the property.
LEMMA TraceImplied == AlgebraInv => TraceIsKept
<1> SUFFICES ASSUME LoopInv PROVE TraceIsKept
  BY DEF AlgebraInv, TraceIsKept
<1>1. /\ Len(turns) <= MaxTurns + 1
      /\ Conjugate(unitary, turns[1]) = turns[1] => loop # "given up" /\ Len(turns) <= 2
  BY DEF LoopInv
<1>2. \A k \in DOMAIN turns :
        /\ matrix_mult(unitary, transpose(unitary)) = Id => trace(turns[k]) = trace(turns[1])
        /\ transpose(turns[1]) = turns[1] => transpose(turns[k]) = turns[k]
        /\ matrix_mult(unitary, unitary) = Id => Mean(unitary, turns[k]) = Mean(unitary, turns[1])
  BY DEF LoopInv, KeptOf
<1> QED BY <1>1, <1>2 DEF TraceIsKept, Mean, Id

(***************************************************************************)
(* The spin factor.  All products of two elements and the identity are     *)
(* combinations of their vectors, so each law is one of polynomials.       *)
(***************************************************************************)

Vectors == [I -> Int]
IntElements == [alpha : Int, v : Vectors]

\* A dot product is an integer, and so are its terms.
LEMMA DotInt ==
  ASSUME NEW a \in Vectors, NEW b \in Vectors
  PROVE  dot_product(a, b) \in Int /\ \A i \in I : a[i] * b[i] \in Int
<1> DEFINE f == [i \in I |-> a[i] * b[i]]
<1>1. \A i \in I : a[i] \in Int /\ b[i] \in Int
  BY DEF Vectors
<1>2. \A i \in I : f[i] \in Int
  BY <1>1, ProductOf
<1>3. dot_product(a, b) = SumOver(f)
  BY DEF dot_product
<1>4. SumOver(f) \in Int
  <2> HIDE DEF f
  <2> QED BY <1>2, SumInt
<1> QED BY <1>2, <1>3, <1>4

\* The elements the products of x and y are made of: p + q x.v + r y.v.
Combined(x, y, p, q, r) == SpinFactor(p, [i \in I |-> q * x.v[i] + r * y.v[i]])

\* h is the products of the coordinates of q a + r b and m a + n b; and their sum.
Crossed(h, a, b, q, r, m, n) == \A i \in I : h[i] = (q * a[i] + r * b[i]) * (m * a[i] + n * b[i])
DotOf(a, b, q, r, m, n) ==
  (q * m) * dot_product(a, a) + (q * n + r * m) * dot_product(a, b) + (r * n) * dot_product(b, b)

\* Sums of products of coordinates, in the products of the two vectors.
LEMMA DotCombined ==
  ASSUME NEW a \in Vectors, NEW b \in Vectors, NEW q \in Int, NEW r \in Int, NEW m \in Int, NEW n \in Int,
         NEW h, Crossed(h, a, b, q, r, m, n)
  PROVE  SumOver(h) = DotOf(a, b, q, r, m, n)
<1> DEFINE aa == [i \in I |-> a[i] * a[i]]  ab == [i \in I |-> a[i] * b[i]]
           bb == [i \in I |-> b[i] * b[i]]
           c == q * m  d == q * n + r * m  e == r * n
           f == [i \in I |-> c * aa[i]]  g == [i \in I |-> d * ab[i]]  k == [i \in I |-> e * bb[i]]
           fg == [i \in I |-> f[i] + g[i]]
<1>1. c \in Int /\ d \in Int /\ e \in Int
  <2>1. q * n \in Int /\ r * m \in Int
    BY ProductOf
  <2> QED BY <2>1, ProductOf
<1>2. \A i \in I : aa[i] \in Int /\ ab[i] \in Int /\ bb[i] \in Int
  BY DotInt
<1>3. dot_product(a, a) = SumOver(aa) /\ dot_product(a, b) = SumOver(ab) /\ dot_product(b, b) = SumOver(bb)
  BY DEF dot_product
<1>4. ASSUME NEW i \in I
      PROVE  /\ f[i] \in Int /\ g[i] \in Int /\ k[i] \in Int
             /\ fg[i] = f[i] + g[i] /\ fg[i] \in Int /\ h[i] = fg[i] + k[i]
  <2> DEFINE s == a[i]  t == b[i]
  <2>1. s \in Int /\ t \in Int
    BY DEF Vectors
  <2>2. h[i] = (q * s + r * t) * (m * s + n * t)
    BY DEF Crossed
  <2>3. f[i] = (q * m) * (s * s) /\ g[i] = (q * n + r * m) * (s * t) /\ k[i] = (r * n) * (t * t)
        /\ fg[i] = f[i] + g[i]
    OBVIOUS
  <2>4. aa[i] \in Int /\ ab[i] \in Int /\ bb[i] \in Int /\ f[i] = c * aa[i] /\ g[i] = d * ab[i] /\ k[i] = e * bb[i]
    BY <1>2
  <2> HIDE DEF s, t, f, g, k, fg, aa, ab, bb, c, d, e
  <2>5. f[i] \in Int /\ g[i] \in Int /\ k[i] \in Int
    BY <1>1, <2>4, ProductOf
  <2>6. (q * s + r * t) * (m * s + n * t) = (q * m) * (s * s) + (q * n + r * m) * (s * t) + (r * n) * (t * t)
    BY <2>1
  <2> QED BY <2>2, <2>3, <2>5, <2>6
<1>5. SumOver(f) = c * SumOver(aa)
  <2>1. \A i \in I : aa[i] \in Int /\ f[i] = c * aa[i]
    BY <1>2
  <2> HIDE DEF f, aa, c
  <2> QED BY <1>1, <2>1, SumTimes
<1>6. SumOver(g) = d * SumOver(ab)
  <2>1. \A i \in I : ab[i] \in Int /\ g[i] = d * ab[i]
    BY <1>2
  <2> HIDE DEF g, ab, d
  <2> QED BY <1>1, <2>1, SumTimes
<1>7. SumOver(k) = e * SumOver(bb)
  <2>1. \A i \in I : bb[i] \in Int /\ k[i] = e * bb[i]
    BY <1>2
  <2> HIDE DEF k, bb, e
  <2> QED BY <1>1, <2>1, SumTimes
<1> HIDE DEF f, g, k, fg, aa, ab, bb, c, d, e
<1>8. SumOver(fg) = SumOver(f) + SumOver(g)
  BY <1>4, SumAdd
<1>9. SumOver(h) = SumOver(fg) + SumOver(k)
  BY <1>4, SumAdd
<1>10. SumOver(h) = c * dot_product(a, a) + d * dot_product(a, b) + e * dot_product(b, b)
  BY <1>3, <1>5, <1>6, <1>7, <1>8, <1>9
<1> QED BY <1>10 DEF c, d, e, DotOf

\* The product of two such elements is another.
LEMMA ProductCombined ==
  ASSUME NEW x \in IntElements, NEW y \in IntElements,
         NEW p \in Int, NEW q \in Int, NEW r \in Int, NEW l \in Int, NEW m \in Int, NEW n \in Int
  PROVE  product(Combined(x, y, p, q, r), Combined(x, y, l, m, n))
           = Combined(x, y, p * l + DotOf(x.v, y.v, q, r, m, n), p * m + l * q, p * n + l * r)
<1> DEFINE a == x.v  b == y.v  c == Combined(x, y, p, q, r)  d == Combined(x, y, l, m, n)
           h == [i \in I |-> c.v[i] * d.v[i]]
           s == DotOf(a, b, q, r, m, n)
<1>1. a \in Vectors /\ b \in Vectors
  BY DEF IntElements
<1>2. /\ c.alpha = p /\ d.alpha = l
      /\ \A i \in I : c.v[i] = q * a[i] + r * b[i] /\ d.v[i] = m * a[i] + n * b[i]
  BY DEF Combined, SpinFactor
<1>3. Crossed(h, a, b, q, r, m, n)
  BY <1>2 DEF Crossed
<1>4. product(c, d) = SpinFactor(p * l + SumOver(h), [i \in I |-> p * d.v[i] + l * c.v[i]])
  BY <1>2 DEF product
<1> HIDE DEF a, b, c, d, h
<1>5. SumOver(h) = s
  BY <1>1, <1>3, DotCombined
<1> HIDE DEF s
<1>6. ASSUME NEW i \in I
      PROVE  p * d.v[i] + l * c.v[i] = (p * m + l * q) * a[i] + (p * n + l * r) * b[i]
  <2> DEFINE v == a[i]  w == b[i]
  <2>1. v \in Int /\ w \in Int
    BY <1>1 DEF Vectors
  <2>2. d.v[i] = m * v + n * w /\ c.v[i] = q * v + r * w
    BY <1>2
  <2> HIDE DEF v, w
  <2>3. p * (m * v + n * w) + l * (q * v + r * w) = (p * m + l * q) * v + (p * n + l * r) * w
    BY <2>1
  <2> QED BY <2>2, <2>3 DEF v, w
<1>7. [i \in I |-> p * d.v[i] + l * c.v[i]]
        = [i \in I |-> (p * m + l * q) * a[i] + (p * n + l * r) * b[i]]
  BY <1>6
<1>8. product(c, d) = SpinFactor(p * l + s, [i \in I |-> (p * m + l * q) * a[i] + (p * n + l * r) * b[i]])
  BY <1>4, <1>5, <1>7
<1> QED BY <1>8 DEF a, b, c, d, s, Combined

\* x, y, the identity and zero are such elements.
LEMMA Generated ==
  ASSUME NEW x \in IntElements, NEW y \in IntElements
  PROVE  /\ x = Combined(x, y, x.alpha, 1, 0) /\ y = Combined(x, y, y.alpha, 0, 1)
         /\ identity = Combined(x, y, 1, 0, 0) /\ ZeroElement = Combined(x, y, 0, 0, 0)
<1>1. \A i \in I : x.v[i] \in Int /\ y.v[i] \in Int
  BY DEF IntElements, Vectors
<1>2. \A i \in I : /\ 1 * x.v[i] + 0 * y.v[i] = x.v[i] /\ 0 * x.v[i] + 1 * y.v[i] = y.v[i]
                   /\ 0 * x.v[i] + 0 * y.v[i] = 0
  BY <1>1
<1>3. x.v = [i \in I |-> x.v[i]] /\ y.v = [i \in I |-> y.v[i]]
  BY DEF IntElements, Vectors
<1>4. x.v = [i \in I |-> 1 * x.v[i] + 0 * y.v[i]] /\ y.v = [i \in I |-> 0 * x.v[i] + 1 * y.v[i]]
      /\ [i \in I |-> 0] = [i \in I |-> 0 * x.v[i] + 0 * y.v[i]]
  BY <1>2, <1>3
<1>5. x = [alpha |-> x.alpha, v |-> x.v] /\ y = [alpha |-> y.alpha, v |-> y.v]
  BY DEF IntElements
<1> QED BY <1>4, <1>5 DEF Combined, SpinFactor, identity, ZeroElement

\* The same, with names for the three numbers of the product.
LEMMA ProductIs ==
  ASSUME NEW x \in IntElements, NEW y \in IntElements,
         NEW p \in Int, NEW q \in Int, NEW r \in Int, NEW l \in Int, NEW m \in Int, NEW n \in Int,
         NEW s, s = p * l + ((q * m) * dot_product(x.v, x.v) + (q * n + r * m) * dot_product(x.v, y.v)
                              + (r * n) * dot_product(y.v, y.v)),
         NEW t, t = p * m + l * q, NEW u, u = p * n + l * r
  PROVE  product(Combined(x, y, p, q, r), Combined(x, y, l, m, n)) = Combined(x, y, s, t, u)
BY ProductCombined DEF DotOf

\* The products the laws of a Jordan algebra speak of.
LEMMA JordanProducts ==
  ASSUME NEW x \in IntElements, NEW y \in IntElements
  PROVE  /\ is_commutative_with(x, y) /\ product(x, identity) = x
         /\ is_associative_triple(x, y, x) /\ is_associative_triple(x, product(x, x), x)
         /\ product(x, ZeroElement) = ZeroElement
         /\ product(product(product(x, x), y), x) = product(product(x, x), product(y, x))
         /\ product(product(x, x), product(x, x)) = product(product(product(x, x), x), x)
         /\ product(x, x) = Combined(x, y, x.alpha * x.alpha + dot_product(x.v, x.v), 2 * x.alpha, 0)
<1> DEFINE a == x.alpha  b == y.alpha
           S == dot_product(x.v, x.v)  T == dot_product(x.v, y.v)  U == dot_product(y.v, y.v)
           E(p, q, r) == Combined(x, y, p, q, r)
           \* s + t x.v + u y.v is the product of p + q x.v + r y.v and l + m x.v + n y.v.
           P(p, q, r, l, m, n, s, t, u) ==
             /\ s = p * l + ((q * m) * S + (q * n + r * m) * T + (r * n) * U)
             /\ t = p * m + l * q /\ u = p * n + l * r
<1>0. a \in Int /\ b \in Int /\ S \in Int /\ T \in Int /\ U \in Int
  BY DotInt DEF IntElements
<1>1. ASSUME NEW p \in Int, NEW q \in Int, NEW r \in Int, NEW l \in Int, NEW m \in Int, NEW n \in Int,
             NEW s, NEW t, NEW u, P(p, q, r, l, m, n, s, t, u)
      PROVE  product(E(p, q, r), E(l, m, n)) = E(s, t, u)
  <2>1. /\ s = p * l + ((q * m) * S + (q * n + r * m) * T + (r * n) * U)
        /\ t = p * m + l * q /\ u = p * n + l * r
    BY <1>1
  <2> QED BY <2>1, ProductIs
<1>2. x = E(a, 1, 0) /\ y = E(b, 0, 1) /\ identity = E(1, 0, 0) /\ ZeroElement = E(0, 0, 0)
  BY Generated
<1> DEFINE xx == product(x, x)  xy == product(x, y)  yx == product(y, x)
<1> HIDE DEF a, b, S, T, U, E, P, xx, xy, yx
<1>3. xx = E(a * a + S, 2 * a, 0)
  <2> DEFINE p == a  q == 1  r == 0  l == a  m == 1  n == 0
             s == a * a + S
             t == 2 * a  u == 0
  <2>1. P(p, q, r, l, m, n, s, t, u)
    BY <1>0 DEF P
  <2>2. p \in Int /\ q \in Int /\ r \in Int /\ l \in Int /\ m \in Int /\ n \in Int
    BY <1>0
  <2>3. x = E(p, q, r) /\ x = E(l, m, n)
    BY <1>2
  <2> HIDE DEF p, q, r, l, m, n, s, t, u
  <2>4. product(E(p, q, r), E(l, m, n)) = E(s, t, u)
    BY <1>1, <2>1, <2>2
  <2> QED BY <2>3, <2>4 DEF s, t, u, xx
<1>4. xy = E(a * b + T, b, a)
  <2> DEFINE p == a  q == 1  r == 0  l == b  m == 0  n == 1
             s == a * b + T
             t == b  u == a
  <2>1. P(p, q, r, l, m, n, s, t, u)
    BY <1>0 DEF P
  <2>2. p \in Int /\ q \in Int /\ r \in Int /\ l \in Int /\ m \in Int /\ n \in Int
    BY <1>0
  <2>3. x = E(p, q, r) /\ y = E(l, m, n)
    BY <1>2
  <2> HIDE DEF p, q, r, l, m, n, s, t, u
  <2>4. product(E(p, q, r), E(l, m, n)) = E(s, t, u)
    BY <1>1, <2>1, <2>2
  <2> QED BY <2>3, <2>4 DEF s, t, u, xy
<1>5. yx = E(a * b + T, b, a)
  <2> DEFINE p == b  q == 0  r == 1  l == a  m == 1  n == 0
             s == a * b + T
             t == b  u == a
  <2>1. P(p, q, r, l, m, n, s, t, u)
    BY <1>0 DEF P
  <2>2. p \in Int /\ q \in Int /\ r \in Int /\ l \in Int /\ m \in Int /\ n \in Int
    BY <1>0
  <2>3. y = E(p, q, r) /\ x = E(l, m, n)
    BY <1>2
  <2> HIDE DEF p, q, r, l, m, n, s, t, u
  <2>4. product(E(p, q, r), E(l, m, n)) = E(s, t, u)
    BY <1>1, <2>1, <2>2
  <2> QED BY <2>3, <2>4 DEF s, t, u, yx
<1>6. product(x, identity) = E(a, 1, 0)
  <2> DEFINE p == a  q == 1  r == 0  l == 1  m == 0  n == 0
             s == a
             t == 1  u == 0
  <2>1. P(p, q, r, l, m, n, s, t, u)
    BY <1>0 DEF P
  <2>2. p \in Int /\ q \in Int /\ r \in Int /\ l \in Int /\ m \in Int /\ n \in Int
    BY <1>0
  <2>3. x = E(p, q, r) /\ identity = E(l, m, n)
    BY <1>2
  <2> HIDE DEF p, q, r, l, m, n, s, t, u
  <2>4. product(E(p, q, r), E(l, m, n)) = E(s, t, u)
    BY <1>1, <2>1, <2>2
  <2> QED BY <2>3, <2>4 DEF s, t, u
<1>7. product(x, ZeroElement) = E(0, 0, 0)
  <2> DEFINE p == a  q == 1  r == 0  l == 0  m == 0  n == 0
             s == 0
             t == 0  u == 0
  <2>1. P(p, q, r, l, m, n, s, t, u)
    BY <1>0 DEF P
  <2>2. p \in Int /\ q \in Int /\ r \in Int /\ l \in Int /\ m \in Int /\ n \in Int
    BY <1>0
  <2>3. x = E(p, q, r) /\ ZeroElement = E(l, m, n)
    BY <1>2
  <2> HIDE DEF p, q, r, l, m, n, s, t, u
  <2>4. product(E(p, q, r), E(l, m, n)) = E(s, t, u)
    BY <1>1, <2>1, <2>2
  <2> QED BY <2>3, <2>4 DEF s, t, u
<1>8. product(xy, x) = E((a * b + T) * a + b * S + a * T, 2 * (a * b) + T, a * a)
  <2> DEFINE p == a * b + T  q == b  r == a  l == a  m == 1  n == 0
             s == (a * b + T) * a + b * S + a * T
             t == 2 * (a * b) + T  u == a * a
  <2>1. P(p, q, r, l, m, n, s, t, u)
    BY <1>0 DEF P
  <2>2. p \in Int /\ q \in Int /\ r \in Int /\ l \in Int /\ m \in Int /\ n \in Int
    BY <1>0
  <2>3. xy = E(p, q, r) /\ x = E(l, m, n)
    BY <1>4, <1>2
  <2> HIDE DEF p, q, r, l, m, n, s, t, u
  <2>4. product(E(p, q, r), E(l, m, n)) = E(s, t, u)
    BY <1>1, <2>1, <2>2
  <2> QED BY <2>3, <2>4 DEF s, t, u
<1>9. product(x, yx) = E((a * b + T) * a + b * S + a * T, 2 * (a * b) + T, a * a)
  <2> DEFINE p == a  q == 1  r == 0  l == a * b + T  m == b  n == a
             s == (a * b + T) * a + b * S + a * T
             t == 2 * (a * b) + T  u == a * a
  <2>1. P(p, q, r, l, m, n, s, t, u)
    BY <1>0 DEF P
  <2>2. p \in Int /\ q \in Int /\ r \in Int /\ l \in Int /\ m \in Int /\ n \in Int
    BY <1>0
  <2>3. x = E(p, q, r) /\ yx = E(l, m, n)
    BY <1>2, <1>5
  <2> HIDE DEF p, q, r, l, m, n, s, t, u
  <2>4. product(E(p, q, r), E(l, m, n)) = E(s, t, u)
    BY <1>1, <2>1, <2>2
  <2> QED BY <2>3, <2>4 DEF s, t, u
<1>10. product(x, xx) = E(a * (a * a) + 3 * (a * S), 3 * (a * a) + S, 0)
  <2> DEFINE p == a  q == 1  r == 0  l == a * a + S  m == 2 * a  n == 0
             s == a * (a * a) + 3 * (a * S)
             t == 3 * (a * a) + S  u == 0
  <2>1. P(p, q, r, l, m, n, s, t, u)
    BY <1>0 DEF P
  <2>2. p \in Int /\ q \in Int /\ r \in Int /\ l \in Int /\ m \in Int /\ n \in Int
    BY <1>0
  <2>3. x = E(p, q, r) /\ xx = E(l, m, n)
    BY <1>2, <1>3
  <2> HIDE DEF p, q, r, l, m, n, s, t, u
  <2>4. product(E(p, q, r), E(l, m, n)) = E(s, t, u)
    BY <1>1, <2>1, <2>2
  <2> QED BY <2>3, <2>4 DEF s, t, u
<1>11. product(xx, x) = E(a * (a * a) + 3 * (a * S), 3 * (a * a) + S, 0)
  <2> DEFINE p == a * a + S  q == 2 * a  r == 0  l == a  m == 1  n == 0
             s == a * (a * a) + 3 * (a * S)
             t == 3 * (a * a) + S  u == 0
  <2>1. P(p, q, r, l, m, n, s, t, u)
    BY <1>0 DEF P
  <2>2. p \in Int /\ q \in Int /\ r \in Int /\ l \in Int /\ m \in Int /\ n \in Int
    BY <1>0
  <2>3. xx = E(p, q, r) /\ x = E(l, m, n)
    BY <1>3, <1>2
  <2> HIDE DEF p, q, r, l, m, n, s, t, u
  <2>4. product(E(p, q, r), E(l, m, n)) = E(s, t, u)
    BY <1>1, <2>1, <2>2
  <2> QED BY <2>3, <2>4 DEF s, t, u
<1>12. product(product(x, xx), x) = E((a * a + S) * (a * a + S) + (4 * (a * a)) * S, 4 * (a * (a * a + S)), 0)
  <2> DEFINE p == a * (a * a) + 3 * (a * S)  q == 3 * (a * a) + S  r == 0  l == a  m == 1  n == 0
             s == (a * a + S) * (a * a + S) + (4 * (a * a)) * S
             t == 4 * (a * (a * a + S))  u == 0
  <2>1. P(p, q, r, l, m, n, s, t, u)
    BY <1>0 DEF P
  <2>2. p \in Int /\ q \in Int /\ r \in Int /\ l \in Int /\ m \in Int /\ n \in Int
    BY <1>0
  <2>3. product(x, xx) = E(p, q, r) /\ x = E(l, m, n)
    BY <1>10, <1>2
  <2> HIDE DEF p, q, r, l, m, n, s, t, u
  <2>4. product(E(p, q, r), E(l, m, n)) = E(s, t, u)
    BY <1>1, <2>1, <2>2
  <2> QED BY <2>3, <2>4 DEF s, t, u
<1>13. product(x, product(xx, x)) = E((a * a + S) * (a * a + S) + (4 * (a * a)) * S, 4 * (a * (a * a + S)), 0)
  <2> DEFINE p == a  q == 1  r == 0  l == a * (a * a) + 3 * (a * S)  m == 3 * (a * a) + S  n == 0
             s == (a * a + S) * (a * a + S) + (4 * (a * a)) * S
             t == 4 * (a * (a * a + S))  u == 0
  <2>1. P(p, q, r, l, m, n, s, t, u)
    BY <1>0 DEF P
  <2>2. p \in Int /\ q \in Int /\ r \in Int /\ l \in Int /\ m \in Int /\ n \in Int
    BY <1>0
  <2>3. x = E(p, q, r) /\ product(xx, x) = E(l, m, n)
    BY <1>2, <1>11
  <2> HIDE DEF p, q, r, l, m, n, s, t, u
  <2>4. product(E(p, q, r), E(l, m, n)) = E(s, t, u)
    BY <1>1, <2>1, <2>2
  <2> QED BY <2>3, <2>4 DEF s, t, u
<1>14. product(xx, xx) = E((a * a + S) * (a * a + S) + (4 * (a * a)) * S, 4 * (a * (a * a + S)), 0)
  <2> DEFINE p == a * a + S  q == 2 * a  r == 0  l == a * a + S  m == 2 * a  n == 0
             s == (a * a + S) * (a * a + S) + (4 * (a * a)) * S
             t == 4 * (a * (a * a + S))  u == 0
  <2>1. P(p, q, r, l, m, n, s, t, u)
    BY <1>0 DEF P
  <2>2. p \in Int /\ q \in Int /\ r \in Int /\ l \in Int /\ m \in Int /\ n \in Int
    BY <1>0
  <2>3. xx = E(p, q, r) /\ xx = E(l, m, n)
    BY <1>3
  <2> HIDE DEF p, q, r, l, m, n, s, t, u
  <2>4. product(E(p, q, r), E(l, m, n)) = E(s, t, u)
    BY <1>1, <2>1, <2>2
  <2> QED BY <2>3, <2>4 DEF s, t, u
<1>15. product(product(xx, x), x) = E((a * a + S) * (a * a + S) + (4 * (a * a)) * S, 4 * (a * (a * a + S)), 0)
  <2> DEFINE p == a * (a * a) + 3 * (a * S)  q == 3 * (a * a) + S  r == 0  l == a  m == 1  n == 0
             s == (a * a + S) * (a * a + S) + (4 * (a * a)) * S
             t == 4 * (a * (a * a + S))  u == 0
  <2>1. P(p, q, r, l, m, n, s, t, u)
    BY <1>0 DEF P
  <2>2. p \in Int /\ q \in Int /\ r \in Int /\ l \in Int /\ m \in Int /\ n \in Int
    BY <1>0
  <2>3. product(xx, x) = E(p, q, r) /\ x = E(l, m, n)
    BY <1>11, <1>2
  <2> HIDE DEF p, q, r, l, m, n, s, t, u
  <2>4. product(E(p, q, r), E(l, m, n)) = E(s, t, u)
    BY <1>1, <2>1, <2>2
  <2> QED BY <2>3, <2>4 DEF s, t, u
<1>16. product(xx, y) = E((a * a + S) * b + 2 * (a * T), 2 * (a * b), a * a + S)
  <2> DEFINE p == a * a + S  q == 2 * a  r == 0  l == b  m == 0  n == 1
             s == (a * a + S) * b + 2 * (a * T)
             t == 2 * (a * b)  u == a * a + S
  <2>1. P(p, q, r, l, m, n, s, t, u)
    BY <1>0 DEF P
  <2>2. p \in Int /\ q \in Int /\ r \in Int /\ l \in Int /\ m \in Int /\ n \in Int
    BY <1>0
  <2>3. xx = E(p, q, r) /\ y = E(l, m, n)
    BY <1>3, <1>2
  <2> HIDE DEF p, q, r, l, m, n, s, t, u
  <2>4. product(E(p, q, r), E(l, m, n)) = E(s, t, u)
    BY <1>1, <2>1, <2>2
  <2> QED BY <2>3, <2>4 DEF s, t, u
<1>17. product(product(xx, y), x) = E(((a * a + S) * b + 2 * (a * T)) * a + (2 * (a * b)) * S + (a * a + S) * T, (a * a + S) * b + 2 * (a * T) + (2 * (a * b)) * a, (a * a + S) * a)
  <2> DEFINE p == (a * a + S) * b + 2 * (a * T)  q == 2 * (a * b)  r == a * a + S  l == a  m == 1  n == 0
             s == ((a * a + S) * b + 2 * (a * T)) * a + (2 * (a * b)) * S + (a * a + S) * T
             t == (a * a + S) * b + 2 * (a * T) + (2 * (a * b)) * a  u == (a * a + S) * a
  <2>1. P(p, q, r, l, m, n, s, t, u)
    BY <1>0 DEF P
  <2>2. p \in Int /\ q \in Int /\ r \in Int /\ l \in Int /\ m \in Int /\ n \in Int
    BY <1>0
  <2>3. product(xx, y) = E(p, q, r) /\ x = E(l, m, n)
    BY <1>16, <1>2
  <2> HIDE DEF p, q, r, l, m, n, s, t, u
  <2>4. product(E(p, q, r), E(l, m, n)) = E(s, t, u)
    BY <1>1, <2>1, <2>2
  <2> QED BY <2>3, <2>4 DEF s, t, u
<1>18. product(xx, yx) = E(((a * a + S) * b + 2 * (a * T)) * a + (2 * (a * b)) * S + (a * a + S) * T, (a * a + S) * b + 2 * (a * T) + (2 * (a * b)) * a, (a * a + S) * a)
  <2> DEFINE p == a * a + S  q == 2 * a  r == 0  l == a * b + T  m == b  n == a
             s == ((a * a + S) * b + 2 * (a * T)) * a + (2 * (a * b)) * S + (a * a + S) * T
             t == (a * a + S) * b + 2 * (a * T) + (2 * (a * b)) * a  u == (a * a + S) * a
  <2>1. P(p, q, r, l, m, n, s, t, u)
    BY <1>0 DEF P
  <2>2. p \in Int /\ q \in Int /\ r \in Int /\ l \in Int /\ m \in Int /\ n \in Int
    BY <1>0
  <2>3. xx = E(p, q, r) /\ yx = E(l, m, n)
    BY <1>3, <1>5
  <2> HIDE DEF p, q, r, l, m, n, s, t, u
  <2>4. product(E(p, q, r), E(l, m, n)) = E(s, t, u)
    BY <1>1, <2>1, <2>2
  <2> QED BY <2>3, <2>4 DEF s, t, u
<1>19. /\ xy = yx /\ product(x, identity) = x
       /\ product(xy, x) = product(x, yx) /\ product(product(x, xx), x) = product(x, product(xx, x))
       /\ product(x, ZeroElement) = ZeroElement
       /\ product(product(xx, y), x) = product(xx, yx)
       /\ product(xx, xx) = product(product(xx, x), x)
  BY <1>2, <1>4, <1>5, <1>6, <1>7, <1>8, <1>9, <1>12, <1>13, <1>14, <1>15, <1>17, <1>18
<1> QED BY <1>3, <1>19 DEF xx, xy, yx, E, a, S, is_commutative_with, is_associative_triple

\* Subtracting undoes adding.
LEMMA SumThenLess ==
  ASSUME NEW x \in IntElements, NEW y \in IntElements
  PROVE  spin_sub(spin_add(x, y), y) = x
<1>1. \A i \in I : x.v[i] \in Int /\ y.v[i] \in Int
  BY DEF IntElements, Vectors
<1>2. x = [alpha |-> x.alpha, v |-> x.v] /\ x.v = [i \in I |-> x.v[i]]
      /\ x.alpha \in Int /\ y.alpha \in Int
  BY DEF IntElements, Vectors
<1> DEFINE v == [i \in I |-> (x.v[i] + y.v[i]) + (-1) * y.v[i]]
<1>3. spin_sub(spin_add(x, y), y) = [alpha |-> (x.alpha + y.alpha) + (-1) * y.alpha, v |-> v]
  BY DEF spin_sub, spin_add, scale, SpinFactor
<1>4. v = x.v
  <2>1. \A i \in I : v[i] = x.v[i]
    BY <1>1
  <2> QED BY <1>2, <2>1
<1>5. (x.alpha + y.alpha) + (-1) * y.alpha = x.alpha
  BY <1>2
<1> QED BY <1>2, <1>3, <1>4, <1>5

\* Half an element is idempotent when it is 0, 1, or (1 + u) / 2 for a unit u.
LEMMA HalfIdempotents ==
  ASSUME NEW x \in IntElements
  PROVE  half_is_idempotent(x) <=>
           \/ x \in {ZeroElement, scale(identity, 2)}
           \/ x.alpha = 1 /\ SumOver([i \in I |-> x.v[i] * x.v[i]]) = 1
<1> DEFINE a == x.alpha  S == SumOver([i \in I |-> x.v[i] * x.v[i]])
<1>0. S = dot_product(x.v, x.v)
  BY DEF dot_product
<1>1. a \in Int /\ x.v \in Vectors /\ S \in Int /\ \A i \in I : x.v[i] \in Int
  BY <1>0, DotInt DEF IntElements, Vectors
<1>2. product(x, x) = [alpha |-> a * a + S, v |-> [i \in I |-> a * x.v[i] + a * x.v[i]]]
  BY DEF product, SpinFactor
<1>3. scale(x, 2) = [alpha |-> 2 * a, v |-> [i \in I |-> 2 * x.v[i]]]
  BY DEF scale, SpinFactor
<1>4. scale(identity, 2) = [alpha |-> 2, v |-> [i \in I |-> 0]]
  <2>1. [i \in I |-> 2 * [j \in I |-> 0][i]] = [i \in I |-> 0]
    OBVIOUS
  <2> QED BY <2>1 DEF scale, identity, SpinFactor
<1>5. x = [alpha |-> a, v |-> x.v] /\ x.v = [i \in I |-> x.v[i]]
  BY DEF IntElements, Vectors
<1>6. half_is_idempotent(x) <=> a * a + S = 2 * a /\ \A i \in I : a * x.v[i] + a * x.v[i] = 2 * x.v[i]
  <2> DEFINE f == [i \in I |-> a * x.v[i] + a * x.v[i]]  g == [i \in I |-> 2 * x.v[i]]
  <2>1. f = g <=> \A i \in I : f[i] = g[i]
    OBVIOUS
  <2>2. half_is_idempotent(x) <=> a * a + S = 2 * a /\ f = g
    <3>1. product(x, x) = [alpha |-> a * a + S, v |-> f] /\ scale(x, 2) = [alpha |-> 2 * a, v |-> g]
      BY <1>2, <1>3
    <3> HIDE DEF f, g, S, a
    <3> QED BY <3>1 DEF half_is_idempotent
  <2> QED BY <2>1, <2>2
<1>7. (\A i \in I : x.v[i] = 0) => S = 0
  <2> DEFINE f == [i \in I |-> x.v[i] * x.v[i]]
  <2> SUFFICES ASSUME \A i \in I : x.v[i] = 0 PROVE SumOver(f) = 0
    OBVIOUS
  <2>1. \A i \in I : f[i] = 0
    OBVIOUS
  <2> HIDE DEF f
  <2> QED BY <2>1, SumZero
<1>8. x \in {ZeroElement, scale(identity, 2)} <=> a \in {0, 2} /\ \A i \in I : x.v[i] = 0
  <2>1. x.v = [i \in I |-> 0] <=> \A i \in I : x.v[i] = 0
    BY <1>5
  <2> QED BY <1>4, <1>5, <2>1 DEF ZeroElement
<1> HIDE DEF a, S
<1>9. CASE a = 1
  <2>1. \A i \in I : a * x.v[i] + a * x.v[i] = 2 * x.v[i]
    BY <1>1, <1>9
  <2>2. a * a + S = 2 * a <=> S = 1
    BY <1>1, <1>9
  <2>3. ~ (a \in {0, 2})
    BY <1>9
  <2> QED BY <1>6, <1>8, <1>9, <2>1, <2>2, <2>3 DEF a, S
<1>10. CASE a # 1
  <2>1. ASSUME NEW i \in I PROVE a * x.v[i] + a * x.v[i] = 2 * x.v[i] <=> x.v[i] = 0
    <3> DEFINE w == x.v[i]
    <3>1. w \in Int
      BY <1>1
    <3> HIDE DEF w
    <3>2. (a - 1) * w = 0 <=> w = 0
      BY <1>1, <1>10, <3>1
    <3>3. a * w + a * w = 2 * w <=> (a - 1) * w = 0
      BY <1>1, <3>1
    <3> QED BY <3>2, <3>3 DEF w
  <2>2. half_is_idempotent(x) <=> a * a + S = 2 * a /\ \A i \in I : x.v[i] = 0
    BY <1>6, <2>1
  <2>3. S = 0 => (a * a + S = 2 * a <=> a \in {0, 2})
    <3>1. a * (a - 2) = 0 <=> a \in {0, 2}
      BY <1>1
    <3>2. S = 0 => (a * a + S = 2 * a <=> a * (a - 2) = 0)
      BY <1>1
    <3> QED BY <3>1, <3>2
  <2> QED BY <1>7, <1>8, <1>10, <2>2, <2>3 DEF a
<1> QED BY <1>9, <1>10

\* The two products of the three elements of the test differ in their first coordinate.
LEMMA NotAssociative ==
  Dim2 >= 2 => demonstrate_non_associativity[1] # demonstrate_non_associativity[2]
<1> SUFFICES ASSUME Dim2 >= 2 PROVE demonstrate_non_associativity[1] # demonstrate_non_associativity[2]
  OBVIOUS
<1> DEFINE Vec(a, b) == [i \in I |-> IF i = 1 THEN a ELSE IF i = 2 THEN b ELSE 0]
           x == SpinFactor(1, Vec(1, 0))  y == SpinFactor(0, Vec(0, 1))  z == SpinFactor(1, Vec(1, 1))
           xy == product(x, y)  yz == product(y, z)  l == product(xy, z)  r == product(x, yz)
           f == [i \in I |-> x.v[i] * y.v[i]]  g == [i \in I |-> y.v[i] * z.v[i]]
<1>0. 1 \in I /\ 2 \in I
  BY KernelBounds DEF I
<1>1. demonstrate_non_associativity = << l, r >>
  BY DEF demonstrate_non_associativity
<1>2. /\ x.alpha = 1 /\ y.alpha = 0 /\ z.alpha = 1 /\ x.v[1] = 1 /\ y.v[1] = 0 /\ z.v[1] = 1
      /\ y.v[2] = 1 /\ z.v[2] = 1
      /\ \A i \in I : x.v[i] \in {0, 1} /\ (i # 1 => x.v[i] = 0)
      /\ \A i \in I : y.v[i] \in {0, 1} /\ (i # 2 => y.v[i] = 0)
      /\ \A i \in I : z.v[i] \in {0, 1}
  BY <1>0 DEF SpinFactor
<1>3. /\ xy = SpinFactor(x.alpha * y.alpha + SumOver(f), [i \in I |-> x.alpha * y.v[i] + y.alpha * x.v[i]])
      /\ yz = SpinFactor(y.alpha * z.alpha + SumOver(g), [i \in I |-> y.alpha * z.v[i] + z.alpha * y.v[i]])
      /\ l.v = [i \in I |-> xy.alpha * z.v[i] + z.alpha * xy.v[i]]
      /\ r.v = [i \in I |-> x.alpha * yz.v[i] + yz.alpha * x.v[i]]
  BY DEF product, SpinFactor
<1> HIDE DEF x, y, z
<1>4. \A i \in I : f[i] = 0
  BY <1>2
<1>5. g[2] = 1 /\ g[2] \in Int /\ \A i \in I : i # 2 => g[i] = 0
  BY <1>0, <1>2
<1> HIDE DEF f, g, l, r, xy, yz
<1>6. SumOver(f) = 0 /\ SumOver(g) = 1
  BY <1>0, <1>4, <1>5, SumZero, SumOne
<1>7. xy.alpha = 0 /\ xy.v[1] = 0 /\ yz.alpha = 1 /\ yz.v[1] = 0
  BY <1>0, <1>2, <1>3, <1>6 DEF SpinFactor
<1>8. l.v[1] = 0 /\ r.v[1] = 1
  BY <1>0, <1>2, <1>3, <1>7
<1> QED BY <1>1, <1>8

\* The laws hold of any two elements of integers.
LEMMA JordanImplied ==
  ASSUME element \in IntElements, other \in IntElements
  PROVE  SpinFactorIsJordan
<1> DEFINE x == element  y == other
<1>1. x \in IntElements /\ y \in IntElements
  OBVIOUS
<1> HIDE DEF x, y
<1>2. /\ is_commutative_with(x, y) /\ product(x, identity) = x
      /\ is_associative_triple(x, y, x) /\ is_associative_triple(x, product(x, x), x)
      /\ product(x, ZeroElement) = ZeroElement
      /\ product(product(product(x, x), y), x) = product(product(x, x), product(y, x))
      /\ product(product(x, x), product(x, x)) = product(product(product(x, x), x), x)
  BY <1>1, JordanProducts
<1>3. spin_sub(spin_add(x, y), y) = x
  BY <1>1, SumThenLess
<1>4. half_is_idempotent(x) <=>
        \/ x \in {ZeroElement, scale(identity, 2)}
        \/ x.alpha = 1 /\ SumOver([i \in I |-> x.v[i] * x.v[i]]) = 1
  BY <1>1, HalfIdempotents
<1> QED BY <1>2, <1>3, <1>4, NotAssociative DEF SpinFactorIsJordan, x, y

(***************************************************************************)
(* The search for an idempotent, the gap and the lens; the degrees; the    *)
(* pairs of idempotents.                                                   *)
(***************************************************************************)

\* p[m] is the m-th square of a.
Squares(p, a, n) ==
  p \in [0 .. n -> Mats] /\ p[0] = a /\ \A m \in 1 .. n : p[m] = matrix_mult(p[m - 1], p[m - 1])

\* There is a sequence of squares, and Power2 is its last.
LEMMA PowersExist ==
  ASSUME NEW a \in Mats, NEW n \in Nat
  PROVE  \E p : Squares(p, a, n) /\ Power2(a, n) = p[n]
<1> DEFINE V(p) == p = [m \in 0 .. n |-> IF m = 0 THEN a ELSE matrix_mult(p[m - 1], p[m - 1])]
           u == CHOOSE p : V(p)
           G == [m \in 1 .. n |-> [x \in Mats |-> matrix_mult(x, x)]]
<1>1. Power2(a, n) = u[n]
  BY DEF Power2
<1>2. \A m \in 1 .. n : \A x \in Mats : G[m][x] = matrix_mult(x, x) /\ G[m][x] \in Mats
  BY MultIs
<1>3. PICK p \in [0 .. n -> Mats] : Steps(p, n, a, G)
  <2> DEFINE D == Mats
  <2>1. a \in D /\ \A i \in 1 .. n : \A x \in D : G[i][x] \in D
    BY <1>2
  <2> HIDE DEF G, D
  <2>2. \E p \in [0 .. n -> D] : Steps(p, n, a, G)
    BY <2>1, StepsExist
  <2> QED BY <2>2 DEF D
<1>4. V(p)
  <2>1. p = [m \in 0 .. n |-> IF m = 0 THEN a ELSE G[m][p[m - 1]]]
    BY <1>3 DEF Steps
  <2>2. ASSUME NEW m \in 0 .. n, m # 0 PROVE G[m][p[m - 1]] = matrix_mult(p[m - 1], p[m - 1])
    <3>1. m \in 1 .. n /\ m - 1 \in 0 .. n
      BY <2>2
    <3>2. p[m - 1] \in Mats
      BY <1>3, <3>1
    <3> HIDE DEF G
    <3> QED BY <1>2, <3>1, <3>2
  <2> HIDE DEF G
  <2> QED BY <2>1, <2>2
<1>5. V(u)
  <2> HIDE DEF V
  <2> QED BY <1>4
<1> HIDE DEF u, G
<1>6. \A m \in 0 .. n : u[m] = IF m = 0 THEN a ELSE matrix_mult(u[m - 1], u[m - 1])
  BY <1>5
<1>7. u[0] = a /\ \A m \in 1 .. n : u[m] = matrix_mult(u[m - 1], u[m - 1])
  BY <1>6
<1>8. \A m \in 0 .. n : u[m] \in Mats
  <2> DEFINE S == {m \in 0 .. n : u[m] \in Mats}
  <2>1. 0 \in S
    BY <1>7
  <2>2. ASSUME NEW m \in 0 .. n - 1, m \in S PROVE m + 1 \in S
    <3>1. m + 1 \in 1 .. n /\ m + 1 \in 0 .. n /\ (m + 1) - 1 = m
      OBVIOUS
    <3>2. u[m + 1] = matrix_mult(u[m], u[m])
      BY <1>7, <3>1
    <3>3. u[m + 1] \in Mats
      BY <2>2, <3>2, MultIs
    <3> QED BY <3>1, <3>3
  <2>3. \A m \in 0 .. n : m \in S
    <3> HIDE DEF S
    <3> QED BY <2>1, <2>2, UpTo
  <2> QED BY <2>3
<1>9. u = [m \in 0 .. n |-> u[m]]
  <2>1. DOMAIN u = 0 .. n /\ u = [m \in 0 .. n |-> IF m = 0 THEN a ELSE matrix_mult(u[m - 1], u[m - 1])]
    BY <1>5
  <2> HIDE DEF V
  <2>2. \A m \in 0 .. n : u[m] = IF m = 0 THEN a ELSE matrix_mult(u[m - 1], u[m - 1])
    BY <1>6
  <2> QED BY <2>1, <2>2
<1> HIDE DEF V
<1>10. u \in [0 .. n -> Mats]
  BY <1>8, <1>9
<1> QED BY <1>1, <1>7, <1>10 DEF Squares

\* One more squaring.
LEMMA PowerSteps ==
  ASSUME NEW a \in Mats
  PROVE  /\ Power2(a, 0) = a
         /\ \A n \in Nat : /\ Power2(a, n) \in Mats
                           /\ Power2(a, n + 1) = matrix_mult(Power2(a, n), Power2(a, n))
<1>1. Power2(a, 0) = a
  <2>1. PICK p : Squares(p, a, 0) /\ Power2(a, 0) = p[0]
    BY PowersExist
  <2> QED BY <2>1 DEF Squares
<1>2. ASSUME NEW n \in Nat
      PROVE  Power2(a, n) \in Mats /\ Power2(a, n + 1) = matrix_mult(Power2(a, n), Power2(a, n))
  <2>1. PICK p : Squares(p, a, n) /\ Power2(a, n) = p[n]
    BY PowersExist
  <2>2. n + 1 \in Nat
    OBVIOUS
  <2>3. PICK q : Squares(q, a, n + 1) /\ Power2(a, n + 1) = q[n + 1]
    <3> DEFINE l == n + 1
    <3>1. \E q : Squares(q, a, l) /\ Power2(a, l) = q[l]
      <4> HIDE DEF l
      <4>1. l \in Nat
        BY <2>2 DEF l
      <4> QED BY <4>1, PowersExist
    <3> QED BY <3>1
  <2> DEFINE S == {m \in 0 .. n : p[m] = q[m]}
  <2>4. 0 \in S
    BY <2>1, <2>3 DEF Squares
  <2>5. ASSUME NEW m \in 0 .. n - 1, m \in S PROVE m + 1 \in S
    <3>1. m + 1 \in 1 .. n /\ m + 1 \in 1 .. n + 1 /\ (m + 1) - 1 = m /\ m + 1 \in 0 .. n
      OBVIOUS
    <3>2. p[m + 1] = matrix_mult(p[m], p[m]) /\ q[m + 1] = matrix_mult(q[m], q[m])
      BY <2>1, <2>3, <3>1 DEF Squares
    <3> QED BY <2>5, <3>1, <3>2
  <2>6. \A m \in 0 .. n : m \in S
    <3> HIDE DEF S
    <3> QED BY <2>4, <2>5, UpTo
  <2>7. n \in 0 .. n /\ n + 1 \in 1 .. n + 1 /\ (n + 1) - 1 = n
    OBVIOUS
  <2>8. q[n] = p[n] /\ q[n + 1] = matrix_mult(q[n], q[n]) /\ p[n] \in Mats
    <3>1. q[n + 1] = matrix_mult(q[n], q[n])
      BY <2>3, <2>7 DEF Squares
    <3> QED BY <2>1, <2>6, <2>7, <3>1 DEF Squares
  <2> QED BY <2>1, <2>3, <2>8
<1> QED BY <1>1, <1>2

\* A matrix commutes with what its squares are.
LEMMA PowersCommute ==
  ASSUME NEW a \in Mats, NEW n \in Nat
  PROVE  matrix_mult(Power2(a, n), a) = matrix_mult(a, Power2(a, n))
<1> DEFINE S == {m \in 0 .. n : matrix_mult(Power2(a, m), a) = matrix_mult(a, Power2(a, m))}
<1>1. 0 \in S
  BY PowerSteps
<1>2. ASSUME NEW m \in 0 .. n - 1, m \in S PROVE m + 1 \in S
  <2> DEFINE p == Power2(a, m)
  <2>1. m \in Nat /\ m + 1 \in 0 .. n
    OBVIOUS
  <2>2. p \in Mats /\ Power2(a, m + 1) = matrix_mult(p, p) /\ matrix_mult(p, a) = matrix_mult(a, p)
    BY <1>2, <2>1, PowerSteps
  <2> HIDE DEF p
  <2>3. matrix_mult(matrix_mult(p, p), a) = matrix_mult(p, matrix_mult(p, a))
    BY <2>2, MultAssoc
  <2>4. matrix_mult(matrix_mult(p, a), p) = matrix_mult(p, matrix_mult(a, p))
    BY <2>2, MultAssoc
  <2>5. matrix_mult(matrix_mult(a, p), p) = matrix_mult(a, matrix_mult(p, p))
    BY <2>2, MultAssoc
  <2> QED BY <2>1, <2>2, <2>3, <2>4, <2>5
<1>3. \A m \in 0 .. n : m \in S
  <2> HIDE DEF S
  <2> QED BY <1>1, <1>2, UpTo
<1> QED BY <1>3

\* What the search for an idempotent finds, and what it means that it finds none.
LEMMA SearchIs ==
  ASSUME NEW a \in Mats
  PROVE  LET k == hk_jordan_converge_idempotent(a) IN
         /\ k >= 0 =>
              /\ matrix_mult(Power2(a, k), Power2(a, k)) = Power2(a, k)
              /\ matrix_mult(Power2(a, k), a) = matrix_mult(a, Power2(a, k))
              /\ \A n \in k .. MaxIter : Power2(a, n) = Power2(a, k)
              /\ k > 0 => matrix_mult(Power2(a, k - 1), Power2(a, k - 1)) # Power2(a, k - 1)
         /\ k = -1 => \A n \in 0 .. MaxIter - 1 : Power2(a, n) # Power2(a, n + 1)
<1> DEFINE done == {n \in 0 .. MaxIter - 1 : Power2(a, n + 1) = Power2(a, n)}
           k == hk_jordan_converge_idempotent(a)  e == Power2(a, k)
<1>0. MaxIter \in Nat /\ done \in SUBSET Nat
  BY KernelBounds
<1>1. k = IF done = {} THEN -1 ELSE Min(done)
  BY DEF hk_jordan_converge_idempotent
<1>2. done # {} => Min(done) \in done /\ \A j \in done : Min(done) <= j
  <2> HIDE DEF done
  <2> QED BY <1>0, MinIsLeast
<1>3. CASE done = {}
  <2>1. k = -1
    BY <1>1, <1>3
  <2>2. \A n \in 0 .. MaxIter - 1 : Power2(a, n) # Power2(a, n + 1)
    BY <1>3
  <2> HIDE DEF k
  <2> QED BY <2>1, <2>2 DEF k
<1>4. CASE done # {}
  <2>1. k \in done /\ \A j \in done : k <= j
    BY <1>1, <1>2, <1>4
  <2> HIDE DEF k
  <2>2. k \in 0 .. MaxIter - 1 /\ k \in Nat /\ Power2(a, k + 1) = e
    BY <1>0, <2>1
  <2>3. e \in Mats /\ matrix_mult(e, e) = e
    BY <2>2, PowerSteps
  <2>4. matrix_mult(e, a) = matrix_mult(a, e)
    BY <2>2, PowersCommute
  <2>5. \A n \in k .. MaxIter : Power2(a, n) = e
    <3> DEFINE N == MaxIter - k  S == {m \in 0 .. N : Power2(a, k + m) = e}
    <3>1. N \in Nat
      BY <1>0, <2>2
    <3>2. 0 \in S
      BY <2>2, <3>1
    <3>3. ASSUME NEW m \in 0 .. N - 1, m \in S PROVE m + 1 \in S
      <4>1. k + m \in Nat /\ m + 1 \in 0 .. N /\ k + (m + 1) = (k + m) + 1
        BY <1>0, <2>2, <3>1
      <4>2. Power2(a, (k + m) + 1) = matrix_mult(Power2(a, k + m), Power2(a, k + m))
        BY <4>1, PowerSteps
      <4> QED BY <2>3, <3>3, <4>1, <4>2
    <3>4. \A m \in 0 .. N : m \in S
      <4> HIDE DEF N, S
      <4> QED BY <3>1, <3>2, <3>3, UpTo
    <3>5. ASSUME NEW n \in k .. MaxIter PROVE Power2(a, n) = e
      <4>1. n - k \in 0 .. N /\ k + (n - k) = n
        BY <1>0, <2>2
      <4> QED BY <3>4, <4>1
    <3> QED BY <3>5
  <2>6. k > 0 => matrix_mult(Power2(a, k - 1), Power2(a, k - 1)) # Power2(a, k - 1)
    <3> SUFFICES ASSUME k > 0 PROVE matrix_mult(Power2(a, k - 1), Power2(a, k - 1)) # Power2(a, k - 1)
      OBVIOUS
    <3> DEFINE l == k - 1
    <3>1. l \in Nat /\ l \in 0 .. MaxIter - 1 /\ ~ (k <= l) /\ l + 1 = k
      BY <1>0, <2>2
    <3>2. l \notin done
      BY <2>1, <3>1
    <3> HIDE DEF l
    <3>3. Power2(a, l + 1) # Power2(a, l)
      BY <3>1, <3>2
    <3>4. Power2(a, l + 1) = matrix_mult(Power2(a, l), Power2(a, l))
      BY <3>1, PowerSteps
    <3> QED BY <3>3, <3>4 DEF l
  <2>7. k # -1
    BY <2>2
  <2> QED BY <2>3, <2>4, <2>5, <2>6, <2>7 DEF k
<1> QED BY <1>3, <1>4

\* What a magnitude is.
LEMMA MagIs ==
  ASSUME NEW x \in Int
  PROVE  Mag(x) \in Nat /\ (Mag(x) < 1 <=> x = 0)
BY DEF Mag

\* The gap lies within the radius, and is all of it when the magnitudes agree.
LEMMA GapIs ==
  ASSUME NEW a \in Mats
  PROVE  LET f == hk_jordan_transform(a) IN
         /\ f.spectral_gap \in 0 .. f.spectral_radius
         /\ Dim2 >= 2 /\ (\A i \in I : Mag(a[i][i]) = f.spectral_radius)
              => f.spectral_gap = f.spectral_radius
<1> DEFINE eigs == {Mag(a[i][i]) : i \in I}  top == Max(eigs)  rest == {0} \cup (eigs \ {top})
           m == [i \in I |-> Mag(a[i][i])]  N == SumOver(m)  f == hk_jordan_transform(a)
           gap == IF Dim2 >= 2 THEN top - Max(rest) ELSE 0
<1>1. 1 \in I
  BY KernelBounds DEF I
<1>2. \A i \in I : m[i] \in Nat
  BY MatEntries, MagIs
<1>3. N \in Nat /\ \A i \in I : m[i] <= N
  <2> HIDE DEF m
  <2> QED BY <1>2, SumBounds
<1>4. eigs \in SUBSET (0 .. N) /\ eigs # {}
  <2>1. \A i \in I : m[i] \in 0 .. N
    BY <1>2, <1>3
  <2> HIDE DEF N
  <2> QED BY <1>1, <2>1
<1> HIDE DEF N
<1>5. top \in eigs /\ \A j \in eigs : j <= top
  <2> HIDE DEF eigs
  <2> QED BY <1>3, <1>4, MaxIsGreatest
<1>6. rest \in SUBSET (0 .. N) /\ 0 \in rest /\ rest # {}
  BY <1>3, <1>4
<1>7. Max(rest) \in rest /\ \A j \in rest : j <= Max(rest)
  <2> HIDE DEF rest
  <2> QED BY <1>3, <1>6, MaxIsGreatest
<1>8. f.spectral_radius = top /\ f.spectral_gap = gap
  BY DEF hk_jordan_transform
<1>9. top \in 0 .. N
  BY <1>4, <1>5
<1>10. gap \in 0 .. top
  <2>1. Max(rest) = 0 \/ Max(rest) \in eigs
    <3> HIDE DEF eigs, top
    <3> QED BY <1>7
  <2>2. Max(rest) \in 0 .. top
    <3> HIDE DEF top, eigs, rest
    <3>1. \A j \in eigs : j \in 0 .. N /\ j <= top
      BY <1>4, <1>5
    <3> QED BY <1>3, <1>9, <2>1, <3>1
  <2> HIDE DEF top, rest
  <2> QED BY <1>3, <1>9, <2>2
<1>11. ASSUME Dim2 >= 2, \A i \in I : Mag(a[i][i]) = top PROVE gap = top
  <2>1. eigs = {top}
    <3>1. \A j \in eigs : j = top
      <4> HIDE DEF top
      <4> QED BY <1>11
    <3> HIDE DEF eigs, top
    <3> QED BY <1>5, <3>1
  <2>2. rest = {0}
    <3> HIDE DEF eigs, top
    <3> QED BY <2>1
  <2>3. Max(rest) = 0
    <3> HIDE DEF rest
    <3> QED BY <1>7, <2>2
  <2> HIDE DEF top, rest
  <2> QED BY <1>3, <1>9, <1>11, <2>3
<1> HIDE DEF f, gap, top
<1>12. f.spectral_gap \in 0 .. f.spectral_radius
  BY <1>8, <1>10
<1>13. Dim2 >= 2 /\ (\A i \in I : Mag(a[i][i]) = f.spectral_radius) => f.spectral_gap = f.spectral_radius
  BY <1>8, <1>11
<1> QED BY <1>12, <1>13 DEF f

\* Where no column is dead, each has an entry above one.
LEMMA InvertibleIs ==
  ASSUME NEW a \in Mats, hk_jacobian_locally_invertible(a)
  PROVE  \A c \in I : \E r \in I : Mag(a[r][c]) > 1
<1> DEFINE D == {c \in I : \A r \in I : ~(Mag(jacobian(a)[r][c]) > 1)}
<1>1. Cardinality(D) = 0
  BY DEF hk_jacobian_locally_invertible, hk_jacobian_lens
<1>2. I = 1 .. Dim2 /\ 1 \in Int /\ Dim2 \in Int
  BY KernelBounds DEF I
<1>3. IsFiniteSet(I)
  BY <1>2, FS_Interval
<1>4. D \in SUBSET I
  OBVIOUS
<1>5. IsFiniteSet(D)
  <2> HIDE DEF D
  <2> QED BY <1>3, <1>4, FS_Subset
<1>6. D = {}
  <2> HIDE DEF D
  <2> QED BY <1>1, <1>5, FS_EmptySet
<1>7. ASSUME NEW c \in I, NEW r \in I, Mag(jacobian(a)[r][c]) > 1 PROVE Mag(a[r][c]) > 1
  <2>1. jacobian(a)[r][c] = IF Mag(a[r][c]) < 1 THEN 1 ELSE a[r][c]
    BY DEF jacobian
  <2>2. ~ (Mag(1) > 1)
    BY DEF Mag
  <2> QED BY <1>7, <2>1, <2>2
<1>8. \A c \in I : \E r \in I : Mag(jacobian(a)[r][c]) > 1
  BY <1>6
<1> QED BY <1>7, <1>8

\* The stages do as they should on any matrix of integers.
LEMMA StagesImplied ==
  ASSUME matrix \in Mats
  PROVE  StagesAgreeOnMatrices
<1> DEFINE a == matrix
<1>1. a \in Mats
  OBVIOUS
<1> HIDE DEF a
<1>2. LET k == hk_jordan_converge_idempotent(a) IN
         /\ k >= 0 =>
              /\ matrix_mult(Power2(a, k), Power2(a, k)) = Power2(a, k)
              /\ matrix_mult(Power2(a, k), a) = matrix_mult(a, Power2(a, k))
              /\ \A n \in k .. MaxIter : Power2(a, n) = Power2(a, k)
              /\ k > 0 => matrix_mult(Power2(a, k - 1), Power2(a, k - 1)) # Power2(a, k - 1)
         /\ k = -1 => \A n \in 0 .. MaxIter - 1 : Power2(a, n) # Power2(a, n + 1)
  BY <1>1, SearchIs
<1>3. LET f == hk_jordan_transform(a) IN
         /\ f.spectral_gap \in 0 .. f.spectral_radius
         /\ Dim2 >= 2 /\ (\A i \in I : Mag(a[i][i]) = f.spectral_radius)
              => f.spectral_gap = f.spectral_radius
  BY <1>1, GapIs
<1>4. hk_jacobian_locally_invertible(a) => \A c \in I : \E r \in I : Mag(a[r][c]) > 1
  BY <1>1, InvertibleIs
<1> QED BY <1>2, <1>3, <1>4 DEF StagesAgreeOnMatrices, a

\* A sum of terms none of which is negative is zero when they all are.
LEMMA NoWeight ==
  ASSUME NEW f, \A i \in I : f[i] \in Nat
  PROVE  SumOver(f) < 1 <=> \A i \in I : f[i] = 0
<1>1. SumOver(f) \in Nat /\ \A i \in I : f[i] <= SumOver(f)
  BY SumBounds
<1>2. (\A i \in I : f[i] = 0) => SumOver(f) = 0
  BY SumZero
<1> QED BY <1>1, <1>2

\* Edges leave as much as they enter.
LEMMA DegreeSums ==
  ASSUME NEW a \in Mats
  PROVE  SumOver([i \in I |-> compute_out_degree(a, i)]) = SumOver([i \in I |-> compute_in_degree(a, i)])
<1> DEFINE p == [i \in I |-> [j \in I |-> a[i][j]]]  q == [j \in I |-> [i \in I |-> a[i][j]]]
           r == [i \in I |-> compute_out_degree(a, i)]  s == [j \in I |-> compute_in_degree(a, j)]
<1>1. Crosses(p, q)
  BY MatEntries DEF Crosses
<1>2. RowSums(r, p) /\ RowSums(s, q)
  BY DEF compute_out_degree, compute_in_degree, RowSums
<1> HIDE DEF p, q, r, s
<1>3. SumOver(r) = SumOver(s)
  BY <1>1, <1>2, SumSwap
<1> QED BY <1>3 DEF r, s

\* A node without outgoing weight is a row without an edge.
LEMMA DeadRows ==
  ASSUME NEW a \in Mats, \A i, j \in I : a[i][j] >= 0
  PROVE  find_dead_paths(a) = {i \in I : \A j \in I : ~(a[i][j] > 0)}
<1>1. ASSUME NEW i \in I PROVE compute_out_degree(a, i) < 1 <=> \A j \in I : ~(a[i][j] > 0)
  <2> DEFINE f == [j \in I |-> a[i][j]]
  <2>1. compute_out_degree(a, i) = SumOver(f)
    BY DEF compute_out_degree
  <2>2. \A j \in I : f[j] \in Nat /\ (f[j] = 0 <=> ~(a[i][j] > 0))
    BY MatEntries
  <2> HIDE DEF f
  <2>3. SumOver(f) < 1 <=> \A j \in I : f[j] = 0
    BY <2>2, NoWeight
  <2> QED BY <2>1, <2>2, <2>3
<1> QED BY <1>1 DEF find_dead_paths

\* Unreachable nodes are dead ones of the graph turned round.
LEMMA NoEdges ==
  ASSUME NEW a \in Mats, \A i, j \in I : a[i][j] >= 0
  PROVE  /\ find_unreachable_nodes(a) = find_dead_paths(transpose(a))
         /\ is_strongly_connected(a) <=> find_dead_paths(a) # I
<1> DEFINE t == transpose(a)
<1>1. t \in Mats /\ \A i, j \in I : t[i][j] = a[j][i]
  BY TransposeIs
<1> HIDE DEF t
<1>2. \A i, j \in I : t[i][j] >= 0
  BY <1>1
<1>3. find_dead_paths(t) = {i \in I : \A j \in I : ~(t[i][j] > 0)}
  BY <1>1, <1>2, DeadRows
<1>4. find_unreachable_nodes(a) = find_dead_paths(t)
  BY <1>1, <1>3 DEF find_unreachable_nodes
<1>5. find_dead_paths(a) = {i \in I : \A j \in I : ~(a[i][j] > 0)}
  BY DeadRows
<1>6. is_strongly_connected(a) <=> find_dead_paths(a) # I
  BY <1>5 DEF is_strongly_connected
<1> QED BY <1>4, <1>6 DEF t

\* The sizes of the entries that are not zero.
Sizes(a) == {n \in Nat : n # 0 /\ \E i, j \in I : n = Mag(a[i][j])}

\* The smallest entry is the least of the sizes, or one where there are none.
LEMMA SizesAre ==
  ASSUME NEW a \in Mats
  PROVE  /\ smallest_singular_value(a) = IF a = ZeroMatrix THEN 1 ELSE Min(Sizes(a))
         /\ a # ZeroMatrix => Sizes(a) # {}
<1> DEFINE M == {Mag(a[i][j]) : i, j \in I}
           S == (IF a = ZeroMatrix THEN {1} ELSE {}) \cup (M \ {0})
<1>1. \A i, j \in I : a[i][j] \in Int /\ Mag(a[i][j]) \in Nat /\ (Mag(a[i][j]) = 0 <=> a[i][j] = 0)
  <2>1. \A i, j \in I : a[i][j] \in Int
    BY MatEntries
  <2> QED BY <2>1 DEF Mag
<1>2. \A n : n \in M <=> \E i, j \in I : n = Mag(a[i][j])
  OBVIOUS
<1>3. M \ {0} = Sizes(a)
  <2> HIDE DEF M
  <2> QED BY <1>1, <1>2 DEF Sizes
<1>4. smallest_singular_value(a) = Min(S)
  BY DEF smallest_singular_value
<1>5. CASE a = ZeroMatrix
  <2>1. \A i, j \in I : a[i][j] = 0
    BY <1>5 DEF ZeroMatrix
  <2>2. Sizes(a) = {}
    BY <1>1, <2>1 DEF Sizes
  <2>3. S = {1}
    <3> HIDE DEF M
    <3> QED BY <1>3, <1>5, <2>2
  <2>4. Min(S) = 1
    <3>1. S \in SUBSET Nat /\ S # {}
      <4> HIDE DEF S
      <4> QED BY <2>3
    <3> HIDE DEF S
    <3>2. Min(S) \in S
      BY <3>1, MinIsLeast
    <3> QED BY <2>3, <3>2
  <2> QED BY <1>4, <1>5, <2>4
<1>6. CASE a # ZeroMatrix
  <2>1. S = Sizes(a)
    <3> HIDE DEF M
    <3> QED BY <1>3, <1>6
  <2>2. \E i, j \in I : a[i][j] # 0
    <3> SUFFICES ASSUME \A i, j \in I : a[i][j] = 0 PROVE FALSE
      OBVIOUS
    <3>1. ZeroMatrix \in Mats /\ \A i, j \in I : a[i][j] = ZeroMatrix[i][j]
      BY MatricesAre DEF ZeroMatrix
    <3>2. a = ZeroMatrix
      BY <3>1, SameMats
    <3> QED BY <1>6, <3>2
  <2>3. Sizes(a) # {}
    <3>1. PICK i \in I, j \in I : a[i][j] # 0
      BY <2>2
    <3>2. Mag(a[i][j]) \in Sizes(a)
      BY <1>1, <3>1 DEF Sizes
    <3> QED BY <3>2
  <2> HIDE DEF S
  <2> QED BY <1>4, <1>6, <2>1, <2>3
<1> QED BY <1>5, <1>6

\* It scales with the matrix.
LEMMA ValueScales ==
  ASSUME NEW a \in Mats
  PROVE  smallest_singular_value([i \in I |-> [j \in I |-> 3 * a[i][j]]])
           = (IF a = ZeroMatrix THEN 1 ELSE 3) * smallest_singular_value(a)
<1> DEFINE b == [i \in I |-> [j \in I |-> 3 * a[i][j]]]
<1>0. \A i, j \in I : a[i][j] \in Int
  BY MatEntries
<1>1. b \in Mats /\ \A i, j \in I : b[i][j] = 3 * a[i][j]
  <2>1. \A i, j \in I : 3 * a[i][j] \in Int
    BY <1>0
  <2> QED BY <2>1 DEF Mats
<1> HIDE DEF b
<1>2. b = ZeroMatrix <=> a = ZeroMatrix
  <2>1. ZeroMatrix \in Mats /\ \A i, j \in I : ZeroMatrix[i][j] = 0
    BY MatricesAre DEF ZeroMatrix
  <2>2. b = ZeroMatrix => a = ZeroMatrix
    <3> SUFFICES ASSUME b = ZeroMatrix PROVE a = ZeroMatrix
      OBVIOUS
    <3>1. \A i, j \in I : a[i][j] = ZeroMatrix[i][j]
      BY <1>0, <1>1, <2>1
    <3> QED BY <2>1, <3>1, SameMats
  <2>3. a = ZeroMatrix => b = ZeroMatrix
    <3> SUFFICES ASSUME a = ZeroMatrix PROVE b = ZeroMatrix
      OBVIOUS
    <3>1. \A i, j \in I : b[i][j] = ZeroMatrix[i][j]
      BY <1>1, <2>1
    <3> QED BY <1>1, <2>1, <3>1, SameMats
  <2> QED BY <2>2, <2>3
<1>3. /\ smallest_singular_value(a) = IF a = ZeroMatrix THEN 1 ELSE Min(Sizes(a))
      /\ smallest_singular_value(b) = IF b = ZeroMatrix THEN 1 ELSE Min(Sizes(b))
      /\ (a # ZeroMatrix => Sizes(a) # {}) /\ (b # ZeroMatrix => Sizes(b) # {})
  BY <1>1, SizesAre
<1>4. ASSUME a # ZeroMatrix PROVE Min(Sizes(b)) = 3 * Min(Sizes(a))
  <2>1. \A i, j \in I : Mag(a[i][j]) \in Nat /\ Mag(b[i][j]) = 3 * Mag(a[i][j])
    BY <1>0, <1>1 DEF Mag
  <2> DEFINE A == Sizes(a)  B == Sizes(b)
  <2>2. A \in SUBSET Nat /\ B \in SUBSET Nat /\ A # {} /\ B # {}
    BY <1>2, <1>3, <1>4 DEF Sizes
  <2>3. \A n \in A : 3 * n \in B
    BY <2>1 DEF Sizes
  <2>4. \A n \in B : \E m \in A : n = 3 * m
    <3> SUFFICES ASSUME NEW n \in B PROVE \E m \in A : n = 3 * m
      OBVIOUS
    <3>1. PICK i \in I, j \in I : n = Mag(b[i][j])
      BY DEF Sizes
    <3>2. Mag(a[i][j]) \in A /\ n = 3 * Mag(a[i][j])
      BY <2>1, <3>1 DEF Sizes
    <3> QED BY <3>2
  <2> HIDE DEF A, B
  <2>5. Min(A) \in A /\ Min(B) \in B /\ (\A j \in A : Min(A) <= j) /\ \A j \in B : Min(B) <= j
    BY <2>2, MinIsLeast
  <2>6. Min(B) = 3 * Min(A)
    <3>1. PICK m \in A : Min(B) = 3 * m
      BY <2>4, <2>5
    <3>2. Min(B) <= 3 * Min(A) /\ Min(A) <= m
      BY <2>3, <2>5, <3>1
    <3>3. m \in Nat /\ Min(A) \in Nat
      BY <2>2, <2>5, <3>1
    <3> QED BY <3>1, <3>2, <3>3
  <2> QED BY <2>6 DEF A, B
<1>5. smallest_singular_value(b) = (IF a = ZeroMatrix THEN 1 ELSE 3) * smallest_singular_value(a)
  BY <1>2, <1>3, <1>4
<1> QED BY <1>5 DEF b

\* The degrees agree on any matrix of integers.
LEMMA DegreesImplied ==
  ASSUME matrix \in Mats
  PROVE  DegreesAgree
<1> DEFINE a == matrix
<1>1. a \in Mats
  OBVIOUS
<1> HIDE DEF a
<1>2. SumOver([i \in I |-> compute_out_degree(a, i)]) = SumOver([i \in I |-> compute_in_degree(a, i)])
  BY <1>1, DegreeSums
<1>3. (\A i, j \in I : a[i][j] >= 0) =>
        /\ find_unreachable_nodes(a) = find_dead_paths(transpose(a))
        /\ is_strongly_connected(a) <=> find_dead_paths(a) # I
  BY <1>1, NoEdges
<1>4. smallest_singular_value([i \in I |-> [j \in I |-> 3 * a[i][j]]])
        = (IF a = ZeroMatrix THEN 1 ELSE 3) * smallest_singular_value(a)
  BY <1>1, ValueScales
<1> QED BY <1>2, <1>3, <1>4 DEF DegreesAgree, a

\* Two vectors, coordinate by coordinate.
LEMMA SumOfTwo ==
  ASSUME NEW es, es \in Seq([I -> Int]), Len(es) = 2, NEW i \in I
  PROVE  SumAt(es, i) = es[1][i] + es[2][i]
<1> DEFINE V(s) == s = [k \in 0 .. Len(es) |-> IF k = 0 THEN 0 ELSE s[k - 1] + es[k][i]]
           u == CHOOSE s : V(s)
           w == [k \in 0 .. 2 |-> IF k = 0 THEN 0 ELSE IF k = 1 THEN es[1][i] ELSE es[1][i] + es[2][i]]
<1>1. SumAt(es, i) = u[2]
  BY DEF SumAt
<1>2. es[1][i] \in Int /\ es[2][i] \in Int
  <2>1. \A k \in 1 .. Len(es) : es[k] \in [I -> Int]
    <3> DEFINE S == [I -> Int]
    <3>1. es \in Seq(S)
      OBVIOUS
    <3> HIDE DEF S
    <3>2. \A k \in 1 .. Len(es) : es[k] \in S
      BY <3>1
    <3> QED BY <3>2 DEF S
  <2>2. es[1] \in [I -> Int] /\ es[2] \in [I -> Int]
    BY <2>1
  <2> QED BY <2>2
<1>3. V(w)
  <2>1. ASSUME NEW k \in 0 .. 2 PROVE w[k] = IF k = 0 THEN 0 ELSE w[k - 1] + es[k][i]
    <3>1. k = 0 \/ k = 1 \/ k = 2
      OBVIOUS
    <3> QED BY <1>2, <3>1
  <2>2. w = [k \in 0 .. 2 |-> w[k]]
    OBVIOUS
  <2> HIDE DEF w
  <2> QED BY <2>1, <2>2
<1>4. V(u)
  <2> HIDE DEF V, w
  <2> QED BY <1>3
<1> HIDE DEF u
<1>5. u[0] = 0 /\ u[1] = u[0] + es[1][i] /\ u[2] = u[1] + es[2][i]
  <2>1. \A k \in 0 .. 2 : u[k] = IF k = 0 THEN 0 ELSE u[k - 1] + es[k][i]
    BY <1>4
  <2> HIDE DEF V
  <2>2. 0 \in 0 .. 2 /\ 1 \in 0 .. 2 /\ 2 \in 0 .. 2 /\ 1 - 1 = 0 /\ 2 - 1 = 1
    OBVIOUS
  <2> QED BY <2>1, <2>2
<1> QED BY <1>1, <1>2, <1>5

\* A dot product in two dimensions.
LEMMA DotOfTwo ==
  ASSUME Dim2 = 2, NEW a \in Vectors, NEW b \in Vectors
  PROVE  dot_product(a, b) = a[1] * b[1] + a[2] * b[2]
<1> DEFINE f == [i \in I |-> a[i] * b[i]]
<1>0. 1 \in I /\ 2 \in I
  BY DEF I
<1>1. \A i \in I : f[i] \in Int
  BY DotInt
<1>2. f[1] = a[1] * b[1] /\ f[2] = a[2] * b[2] /\ dot_product(a, b) = SumOver(f)
  BY <1>0 DEF dot_product
<1> HIDE DEF f
<1>3. PICK s : PartSums(s, f) /\ SumOver(f) = s[Dim2]
  BY <1>1, SumExists
<1>4. s[0] = 0 /\ s[1] = s[0] + f[1] /\ s[2] = s[1] + f[2]
  <2>1. \A n \in I : s[n] = s[n - 1] + f[n]
    BY <1>3 DEF PartSums
  <2>2. 1 - 1 = 0 /\ 2 - 1 = 1
    OBVIOUS
  <2> QED BY <1>0, <1>3, <2>1, <2>2 DEF PartSums
<1>5. f[1] \in Int /\ f[2] \in Int
  BY <1>0, <1>1
<1> QED BY <1>2, <1>3, <1>4, <1>5

\* A pair passes the three tests when each coordinate belongs to one of the two.
LEMMA CompleteIs ==
  ASSUME NEW u \in Vectors, NEW w \in Vectors
  PROVE  verify_idempotency(<<u, w>>) /\ verify_orthogonality(<<u, w>>) /\ sum_to_identity(<<u, w>>)
           <=> \A i \in I : {u[i], w[i]} = {0, 1}
<1> DEFINE es == <<u, w>>
<1>1. es \in Seq([I -> Int]) /\ Len(es) = 2 /\ DOMAIN es = {1, 2} /\ es[1] = u /\ es[2] = w /\ es # <<>>
  BY DEF Vectors
<1> HIDE DEF es
<1>2. \A i \in I : u[i] \in Int /\ w[i] \in Int
  BY DEF Vectors
<1>3. verify_idempotency(es) <=> \A i \in I : u[i] \in {0, 1} /\ w[i] \in {0, 1}
  <2>1. \A x \in Int : x * x = x <=> x \in {0, 1}
    <3> SUFFICES ASSUME NEW x \in Int PROVE x * x = x <=> x \in {0, 1}
      OBVIOUS
    <3>1. x * x = x <=> x * (x - 1) = 0
      OBVIOUS
    <3> QED BY <3>1
  <2>2. verify_idempotency(es) <=> \A i \in I : u[i] * u[i] = u[i] /\ w[i] * w[i] = w[i]
    BY <1>1 DEF verify_idempotency
  <2> QED BY <1>2, <2>1, <2>2
<1>4. sum_to_identity(es) <=> \A i \in I : u[i] + w[i] = 1
  <2>1. \A i \in I : SumAt(es, i) = u[i] + w[i]
    BY <1>1, SumOfTwo
  <2> QED BY <1>1, <2>1 DEF sum_to_identity
<1>5. (\A i \in I : {u[i], w[i]} = {0, 1}) => verify_orthogonality(es)
  <2> SUFFICES ASSUME \A i \in I : {u[i], w[i]} = {0, 1} PROVE verify_orthogonality(es)
    OBVIOUS
  <2> DEFINE f == [i \in I |-> u[i] * w[i]]  g == [i \in I |-> w[i] * u[i]]
  <2>1. \A i \in I : (u[i] = 0 /\ w[i] = 1) \/ (u[i] = 1 /\ w[i] = 0)
    OBVIOUS
  <2>2. \A i \in I : f[i] = 0 /\ g[i] = 0
    BY <2>1
  <2>3. dot_product(u, w) = SumOver(f) /\ dot_product(w, u) = SumOver(g)
    BY DEF dot_product
  <2> HIDE DEF f, g
  <2>4. SumOver(f) = 0 /\ SumOver(g) = 0
    BY <2>2, SumZero
  <2>5. dot_product(u, w) = 0 /\ dot_product(w, u) = 0
    BY <2>3, <2>4
  <2>6. \A i \in I : 0 * (u[i] + w[i]) = 0 /\ 0 * (w[i] + u[i]) = 0
    BY <1>2
  <2> QED BY <1>1, <2>5, <2>6 DEF verify_orthogonality
<1>6. \A i \in I : {u[i], w[i]} = {0, 1} <=> u[i] \in {0, 1} /\ w[i] \in {0, 1} /\ u[i] + w[i] = 1
  <2> SUFFICES ASSUME NEW i \in I
               PROVE  {u[i], w[i]} = {0, 1} <=> u[i] \in {0, 1} /\ w[i] \in {0, 1} /\ u[i] + w[i] = 1
    OBVIOUS
  <2> DEFINE a == u[i]  b == w[i]
  <2>1. a \in Int /\ b \in Int
    BY <1>2
  <2> HIDE DEF a, b
  <2>2. {a, b} = {0, 1} <=> (a = 0 /\ b = 1) \/ (a = 1 /\ b = 0)
    OBVIOUS
  <2>3. (a = 0 /\ b = 1) \/ (a = 1 /\ b = 0) <=> a \in {0, 1} /\ b \in {0, 1} /\ a + b = 1
    BY <2>1
  <2> QED BY <2>2, <2>3 DEF a, b
<1>7. verify_idempotency(es) /\ verify_orthogonality(es) /\ sum_to_identity(es)
        <=> \A i \in I : {u[i], w[i]} = {0, 1}
  BY <1>3, <1>4, <1>5, <1>6
<1> QED BY <1>7 DEF es

\* In two dimensions a complete pair gives back every vector when neither is zero.
LEMMA PairDecomposes ==
  ASSUME Dim2 = 2, NEW u \in [I -> Scalars], NEW w \in [I -> Scalars],
         \A i \in I : {u[i], w[i]} = {0, 1}
  PROVE  (\A v \in [I -> Scalars] : \A i \in I : SumAt(peirce_decompose(<<u, w>>, v), i) = v[i])
           <=> \A k \in 1 .. 2 : dot_product(<<u, w>>[k], <<u, w>>[k]) # 0
<1> DEFINE es == <<u, w>>
<1>0. I = {1, 2} /\ Scalars \subseteq Int
  BY KernelBounds DEF I
<1>1. u \in Vectors /\ w \in Vectors
  BY <1>0 DEF Vectors
<1>2. es[1] = u /\ es[2] = w /\ DOMAIN es = 1 .. 2
  OBVIOUS
<1> HIDE DEF es
<1>3. ASSUME NEW v \in [I -> Scalars], NEW i \in I
      PROVE  SumAt(peirce_decompose(es, v), i)
               = (v[1] * u[1] + v[2] * u[2]) * u[i] + (v[1] * w[1] + v[2] * w[2]) * w[i]
  <2> DEFINE d == peirce_decompose(es, v)
  <2>1. v \in Vectors
    BY <1>0 DEF Vectors
  <2>2. dot_product(v, u) = v[1] * u[1] + v[2] * u[2] /\ dot_product(v, w) = v[1] * w[1] + v[2] * w[2]
    BY <1>1, <2>1, DotOfTwo
  <2>3. dot_product(v, u) \in Int /\ dot_product(v, w) \in Int
    BY <1>1, <2>1, DotInt
  <2>4. d = [k \in 1 .. 2 |-> [j \in I |-> dot_product(v, es[k]) * es[k][j]]]
    BY <1>2 DEF peirce_decompose
  <2>5. \A j \in I : dot_product(v, u) * u[j] \in Int /\ dot_product(v, w) * w[j] \in Int
    <3>1. \A j \in I : u[j] \in Int /\ w[j] \in Int
      BY <1>1 DEF Vectors
    <3> QED BY <2>3, <3>1, ProductOf
  <2>6. \A k \in 1 .. 2 : d[k] \in [I -> Int]
    <3> SUFFICES ASSUME NEW k \in 1 .. 2 PROVE d[k] \in [I -> Int]
      OBVIOUS
    <3>1. k = 1 \/ k = 2
      OBVIOUS
    <3> QED BY <1>2, <2>4, <2>5, <3>1
  <2>7. /\ d[1][i] = dot_product(v, u) * u[i] /\ d[2][i] = dot_product(v, w) * w[i]
        /\ d = [k \in 1 .. 2 |-> d[k]]
    BY <1>2, <2>4
  <2> HIDE DEF d
  <2>8. d \in Seq([I -> Int]) /\ Len(d) = 2
    BY <2>6, <2>7
  <2>9. SumAt(d, i) = d[1][i] + d[2][i]
    BY <2>8, SumOfTwo
  <2> QED BY <2>2, <2>7, <2>9 DEF d
<1>4. /\ dot_product(u, u) = u[1] * u[1] + u[2] * u[2]
      /\ dot_product(w, w) = w[1] * w[1] + w[2] * w[2]
  BY <1>1, DotOfTwo
<1>5. \A i \in I : (u[i] = 0 /\ w[i] = 1) \/ (u[i] = 1 /\ w[i] = 0)
  OBVIOUS
<1>6. (\A k \in 1 .. 2 : dot_product(es[k], es[k]) # 0) <=> dot_product(u, u) # 0 /\ dot_product(w, w) # 0
  <2>1. 1 .. 2 = {1, 2}
    OBVIOUS
  <2> QED BY <1>2, <2>1
<1> DEFINE Back == \A v \in [I -> Scalars] : \A i \in I : SumAt(peirce_decompose(es, v), i) = v[i]
<1>7. CASE u[1] = u[2]
  <2>1. ~ (dot_product(u, u) # 0 /\ dot_product(w, w) # 0)
    BY <1>0, <1>4, <1>5, <1>7
  <2>2. ~ Back
    <3>1. CASE u[1] = 1
      <4>1. u[1] = 1 /\ u[2] = 1 /\ w[1] = 0 /\ w[2] = 0 /\ 1 \in I
        BY <1>0, <1>5, <1>7, <3>1
      <4>2. SumAt(peirce_decompose(es, u), 1) = 2
        <5>1. SumAt(peirce_decompose(es, u), 1)
                = (u[1] * u[1] + u[2] * u[2]) * u[1] + (u[1] * w[1] + u[2] * w[2]) * w[1]
          BY <1>3, <4>1
        <5> QED BY <4>1, <5>1
      <4> QED BY <4>1, <4>2
    <3>2. CASE u[1] = 0
      <4>1. u[1] = 0 /\ u[2] = 0 /\ w[1] = 1 /\ w[2] = 1 /\ 1 \in I
        BY <1>0, <1>5, <1>7, <3>2
      <4>2. SumAt(peirce_decompose(es, w), 1) = 2
        <5>1. SumAt(peirce_decompose(es, w), 1)
                = (w[1] * u[1] + w[2] * u[2]) * u[1] + (w[1] * w[1] + w[2] * w[2]) * w[1]
          BY <1>3, <4>1
        <5> QED BY <4>1, <5>1
      <4> QED BY <4>1, <4>2
    <3> QED BY <1>0, <1>5, <3>1, <3>2
  <2> QED BY <1>6, <2>1, <2>2 DEF es
<1>8. CASE u[1] # u[2]
  <2>0. (u[1] = 1 /\ u[2] = 0 /\ w[1] = 0 /\ w[2] = 1) \/ (u[1] = 0 /\ u[2] = 1 /\ w[1] = 1 /\ w[2] = 0)
    BY <1>0, <1>5, <1>8
  <2>1. dot_product(u, u) # 0 /\ dot_product(w, w) # 0
    BY <1>4, <2>0
  <2>2. Back
    <3> SUFFICES ASSUME NEW v \in [I -> Scalars], NEW i \in I
                 PROVE  SumAt(peirce_decompose(es, v), i) = v[i]
      OBVIOUS
    <3>1. v[1] \in Int /\ v[2] \in Int
      BY <1>0
    <3>2. SumAt(peirce_decompose(es, v), i)
            = (v[1] * u[1] + v[2] * u[2]) * u[i] + (v[1] * w[1] + v[2] * w[2]) * w[i]
      BY <1>3
    <3>3. i = 1 \/ i = 2
      BY <1>0
    <3> QED BY <2>0, <3>1, <3>2, <3>3
  <2> QED BY <1>6, <2>1, <2>2 DEF es
<1> QED BY <1>7, <1>8

\* The pairs split as they should.
LEMMA SplitImplied == KernelInv => IdempotentsSplit
<1> SUFFICES ASSUME KernelInv PROVE IdempotentsSplit
  OBVIOUS
<1> DEFINE u == element.v  w == other.v
           complete == verify_idempotency(<<u, w>>) /\ verify_orthogonality(<<u, w>>) /\ sum_to_identity(<<u, w>>)
<1>0. Scalars \subseteq Int /\ 1 \in I
  BY KernelBounds DEF I
<1>1. u \in Vectors /\ w \in Vectors
  <2>1. \A v \in [I -> Scalars] : v \in Vectors
    BY <1>0 DEF Vectors
  <2>2. [i \in I |-> 0] \in Vectors
    BY DEF Vectors
  <2>3. CASE element = ZeroElement /\ other = ZeroElement
    BY <2>2, <2>3 DEF ZeroElement
  <2>4. CASE element \in Elements /\ other \in Elements
    <3>1. u \in [I -> Scalars] /\ w \in [I -> Scalars]
      BY <2>4 DEF Elements
    <3> QED BY <2>1, <3>1
  <2> QED BY <2>3, <2>4 DEF KernelInv
<1>2. (\E i \in I : u[i] # 0 \/ w[i] # 0) => u \in [I -> Scalars] /\ w \in [I -> Scalars]
  BY DEF KernelInv, Elements, ZeroElement
<1> HIDE DEF u, w
<1>3. complete <=> \A i \in I : {u[i], w[i]} = {0, 1}
  BY <1>1, CompleteIs
<1> HIDE DEF complete
<1>4. ASSUME complete, Dim2 = 2
      PROVE  (\A v \in [I -> Scalars] : \A i \in I : SumAt(peirce_decompose(<<u, w>>, v), i) = v[i])
               <=> \A k \in 1 .. 2 : dot_product(<<u, w>>[k], <<u, w>>[k]) # 0
  <2>1. \A i \in I : {u[i], w[i]} = {0, 1}
    BY <1>3, <1>4
  <2>2. u[1] # 0 \/ w[1] # 0
    BY <1>0, <2>1
  <2>3. u \in [I -> Scalars] /\ w \in [I -> Scalars]
    BY <1>0, <1>2, <2>2
  <2> QED BY <1>4, <2>1, <2>3, PairDecomposes
<1>5. <<u, w>>[1] = u /\ <<u, w>>[2] = w
  OBVIOUS
<1> QED BY <1>3, <1>4, <1>5 DEF IdempotentsSplit, complete, u, w

\* All the properties follow from the invariant.
LEMMA AlgebraImplied == AlgebraInv => AlgebraHolds
<1> SUFFICES ASSUME AlgebraInv PROVE AlgebraHolds
  OBVIOUS
<1>1. KernelInv /\ matrix \in Mats
  BY DEF AlgebraInv, KernelInv
<1>2. element \in IntElements /\ other \in IntElements
  BY <1>1, KernelBounds DEF KernelInv, Elements, ZeroElement, IntElements, Vectors
<1> QED BY <1>1, <1>2, TraceImplied, JordanImplied, StagesImplied, SplitImplied, DegreesImplied DEF AlgebraHolds

\* The arithmetic of the numeric stages holds of every element, matrix and loop.
THEOREM AlgebraAlwaysHolds == AlgebraSpec => []AlgebraHolds
<1>1. AlgebraInv => AlgebraHolds
  BY AlgebraImplied
<1> QED BY <1>1, AlgebraInvInit, AlgebraInvNext, PTL DEF AlgebraSpec
=============================================================================
