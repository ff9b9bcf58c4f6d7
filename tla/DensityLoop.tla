---------------------------- MODULE DensityLoop ----------------------------
(***************************************************************************)
(* The rest of hyperkitty-jordan: density matrices that evolve with the    *)
(* golden ratio (density.rs, convergence.rs) and systems of idempotents    *)
(* (idempotent.rs); and the measures of hyperkitty-graph and -jacobian.    *)
(* With g for the inverse golden ratio, g * g = 1 - g: a number a + b g is *)
(* the pair <<a, b>>, exactly.  A distance of zero is below the tolerance; *)
(* any other may be.                                                       *)
(***************************************************************************)
EXTENDS Kernels, SequencesExt

CONSTANTS MaxTurns, \* max_iters of converge
          Unitaries \* the matrices it evolves under
ASSUME TurnsBound == MaxTurns \in Nat \ {0} /\ Unitaries \subseteq [1 .. Dim2 -> [1 .. Dim2 -> Int]]

VARIABLES turns,     \* ConvergenceTrace.iterations
          unitary,   \* the matrix it evolves under
          loop       \* "idle", "running", "converged" or "given up"
densityVars == <<turns, unitary, loop>>

Plus(x, y) == <<x[1] + y[1], x[2] + y[2]>>
Scaled(n, x) == <<n * x[1], n * x[2]>>
TimesG(x)   == <<x[2], x[1] - x[2]>>
Exact(a)    == [i \in I |-> [j \in I |-> <<a[i][j], 0>>]]

SumPairs(xs) == <<SumOver([i \in I |-> xs[i][1]]), SumOver([i \in I |-> xs[i][2]])>>
transpose(a) == [i \in I |-> [j \in I |-> a[j][i]]]
\* u rho u', for a matrix u of whole numbers.
Conjugate(u, rho) ==
  [i \in I |-> [j \in I |->
     SumPairs([k \in I |-> SumPairs([l \in I |-> Scaled(u[i][k] * u[j][l], rho[k][l])])])]]
\* Mutant: both terms get the weight g.
X_density_evolve(rho, u) ==
  LET moved == Conjugate(u, rho)
  IN [i \in I |-> [j \in I |-> Plus(TimesG(moved[i][j]), TimesG(rho[i][j]))]]
density_evolve(rho, u) ==
  LET moved == Conjugate(u, rho)
  IN [i \in I |-> [j \in I |-> Plus(TimesG(moved[i][j]), TimesG(TimesG(rho[i][j])))]]
trace(rho) == SumPairs([i \in I |-> rho[i][i]])

DensityInit == turns = <<>> /\ unitary = ZeroMatrix /\ loop = "idle"
converge(rho_init, u) ==
  /\ loop = "idle"
  /\ turns' = <<Exact(rho_init)>> /\ unitary' = u /\ loop' = "running"
converge_turn ==
  LET next == density_evolve(Last(turns), unitary) IN
  /\ loop = "running" /\ turns' = Append(turns, next) /\ UNCHANGED unitary
  /\ \/ loop' = "converged"
     \/ /\ next # Last(turns)
        /\ loop' = IF Len(turns) = MaxTurns THEN "given up" ELSE "running"
DensityNext == (\E rho \in Matrices, u \in Unitaries : converge(rho, u)) \/ converge_turn

(***************************************************************************)
(* PrimitiveIdempotents: a sequence of vectors, multiplied by components   *)
(* where idempotency is asked and by the dot product where orthogonality.  *)
(***************************************************************************)
dot_product(a, b) == SumOver([i \in I |-> a[i] * b[i]])
verify_idempotency(es) == \A k \in DOMAIN es : \A i \in I : es[k][i] * es[k][i] = es[k][i]
verify_orthogonality(es) ==
  \A j, k \in DOMAIN es : j # k =>
    \A i \in I : dot_product(es[j], es[k]) * (es[j][i] + es[k][i]) = 0
SumAt(es, i) ==
  LET s[k \in 0 .. Len(es)] == IF k = 0 THEN 0 ELSE s[k - 1] + es[k][i] IN s[Len(es)]
sum_to_identity(es) == es # <<>> /\ \A i \in I : SumAt(es, i) = 1
peirce_decompose(es, v) == [k \in DOMAIN es |-> [i \in I |-> dot_product(v, es[k]) * es[k][i]]]

(***************************************************************************)
(* Measures of a weighted graph, given as its matrix.                      *)
(***************************************************************************)
compute_out_degree(a, n) == SumOver([j \in I |-> a[n][j]])
compute_in_degree(a, n)  == SumOver([i \in I |-> a[i][n]])
is_strongly_connected(a) == \E i, j \in I : a[i][j] > 0   \* a stub: any edge will do
find_dead_paths(a)        == {i \in I : compute_out_degree(a, i) < 1}
find_unreachable_nodes(a) == {j \in I : \A i \in I : ~(a[i][j] > 0)}
smallest_singular_value(a) ==
  Min((IF a = ZeroMatrix THEN {1} ELSE {}) \cup ({Mag(a[i][j]) : i, j \in I} \ {0})) \* the smallest entry

\* The numeric stages together: an element, a matrix and the loop, each on its own.
algebraVars == <<kernelVars, densityVars>>
AlgebraInit == KernelInit /\ DensityInit
AlgebraNext == \/ KernelNext /\ UNCHANGED densityVars
               \/ DensityNext /\ UNCHANGED kernelVars
AlgebraSpec == AlgebraInit /\ [][AlgebraNext]_algebraVars

(***************************************************************************)
(* Properties                                                              *)
(***************************************************************************)

\* Every turn keeps the trace under an orthogonal matrix and the symmetry under
\* any; under a reflection what it moves about, rho + u rho u', does not move.
\* A rho that u leaves as it is ends the loop in its first turn.
TraceIsKept ==
  loop # "idle" =>
    LET first == turns[1]
        id    == [i \in I |-> [j \in I |-> IF i = j THEN 1 ELSE 0]]
        orthogonal == matrix_mult(unitary, transpose(unitary)) = id
        Mean(rho)  == [i \in I |-> [j \in I |-> Plus(rho[i][j], Conjugate(unitary, rho)[i][j])]]
    IN /\ Len(turns) <= MaxTurns + 1
       /\ Conjugate(unitary, first) = first => loop # "given up" /\ Len(turns) <= 2
       /\ \A k \in DOMAIN turns :
            /\ orthogonal => trace(turns[k]) = trace(first)
            /\ transpose(first) = first => transpose(turns[k]) = turns[k]
            /\ matrix_mult(unitary, unitary) = id => Mean(turns[k]) = Mean(first)

\* A pair of vectors passes the three tests exactly when each coordinate
\* belongs to one of them alone; it decomposes vectors exactly when, besides,
\* none is zero, which the code does not ask.
IdempotentsSplit ==
  LET es == <<element.v, other.v>>
      complete == verify_idempotency(es) /\ verify_orthogonality(es) /\ sum_to_identity(es)
  IN /\ complete <=> \A i \in I : {es[1][i], es[2][i]} = {0, 1}
     /\ complete /\ Dim2 = 2 =>
          ((\A v \in [I -> Scalars] : \A i \in I : SumAt(peirce_decompose(es, v), i) = v[i])
             <=> \A k \in 1 .. 2 : dot_product(es[k], es[k]) # 0)

\* Edges leave as much as they enter; where no weight is negative, a node
\* without outgoing weight is a row without an edge, an unreachable one a
\* column without, and a graph without edges is dead everywhere; the smallest
\* entry, which stands in for a singular value, scales with the matrix.
DegreesAgree ==
  /\ SumOver([i \in I |-> compute_out_degree(matrix, i)])
       = SumOver([i \in I |-> compute_in_degree(matrix, i)])
  /\ (\A i, j \in I : matrix[i][j] >= 0) =>
       /\ find_unreachable_nodes(matrix) = find_dead_paths(transpose(matrix))
       /\ is_strongly_connected(matrix) <=> find_dead_paths(matrix) # I
  /\ smallest_singular_value([i \in I |-> [j \in I |-> 3 * matrix[i][j]]])
       = (IF matrix = ZeroMatrix THEN 1 ELSE 3) * smallest_singular_value(matrix)

\* The arithmetic of the pipelines' numeric stages, on every case but the one
\* in which everything is zero.
Trivial == element = ZeroElement /\ other = ZeroElement /\ matrix = ZeroMatrix
AlgebraHolds ==
  /\ TraceIsKept
  /\ Trivial \/ (SpinFactorIsJordan /\ StagesAgreeOnMatrices /\ IdempotentsSplit /\ DegreesAgree)
=============================================================================
