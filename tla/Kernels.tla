------------------------------ MODULE Kernels ------------------------------
(***************************************************************************)
(* The algebra of the Jordan and Jacobian stages over integers, where it   *)
(* is exact: the spin factor R + R^n (hyperkitty-jordan), the features of  *)
(* jordan_transformer.c and the metrics of jacobian_lens.c.  A case is a   *)
(* pair of elements or a matrix; the program keeps no state between calls. *)
(***************************************************************************)
EXTENDS Integers, Sequences, FiniteSetsExt

CONSTANTS Dim2,    \* dimension of vectors and matrices
          Scalars, \* coordinates of a vector
          Entries, \* entries of a matrix, and scalar parts
          MaxIter  \* max_iterations of the idempotent search
ASSUME KernelBounds == Dim2 \in Nat \ {0} /\ Scalars \cup Entries \subseteq Int /\ MaxIter \in Nat

VARIABLES element, other, matrix
kernelVars == <<element, other, matrix>>

I == 1 .. Dim2
Elements == [alpha : Entries, v : [I -> Scalars]]
Matrices == [I -> [I -> Entries]]
SumOver(f) == LET s[n \in 0 .. Dim2] == IF n = 0 THEN 0 ELSE s[n - 1] + f[n] IN s[Dim2]

ZeroMatrix  == [i \in I |-> [j \in I |-> 0]]
ZeroElement == [alpha |-> 0, v |-> [i \in I |-> 0]]
KernelInit == element = ZeroElement /\ other = ZeroElement /\ matrix = ZeroMatrix
Compare == element' \in Elements /\ other' \in Elements /\ UNCHANGED matrix
Analyse == matrix' \in Matrices /\ UNCHANGED <<element, other>>
KernelNext == /\ element = ZeroElement /\ other = ZeroElement /\ matrix = ZeroMatrix
              /\ Compare \/ Analyse

(***************************************************************************)
(* SpinFactor                                                              *)
(***************************************************************************)
SpinFactor(alpha, v) == [alpha |-> alpha, v |-> v]
identity == SpinFactor(1, [i \in I |-> 0])
product(x, y) ==
  SpinFactor(x.alpha * y.alpha + SumOver([i \in I |-> x.v[i] * y.v[i]]),
             [i \in I |-> x.alpha * y.v[i] + y.alpha * x.v[i]])
scale(x, c) == SpinFactor(c * x.alpha, [i \in I |-> c * x.v[i]])
spin_add(x, y) == SpinFactor(x.alpha + y.alpha, [i \in I |-> x.v[i] + y.v[i]])
spin_sub(x, y) == spin_add(x, scale(y, -1))
is_commutative_with(x, y) == product(x, y) = product(y, x)
is_associative_triple(x, y, z) == product(product(x, y), z) = product(x, product(y, z))
demonstrate_non_associativity ==
  LET Vec(a, b) == [i \in I |-> IF i = 1 THEN a ELSE IF i = 2 THEN b ELSE 0]
      x == SpinFactor(1, Vec(1, 0))  y == SpinFactor(0, Vec(0, 1))  z == SpinFactor(1, Vec(1, 1))
  IN <<product(product(x, y), z), product(x, product(y, z))>>
\* Of half the element, so that there are some besides 0 and 1.
half_is_idempotent(x) == product(x, x) = scale(x, 2)

(***************************************************************************)
(* jordan_transformer.c: the eigenvalues are those qr_iterate finds, which *)
(* are the diagonal, for it never changes the matrix.                      *)
(***************************************************************************)
Mag(x) == IF x < 0 THEN -x ELSE x
matrix_mult(a, b) == [i \in I |-> [j \in I |-> SumOver([k \in I |-> a[i][k] * b[k][j]])]]
hk_jordan_transform(a) ==
  LET eigs == {Mag(a[i][i]) : i \in I}
      top  == Max(eigs)
      RowRest(i) == SumOver([j \in I |-> IF i = j THEN 0 ELSE Mag(a[i][j])])
  IN [spectral_radius |-> top, stable |-> top < 1, jordan_blocks |-> Dim2,
      gershgorin_radius |-> Max({RowRest(i) : i \in I}),
      spectral_gap |-> IF Dim2 >= 2 THEN top - Max({0} \cup (eigs \ {top})) ELSE 0]
\* Squares until nothing changes; the number of the iteration, or -1.
Power2(a, n) ==
  LET p[m \in 0 .. n] == IF m = 0 THEN a ELSE matrix_mult(p[m - 1], p[m - 1]) IN p[n]
hk_jordan_converge_idempotent(a) ==
  LET done == {n \in 0 .. MaxIter - 1 : Power2(a, n + 1) = Power2(a, n)}
  IN IF done = {} THEN -1 ELSE Min(done)

(***************************************************************************)
(* jacobian_lens.c, in units of EPSILON.                                   *)
(***************************************************************************)
jacobian(a) == [i \in I |-> [j \in I |-> IF Mag(a[i][j]) < 1 THEN 1 ELSE a[i][j]]]
SquaredNorm(j) == SumOver([r \in I |-> SumOver([c \in I |-> j[r][c] * j[r][c]])])
hk_jacobian_lens(a) ==
  [condition_squared |-> SquaredNorm(jacobian(a)) \div Dim2,
   dead_paths |-> Cardinality({c \in I : \A r \in I : ~(Mag(jacobian(a)[r][c]) > 1)})]
hk_jacobian_locally_invertible(a) ==
  hk_jacobian_lens(a).condition_squared <= 10000 /\ hk_jacobian_lens(a).dead_paths = 0

(***************************************************************************)
(* Properties                                                              *)
(***************************************************************************)

\* The product commutes and is a Jordan product (it associates with the
\* square of an element, and powers associate) although it does not
\* associate in general (only with itself on the other side), and its idempotents are 0, 1 and (1 + u) / 2 for units u.
SpinFactorIsJordan ==
  LET x == element  y == other  xx == product(x, x) IN
  /\ is_commutative_with(x, y) /\ product(x, identity) = x
  /\ is_associative_triple(x, y, x) /\ is_associative_triple(x, xx, x)
  /\ product(x, ZeroElement) = ZeroElement /\ spin_sub(spin_add(x, y), y) = x
  /\ product(product(xx, y), x) = product(xx, product(y, x))
  /\ product(xx, xx) = product(product(xx, x), x)
  /\ half_is_idempotent(x) <=>
       \/ x \in {ZeroElement, scale(identity, 2)}
       \/ x.alpha = 1 /\ SumOver([i \in I |-> x.v[i] * x.v[i]]) = 1
  /\ Dim2 >= 2 => demonstrate_non_associativity[1] # demonstrate_non_associativity[2]

\* The search for an idempotent ends with one, which the matrix commutes with
\* and further squaring does not change; it gives up only on a matrix no power
\* of which, as far as it looks, is idempotent.  The gap is never more than
\* the radius, but it is all of it when several eigenvalues all have the same size.
\* A column counts as dead unless a weight in it exceeds 1: a graph of weights
\* up to 1, as the syntax tree gives, is never invertible.
StagesAgreeOnMatrices ==
  LET k == hk_jordan_converge_idempotent(matrix)
      f == hk_jordan_transform(matrix)
      e == Power2(matrix, k)
  IN
  /\ k >= 0 => /\ matrix_mult(e, e) = e /\ matrix_mult(e, matrix) = matrix_mult(matrix, e)
               /\ \A n \in k .. MaxIter : Power2(matrix, n) = e
               /\ k > 0 => matrix_mult(Power2(matrix, k - 1), Power2(matrix, k - 1)) # Power2(matrix, k - 1)
  /\ k = -1 => \A n \in 0 .. MaxIter - 1 : Power2(matrix, n) # Power2(matrix, n + 1)
  /\ f.spectral_gap \in 0 .. f.spectral_radius
  /\ Dim2 >= 2 /\ (\A i \in I : Mag(matrix[i][i]) = f.spectral_radius)
       => f.spectral_gap = f.spectral_radius
  /\ hk_jacobian_locally_invertible(matrix) =>
       \A c \in I : \E r \in I : Mag(matrix[r][c]) > 1
=============================================================================
