-------------------------- MODULE InductionLemmas --------------------------
(***************************************************************************)
(* Induction over the naturals and over folds, in a form that first-order  *)
(* provers can use: what is proved by induction is the set of the numbers  *)
(* for which it holds, and the step of a fold is a function on a set.      *)
(***************************************************************************)
EXTENDS Integers, Sequences, FiniteSets, SequencesExt, FiniteSetsExt,
        FiniteSetTheorems, SequenceTheorems, WellFoundedInduction, TLAPS

\* A set of places that is not empty has a first one.
LEMMA LeastPlace ==
  ASSUME NEW S \in SUBSET Nat, S # {}
  PROVE  \E k \in S : \A j \in S : k <= j
<1> DEFINE R == {ss \in Nat \X Nat : ss[1] < ss[2]}
<1>1. IsWellFoundedOn(R, Nat)
  BY NatLessThanWellFounded DEF OpToRel
<1>2. \E x \in S : \A y \in S : ~ (<<y, x>> \in R)
  <2> HIDE DEF R
  <2> QED BY <1>1, WFMin
<1>3. \A x, y \in S : <<y, x>> \notin R => x <= y
  OBVIOUS
<1> QED
  <2> HIDE DEF R
  <2> QED BY <1>2, <1>3

\* What holds at 0 and goes on from each number below N to the next holds up to N.
LEMMA UpTo ==
  ASSUME NEW N \in Nat, NEW S, 0 \in S, \A n \in 0 .. N - 1 : n \in S => n + 1 \in S
  PROVE  \A n \in 0 .. N : n \in S
<1> DEFINE T == (0 .. N) \ S
<1> SUFFICES ASSUME T # {} PROVE FALSE
  OBVIOUS
<1>0. T \in SUBSET Nat
  OBVIOUS
<1>1. PICK k \in T : \A j \in T : k <= j
  <2> HIDE DEF T
  <2> QED BY <1>0, LeastPlace
<1>2. k # 0 /\ k - 1 \in 0 .. N - 1 /\ k - 1 \notin T
  BY <1>1
<1> QED BY <1>1, <1>2

\* The last place of a set of places up to N.
LEMMA GreatestPlace ==
  ASSUME NEW N \in Nat, NEW S \in SUBSET (0 .. N), S # {}
  PROVE  \E k \in S : \A j \in S : j <= k
<1> DEFINE T == {t \in 0 .. N : N - t \in S}
<1>1. T \in SUBSET Nat /\ T # {}
  <2>1. PICK k \in S : TRUE
    OBVIOUS
  <2>2. N - k \in T
    OBVIOUS
  <2> QED BY <2>2
<1>2. PICK t \in T : \A j \in T : t <= j
  <2> HIDE DEF T
  <2> QED BY <1>1, LeastPlace
<1>3. N - t \in S /\ t \in 0 .. N
  BY <1>2
<1>4. ASSUME NEW j \in S PROVE j <= N - t
  <2>1. j \in 0 .. N /\ N - (N - j) = j
    OBVIOUS
  <2>2. N - j \in T
    BY <2>1
  <2> QED BY <1>2, <1>3, <2>1, <2>2
<1> QED BY <1>3, <1>4

\* Min and Max of FiniteSetsExt are what their names say.
LEMMA MinIsLeast ==
  ASSUME NEW S \in SUBSET Nat, S # {}
  PROVE  Min(S) \in S /\ \A j \in S : Min(S) <= j
BY LeastPlace DEF Min

\* Max of a set of places is its last place.
LEMMA MaxIsGreatest ==
  ASSUME NEW N \in Nat, NEW S \in SUBSET (0 .. N), S # {}
  PROVE  Max(S) \in S /\ \A j \in S : j <= Max(S)
BY GreatestPlace DEF Max

\* Of a set that has a last place n, n is that place.
LEMMA MaxIs ==
  ASSUME NEW N \in Nat, NEW S \in SUBSET (0 .. N), NEW n \in S, \A j \in S : j <= n
  PROVE  Max(S) = n
<1>1. Max(S) \in S /\ \A j \in S : j <= Max(S)
  BY MaxIsGreatest
<1>2. Max(S) \in 0 .. N /\ n \in 0 .. N
  BY <1>1
<1> QED BY <1>1, <1>2

\* What a fold over places looks at: the last of some places, and the rest.
LEMMA LastOfPlaces ==
  ASSUME NEW N \in Nat, NEW S \in SUBSET (1 .. N), S # {}
  PROVE  Max(S) \in S
<1>1. S \in SUBSET (0 .. N)
  OBVIOUS
<1> QED BY <1>1, MaxIsGreatest

\* The last of the first n places, and the rest of them.
LEMMA LastOfFirst ==
  ASSUME NEW n \in Nat, n # 0
  PROVE  Max(1 .. n) = n /\ (1 .. n) \ {n} = 1 .. n - 1 /\ 1 .. n # {}
<1>1. n \in 1 .. n /\ 1 .. n \in SUBSET (0 .. n) /\ \A j \in 1 .. n : j <= n
  OBVIOUS
<1>2. Max(1 .. n) = n
  BY <1>1, MaxIs
<1>3. (1 .. n) \ {n} = 1 .. n - 1
  OBVIOUS
<1> QED BY <1>1, <1>2, <1>3

Steps(f, N, b, G) == f = [i \in 0 .. N |-> IF i = 0 THEN b ELSE G[i][f[i - 1]]]

\* A loop that stays in a set: there is a function that does what it does.
LEMMA StepsExist ==
  ASSUME NEW N \in Nat, NEW D, NEW b \in D, NEW G, \A i \in 1 .. N : \A x \in D : G[i][x] \in D
  PROVE  \E f \in [0 .. N -> D] : Steps(f, N, b, G)
<1> DEFINE S == {m \in 0 .. N : \E f \in [0 .. m -> D] : Steps(f, m, b, G)}
<1>1. 0 \in S
  <2> DEFINE f == [n \in 0 .. 0 |-> b]
  <2>1. f \in [0 .. 0 -> D] /\ Steps(f, 0, b, G)
    BY DEF Steps
  <2> QED BY <2>1
<1>2. ASSUME NEW m \in 0 .. N - 1, m \in S PROVE m + 1 \in S
  <2>1. PICK f \in [0 .. m -> D] : Steps(f, m, b, G)
    BY <1>2
  <2> DEFINE h == [n \in 0 .. m + 1 |-> IF n = m + 1 THEN G[m + 1][f[m]] ELSE f[n]]
  <2>2. h \in [0 .. m + 1 -> D]
    <3>1. G[m + 1][f[m]] \in D
      OBVIOUS
    <3> QED BY <3>1
  <2>3. \A n \in 0 .. m + 1 : h[n] = IF n = 0 THEN b ELSE G[n][h[n - 1]]
    <3> SUFFICES ASSUME NEW n \in 0 .. m + 1 PROVE h[n] = IF n = 0 THEN b ELSE G[n][h[n - 1]]
      OBVIOUS
    <3>1. CASE n = m + 1
      BY <3>1
    <3>2. CASE n # m + 1
      <4>1. n \in 0 .. m /\ h[n] = f[n] /\ (n # 0 => n - 1 \in 0 .. m /\ h[n - 1] = f[n - 1])
        BY <3>2
      <4>2. f[n] = IF n = 0 THEN b ELSE G[n][f[n - 1]]
        BY <2>1, <4>1 DEF Steps
      <4> QED BY <4>1, <4>2
    <3> QED BY <3>1, <3>2
  <2> HIDE DEF h
  <2>4. Steps(h, m + 1, b, G)
    BY <2>2, <2>3 DEF Steps
  <2> QED BY <2>2, <2>4
<1>3. \A n \in 0 .. N : n \in S
  <2> HIDE DEF S
  <2> QED BY <1>1, <1>2, UpTo
<1> QED BY <1>3

Folds(g, N, b, G) ==
  g = [s \in SUBSET (1 .. N) |->
         IF s = {} THEN b ELSE G[Max(s)][g[s \ {Max(s)}]]]

\* FoldLeft goes through the sets of places below: there is a function that
\* does what it asks for.
LEMMA FoldExists ==
  ASSUME NEW N \in Nat, NEW b, NEW G
  PROVE  \E g : Folds(g, N, b, G)
<1> DEFINE S == {m \in 0 .. N : \E g : Folds(g, m, b, G)}
<1>1. 0 \in S
  <2> DEFINE g0 == [s \in SUBSET (1 .. 0) |-> b]
  <2>1. \A s \in SUBSET (1 .. 0) : s = {}
    OBVIOUS
  <2>2. Folds(g0, 0, b, G)
    BY <2>1 DEF Folds
  <2> QED BY <2>2
<1>2. ASSUME NEW m \in 0 .. N - 1, m \in S PROVE m + 1 \in S
  <2>1. PICK g : Folds(g, m, b, G)
    BY <1>2
  <2> DEFINE h == [s \in SUBSET (1 .. m + 1) |->
                     IF m + 1 \in s THEN G[m + 1][g[s \ {m + 1}]] ELSE g[s]]
  <2>2. ASSUME NEW s \in SUBSET (1 .. m + 1)
        PROVE  h[s] = IF s = {} THEN b ELSE G[Max(s)][h[s \ {Max(s)}]]
    <3>1. CASE m + 1 \in s
      <4>1. Max(s) = m + 1
        BY <3>1, MaxIs
      <4>2. s \ {m + 1} \in SUBSET (1 .. m) /\ s \ {m + 1} \in SUBSET (1 .. m + 1)
        OBVIOUS
      <4>3. h[s \ {m + 1}] = g[s \ {m + 1}]
        BY <4>2
      <4> QED BY <3>1, <4>1, <4>3
    <3>2. CASE m + 1 \notin s
      <4>1. s \in SUBSET (1 .. m) /\ h[s] = g[s]
        BY <3>2
      <4>2. g[s] = IF s = {} THEN b ELSE G[Max(s)][g[s \ {Max(s)}]]
        BY <4>1, <2>1 DEF Folds
      <4>3. m + 1 \notin s \ {Max(s)} /\ s \ {Max(s)} \in SUBSET (1 .. m + 1)
        BY <3>2
      <4>4. h[s \ {Max(s)}] = g[s \ {Max(s)}]
        BY <4>3
      <4> QED BY <4>1, <4>2, <4>4
    <3> QED BY <3>1, <3>2
  <2>3. Folds(h, m + 1, b, G)
    <3>1. h = [s \in SUBSET (1 .. m + 1) |-> h[s]]
      OBVIOUS
    <3> HIDE DEF h
    <3> QED BY <2>2, <3>1 DEF Folds
  <2> HIDE DEF h
  <2> QED BY <2>3
<1>3. \A n \in 0 .. N : n \in S
  <2> HIDE DEF S
  <2> QED BY <1>1, <1>2, UpTo
<1> QED BY <1>3

\* A fold whose steps stay in a set stays in it.
LEMMA FoldTypes ==
  ASSUME NEW N \in Nat, NEW D, NEW b \in D, NEW G, NEW g, Folds(g, N, b, G),
         \A n \in 1 .. N, x \in D : G[n][x] \in D
  PROVE  \A s \in SUBSET (1 .. N) : g[s] \in D
<1> DEFINE S == {m \in 0 .. N : \A s \in SUBSET (1 .. m) : g[s] \in D}
<1>1. 0 \in S
  <2>1. \A s \in SUBSET (1 .. 0) : s = {} /\ s \in SUBSET (1 .. N)
    OBVIOUS
  <2> QED BY <2>1 DEF Folds
<1>2. ASSUME NEW m \in 0 .. N - 1, m \in S PROVE m + 1 \in S
  <2>1. ASSUME NEW s \in SUBSET (1 .. m + 1), m + 1 \in s PROVE g[s] \in D
    <3>1. Max(s) = m + 1
      BY <2>1, MaxIs
    <3>2. s \ {m + 1} \in SUBSET (1 .. m) /\ s \in SUBSET (1 .. N) /\ m + 1 \in 1 .. N
      OBVIOUS
    <3>3. g[s \ {m + 1}] \in D
      BY <1>2, <3>2
    <3>4. g[s] = G[m + 1][g[s \ {m + 1}]]
      BY <2>1, <3>1, <3>2 DEF Folds
    <3> QED BY <3>2, <3>3, <3>4
  <2>2. ASSUME NEW s \in SUBSET (1 .. m + 1), m + 1 \notin s PROVE g[s] \in D
    <3>1. s \in SUBSET (1 .. m)
      BY <2>2
    <3> QED BY <3>1, <1>2
  <2> QED BY <2>1, <2>2
<1>3. \A n \in 0 .. N : n \in S
  <2> HIDE DEF S
  <2> QED BY <1>1, <1>2, UpTo
<1> QED BY <1>3

Searches(f, stop, step) == f = [i \in Nat |-> IF i \in stop THEN i ELSE f[step[i]]]

\* A search that goes forward until it stops has an answer.
LEMMA SearchExists ==
  ASSUME NEW L \in Nat, NEW stop \in SUBSET Nat, NEW step \in [Nat -> Nat],
         \A i \in Nat : i \notin stop => i <= L /\ step[i] > i
  PROVE  \E f : Searches(f, stop, step)
<1> DEFINE Solves(f, m) == \A i \in Nat : i > L - m => f[i] = IF i \in stop THEN i ELSE f[step[i]]
           S == {m \in 0 .. L + 1 : \E f : f = [i \in Nat |-> f[i]] /\ Solves(f, m)}
<1>1. 0 \in S
  <2> DEFINE f0 == [i \in Nat |-> i]
  <2>1. f0 = [i \in Nat |-> f0[i]] /\ Solves(f0, 0)
    OBVIOUS
  <2> HIDE DEF f0, Solves
  <2> QED BY <2>1
<1>2. ASSUME NEW m \in 0 .. (L + 1) - 1, m \in S PROVE m + 1 \in S
  <2>1. PICK f : f = [i \in Nat |-> f[i]] /\ Solves(f, m)
    BY <1>2
  <2> DEFINE k == L - m
             h == [i \in Nat |-> IF i = k THEN IF k \in stop THEN k ELSE f[step[k]] ELSE f[i]]
  <2>2. k \in Nat /\ \A i \in Nat : i > L - (m + 1) <=> i >= k
    OBVIOUS
  <2>3. ASSUME NEW i \in Nat, i >= k
        PROVE  h[i] = IF i \in stop THEN i ELSE h[step[i]]
    <3>1. i \notin stop => step[i] \in Nat /\ step[i] > i /\ h[step[i]] = f[step[i]]
      BY <2>2, <2>3
    <3>2. CASE i = k
      BY <2>2, <3>1, <3>2
    <3>3. CASE i # k
      <4>1. i > L - m
        BY <2>2, <2>3, <3>3
      <4> QED BY <2>1, <3>1, <3>3, <4>1
    <3> QED BY <3>2, <3>3
  <2>4. h = [i \in Nat |-> h[i]]
    OBVIOUS
  <2> HIDE DEF h, k
  <2>5. Solves(h, m + 1)
    BY <2>2, <2>3
  <2> HIDE DEF Solves
  <2>6. m + 1 \in 0 .. L + 1
    OBVIOUS
  <2> QED BY <2>4, <2>5, <2>6
<1>3. L + 1 \in S
  <2> HIDE DEF S
  <2>1. L + 1 \in Nat
    OBVIOUS
  <2>2. \A n \in 0 .. L + 1 : n \in S
    BY <1>1, <1>2, <2>1, UpTo
  <2> QED BY <2>1, <2>2
<1>4. PICK f : f = [i \in Nat |-> f[i]] /\ Solves(f, L + 1)
  BY <1>3
<1>5. \A i \in Nat : i > L - (L + 1)
  OBVIOUS
<1>6. \A i \in Nat : f[i] = IF i \in stop THEN i ELSE f[step[i]]
  BY <1>4, <1>5
<1> QED BY <1>4, <1>6 DEF Searches

\* It ends no sooner than it began and no later than the steps can reach.
LEMMA SearchEnds ==
  ASSUME NEW L \in Nat, NEW stop, NEW step, NEW f, Searches(f, stop, step),
         \A i \in Nat : i \notin stop => i <= L /\ step[i] \in Nat /\ step[i] > i /\ step[i] <= L + 1
  PROVE  \A i \in 0 .. L + 1 : f[i] \in i .. L + 1
<1>0. \A i \in Nat : f[i] = IF i \in stop THEN i ELSE f[step[i]]
  BY DEF Searches
<1> DEFINE S == {m \in 0 .. L + 1 : \A i \in 0 .. L + 1 : i >= L + 1 - m => f[i] \in i .. L + 1}
<1>1. 0 \in S
  <2>1. ASSUME NEW i \in 0 .. L + 1, i >= L + 1 - 0 PROVE f[i] \in i .. L + 1
    <3>1. i = L + 1 /\ i \in Nat
      BY <2>1
    <3>2. f[i] = i
      BY <1>0, <3>1
    <3> QED BY <3>1, <3>2
  <2> QED BY <2>1
<1>2. ASSUME NEW m \in 0 .. (L + 1) - 1, m \in S PROVE m + 1 \in S
  <2>1. ASSUME NEW i \in 0 .. L + 1, i = L + 1 - (m + 1) PROVE f[i] \in i .. L + 1
    <3>1. CASE i \in stop
      BY <1>0, <3>1
    <3>2. CASE i \notin stop
      <4>1. step[i] \in 0 .. L + 1 /\ step[i] > i /\ f[i] = f[step[i]]
        BY <1>0, <3>2
      <4>2. step[i] >= L + 1 - m
        BY <2>1, <4>1
      <4>3. f[step[i]] \in step[i] .. L + 1
        BY <1>2, <4>1, <4>2
      <4> QED BY <4>1, <4>3
    <3> QED BY <3>1, <3>2
  <2>2. ASSUME NEW i \in 0 .. L + 1, i >= L + 1 - (m + 1) PROVE f[i] \in i .. L + 1
    <3>1. i >= L + 1 - m \/ i = L + 1 - (m + 1)
      BY <2>2
    <3> QED BY <1>2, <2>1, <3>1
  <2> QED BY <2>2
<1>3. L + 1 \in S
  <2> HIDE DEF S
  <2>1. L + 1 \in Nat
    OBVIOUS
  <2>2. \A n \in 0 .. L + 1 : n \in S
    BY <1>1, <1>2, <2>1, UpTo
  <2> QED BY <2>1, <2>2
<1> QED BY <1>3

IsSeq(s) == s \in Seq({s[k] : k \in DOMAIN s})

\* What appending does to a sequence, of anything.
LEMMA SeqFacts ==
  ASSUME NEW s, IsSeq(s)
  PROVE  Len(s) \in Nat /\ DOMAIN s = 1 .. Len(s) /\ (s = <<>> <=> Len(s) = 0)
BY DEF IsSeq

\* A sequence with one element more.
LEMMA AppendFacts ==
  ASSUME NEW s, IsSeq(s), NEW x
  PROVE  /\ IsSeq(Append(s, x)) /\ Len(Append(s, x)) = Len(s) + 1
         /\ DOMAIN Append(s, x) = 1 .. Len(s) + 1
         /\ \A k \in 1 .. Len(s) : Append(s, x)[k] = s[k]
         /\ Append(s, x)[Len(s) + 1] = x
<1> DEFINE S == {s[k] : k \in DOMAIN s}
           a == Append(s, x)
<1>1. s \in Seq(S)
  BY DEF IsSeq
<1>2. a \in Seq(S \cup {x})
  <2> HIDE DEF S
  <2> QED BY <1>1
<1>3. /\ Len(a) = Len(s) + 1 /\ DOMAIN a = 1 .. Len(s) + 1
      /\ \A k \in 1 .. Len(s) : a[k] = s[k]
      /\ a[Len(s) + 1] = x
  <2> HIDE DEF S
  <2> QED BY <1>1
<1>4. IsSeq(a)
  <2> HIDE DEF a, S
  <2>1. Len(a) \in Nat /\ \A k \in 1 .. Len(a) : a[k] \in {a[j] : j \in DOMAIN a}
    BY <1>2
  <2>2. a = [k \in 1 .. Len(a) |-> a[k]]
    BY <1>2
  <2> QED BY <2>1, <2>2 DEF IsSeq
<1> QED BY <1>3, <1>4

\* A sequence without its first element.
LEMMA TailFacts ==
  ASSUME NEW s, IsSeq(s), s # <<>>
  PROVE  /\ Head(s) = s[1] /\ IsSeq(Tail(s)) /\ Len(Tail(s)) = Len(s) - 1
         /\ DOMAIN Tail(s) = 1 .. Len(s) - 1
         /\ \A k \in 1 .. Len(s) - 1 : Tail(s)[k] = s[k + 1]
<1> DEFINE S == {s[k] : k \in DOMAIN s}
           t == Tail(s)
<1>1. s \in Seq(S)
  BY DEF IsSeq
<1>2. /\ t \in Seq(S) /\ Head(s) = s[1] /\ Len(t) = Len(s) - 1 /\ DOMAIN t = 1 .. Len(s) - 1
      /\ \A k \in 1 .. Len(s) - 1 : t[k] = s[k + 1]
  <2> HIDE DEF S
  <2> QED BY <1>1
<1>3. IsSeq(t)
  <2> HIDE DEF t, S
  <2>1. Len(t) \in Nat /\ \A k \in 1 .. Len(t) : t[k] \in {t[j] : j \in DOMAIN t}
    BY <1>2
  <2>2. t = [k \in 1 .. Len(t) |-> t[k]]
    BY <1>2
  <2> QED BY <2>1, <2>2 DEF IsSeq
<1> QED BY <1>2, <1>3

\* What is a sequence of something is a sequence.
LEMMA SeqIs ==
  ASSUME NEW S, NEW s \in Seq(S)
  PROVE  IsSeq(s)
<1>1. Len(s) \in Nat /\ DOMAIN s = 1 .. Len(s) /\ s = [k \in 1 .. Len(s) |-> s[k]]
  OBVIOUS
<1>2. \A k \in 1 .. Len(s) : s[k] \in {s[j] : j \in DOMAIN s}
  BY <1>1
<1> QED BY <1>1, <1>2 DEF IsSeq

\* What a part of a sequence is.
LEMMA PartFacts ==
  ASSUME NEW s, IsSeq(s), NEW m \in Nat, m >= 1, NEW n \in Nat, n <= Len(s)
  PROVE  /\ IsSeq(SubSeq(s, m, n)) /\ Len(SubSeq(s, m, n)) = IF m <= n THEN n - m + 1 ELSE 0
         /\ \A i \in 1 .. n - m + 1 : SubSeq(s, m, n)[i] = s[m + i - 1]
<1> DEFINE S == {s[k] : k \in DOMAIN s}
<1>1. \A i \in m .. n : s[i] \in S
  BY SeqFacts
<1>2. m \in Int /\ n \in Int
  OBVIOUS
<1> HIDE DEF S
<1>3. /\ SubSeq(s, m, n) \in Seq(S) /\ Len(SubSeq(s, m, n)) = IF m <= n THEN n - m + 1 ELSE 0
      /\ \A i \in 1 .. n - m + 1 : SubSeq(s, m, n)[i] = s[m + i - 1]
  BY <1>1, <1>2, SubSeqProperties
<1> QED BY <1>3, SeqIs

\* What two sequences put together are.
LEMMA JoinFacts ==
  ASSUME NEW s, IsSeq(s), NEW t, IsSeq(t)
  PROVE  /\ IsSeq(s \o t) /\ Len(s \o t) = Len(s) + Len(t)
         /\ \A i \in 1 .. Len(s) + Len(t) :
              (s \o t)[i] = IF i <= Len(s) THEN s[i] ELSE t[i - Len(s)]
<1> DEFINE A == {s[k] : k \in DOMAIN s}  B == {t[k] : k \in DOMAIN t}
<1>1. s \in Seq(A) /\ t \in Seq(B)
  BY DEF IsSeq
<1> HIDE DEF A, B
<1>2. s \in Seq(A \cup B) /\ t \in Seq(A \cup B)
  BY <1>1, SeqMonotonic
<1>3. /\ s \o t \in Seq(A \cup B) /\ Len(s \o t) = Len(s) + Len(t)
      /\ \A i \in 1 .. Len(s) + Len(t) :
           (s \o t)[i] = IF i <= Len(s) THEN s[i] ELSE t[i - Len(s)]
  BY <1>2, ConcatProperties
<1> QED BY <1>3, SeqIs

\* Sequences with the same elements are the same.
LEMMA SameSeq ==
  ASSUME NEW s, IsSeq(s), NEW t, IsSeq(t), Len(s) = Len(t),
         \A i \in 1 .. Len(s) : s[i] = t[i]
  PROVE  s = t
<1>1. s = [i \in 1 .. Len(s) |-> s[i]]
  BY DEF IsSeq
<1>2. t = [i \in 1 .. Len(t) |-> t[i]]
  BY DEF IsSeq
<1> QED BY <1>1, <1>2
=============================================================================
