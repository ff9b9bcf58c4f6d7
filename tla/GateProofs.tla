----------------------------- MODULE GateProofs -----------------------------
(***************************************************************************)
(* What the gates guarantee, for every value of the constants: the NAND    *)
(* filter in Rust and in C, the validity predicate of constraint_dsl.c,    *)
(* the text gates of hyperkitty-ere, the marks and programs of the         *)
(* formalization machine, the texts of the constraint language, and the    *)
(* Boolean expressions of hyperkitty-nand.                                 *)
(***************************************************************************)
EXTENDS NandFilter, ConstraintGate, EREGates, FormalizationMachine, ConstraintParser,
        NandGates, InductionLemmas, SequenceTheorems, FiniteSetTheorems

(***************************************************************************)
(* The NAND filter.  The invariant: a pair that has been looked at has     *)
(* lost one of its experts, each expert that is out has a stronger         *)
(* opponent, and the pairs looked at so far come before the others and     *)
(* tell who is out.                                                        *)
(***************************************************************************)

Activations == UNION {[1 .. n -> [id : Experts, weight : Weights]] : n \in 0 .. MaxActive}
Pairs == {p \in Experts \X Experts : p[1] < p[2]}

NandTypeOK ==
  /\ activations \in Activations
  /\ conflicts \subseteq Pairs
  /\ pending \subseteq find_conflicts(Active(activations), conflicts)
  /\ suppressed \subseteq Active(activations)

\* Every conflict among the active experts is still to come or has cost one.
LookedAt ==
  \A p \in find_conflicts(Active(activations), conflicts) \ pending :
    p[1] \in suppressed \/ p[2] \in suppressed

\* The pairs looked at come before those still to come.
InOrder == \A q \in Done : \A p \in pending : Before(q, p)

NandInv == NandTypeOK /\ LookedAt /\ SuppressedForCause /\ InOrder /\ OrderDecides

\* A stored pair has its lower id first.
LEMMA RegisteredPairs ==
  ASSUME NEW r \in Registries
  PROVE  register(r) \subseteq Pairs
<1>1. r \subseteq Experts \X Experts
  BY FilterBounds
<1>2. ASSUME NEW d \in r, d[1] # d[2]
      PROVE  canonical(d[1], d[2]) \in Pairs
  <2>1. d[1] \in Experts /\ d[2] \in Experts /\ d[1] \in Nat /\ d[2] \in Nat
    BY <1>1, FilterBounds
  <2> QED BY <2>1, <1>2 DEF canonical, Pairs
<1> QED BY <1>2 DEF register

\* The weight of an active expert is that of its first active entry.
LEMMA ActiveWeight ==
  ASSUME NandTypeOK, NEW id \in Active(activations)
  PROVE  /\ WeightOf(id) \in Int /\ id \in Experts
         /\ \E i \in DOMAIN activations : activations[i].id = id /\ WeightOf(id) = activations[i].weight
<1> DEFINE S == {i \in DOMAIN activations : activations[i].id = id /\ activations[i].weight > 0}
<1>1. PICK n \in 0 .. MaxActive : activations \in [1 .. n -> [id : Experts, weight : Weights]]
  BY DEF NandTypeOK, Activations
<1>2. DOMAIN activations = 1 .. n /\ n \in Nat /\ MaxActive \in Nat
  BY <1>1, FilterBounds
<1>3. \A i \in DOMAIN activations : activations[i].id \in Experts /\ activations[i].weight \in Int
  BY <1>1, <1>2, FilterBounds
<1>4. S \in SUBSET Nat /\ S # {}
  BY <1>2 DEF Active
<1>5. PICK k \in S : \A j \in S : k <= j
  BY <1>4, LeastPlace
<1>6. IsFirst(k, id)
  <2>1. ASSUME NEW j \in 1 .. k - 1, activations[j].id = id
        PROVE  activations[j].weight <= 0
    <3>1. j \in DOMAIN activations /\ j < k
      BY <1>2, <1>5
    <3>2. activations[j].weight \in Int /\ j \notin S
      BY <3>1, <1>2, <1>3, <1>4, <1>5
    <3> QED BY <3>1, <3>2, <2>1
  <2> QED BY <1>5, <2>1 DEF IsFirst
<1> DEFINE first == CHOOSE i \in DOMAIN activations : IsFirst(i, id)
<1>7. first \in DOMAIN activations /\ IsFirst(first, id)
  BY <1>5, <1>6
<1>8. WeightOf(id) = activations[first].weight
  BY DEF WeightOf
<1>9. activations[first].id = id
  BY <1>7 DEF IsFirst
<1> HIDE DEF first
<1> QED BY <1>3, <1>5, <1>7, <1>8, <1>9

\* In a conflict between active experts one is beaten by the other.
LEMMA LoserIsBeaten ==
  ASSUME NandTypeOK, NEW p \in find_conflicts(Active(activations), conflicts)
  PROVE  /\ Loser(p) \in {p[1], p[2]} /\ Loser(p) \in Active(activations)
         /\ \E a \in Active(activations) : are_conflicting(a, Loser(p)) /\ Beats(a, Loser(p))
<1>1. p \in conflicts /\ p \in Pairs /\ p[1] \in Active(activations) /\ p[2] \in Active(activations)
  BY DEF find_conflicts, NandTypeOK
<1>2. p = <<p[1], p[2]>> /\ p[1] < p[2] /\ p[1] \in Nat /\ p[2] \in Nat
  <2>1. p \in Experts \X Experts /\ p[1] < p[2]
    BY <1>1 DEF Pairs
  <2>2. p = <<p[1], p[2]>> /\ p[1] \in Experts /\ p[2] \in Experts
    BY <2>1
  <2> QED BY <2>1, <2>2, FilterBounds
<1>3. WeightOf(p[1]) \in Int /\ WeightOf(p[2]) \in Int
  BY <1>1, ActiveWeight
<1>4. are_conflicting(p[1], p[2]) /\ are_conflicting(p[2], p[1])
  BY <1>1, <1>2 DEF are_conflicting, canonical
<1>5. CASE WeightOf(p[2]) < WeightOf(p[1])
  BY <1>1, <1>4, <1>5 DEF Loser, Beats
<1>6. CASE ~(WeightOf(p[2]) < WeightOf(p[1]))
  <2>1. Beats(p[2], p[1])
    BY <1>2, <1>3, <1>6 DEF Beats
  <2> QED BY <1>1, <1>4, <1>6, <2>1 DEF Loser
<1> QED BY <1>5, <1>6

LEMMA InvInit == NandInit => NandInv
<1> SUFFICES ASSUME NandInit PROVE NandInv
  OBVIOUS
<1>1. activations \in Activations /\ suppressed = {}
  BY DEF NandInit, Activations
<1>2. conflicts \subseteq Pairs
  BY RegisteredPairs DEF NandInit
<1>3. pending = find_conflicts(Active(activations), conflicts)
  BY DEF NandInit
<1>4. Done = {}
  BY <1>3 DEF Done
<1>5. InOrder /\ OrderDecides
  BY <1>1, <1>4 DEF InOrder, OrderDecides
<1> QED BY <1>1, <1>2, <1>3, <1>5 DEF NandInv, NandTypeOK, LookedAt, SuppressedForCause

\* Of two pairs one comes before the other, and not the other before it.
LEMMA PairsInOrder ==
  ASSUME NEW p \in Pairs, NEW q \in Pairs
  PROVE  ~(Before(p, q) /\ Before(q, p)) /\ ~Before(p, p)
<1>1. p[1] \in Nat /\ p[2] \in Nat /\ q[1] \in Nat /\ q[2] \in Nat
  BY FilterBounds DEF Pairs
<1> QED BY <1>1 DEF Before

\* What a step adds to the conflicts that fired is its own, if it fires.
LEMMA OrderStep ==
  ASSUME NandInv, NEW p \in pending, Resolve(p)
  PROVE  InOrder' /\ OrderDecides'
<1>1. /\ activations' = activations /\ conflicts' = conflicts /\ pending' = pending \ {p}
      /\ Active(activations)' = Active(activations)
      /\ \A q : Loser(q)' = Loser(q)
  BY DEF Resolve, Active, Loser, WeightOf, IsFirst
<1>2. /\ pending \subseteq find_conflicts(Active(activations), conflicts)
      /\ find_conflicts(Active(activations), conflicts) \subseteq Pairs
  BY DEF NandInv, NandTypeOK, find_conflicts
<1>3. Done' = Done \cup {p} /\ p \notin Done /\ p \in Pairs /\ Done \subseteq Pairs
  BY <1>1, <1>2 DEF Done, find_conflicts
<1>4. \A q \in pending : q = p \/ Before(p, q)
  BY DEF Resolve, IsNext
<1>5. \A q \in Done : Before(q, p) /\ ~Before(p, q)
  <2>1. \A q \in Done : Before(q, p)
    BY DEF NandInv, InOrder
  <2> QED BY <1>3, <2>1, PairsInOrder
<1>6. InOrder'
  BY <1>1, <1>3, <1>4 DEF NandInv, InOrder, Before
<1>7. PICK fired \in SUBSET Done :
        /\ \A q \in Done : q \in fired <=> Fires(q, fired)
        /\ suppressed = {Loser(q) : q \in fired}
  BY DEF NandInv, OrderDecides
<1>8. ~Before(p, p)
  BY <1>3, PairsInOrder
<1>9. CASE {p[1], p[2]} \cap suppressed # {}
  <2>1. suppressed' = suppressed
    BY <1>9 DEF Resolve, Suppress
  <2>2. ~Fires(p, fired)
    BY <1>5, <1>7, <1>9 DEF Fires
  <2>3. \A q \in Done' : q \in fired <=> Fires(q, fired)'
    BY <1>1, <1>3, <1>7, <2>2 DEF Fires
  <2>4. suppressed' = {Loser(q)' : q \in fired}
    BY <1>1, <1>7, <2>1
  <2>5. fired \in SUBSET Done'
    BY <1>3
  <2> QED BY <1>6, <2>3, <2>4, <2>5 DEF OrderDecides, Fires
<1>10. CASE ~({p[1], p[2]} \cap suppressed # {})
  <2> DEFINE more == fired \cup {p}
  <2>1. suppressed' = suppressed \cup {Loser(p)}
    BY <1>10 DEF Resolve, Suppress
  <2>2. Fires(p, more)
    BY <1>7, <1>8, <1>10 DEF Fires
  <2>3. \A q \in Done : Fires(q, more) <=> Fires(q, fired)
    BY <1>5 DEF Fires
  <2>4. \A q \in Done' : q \in more <=> Fires(q, more)'
    BY <1>1, <1>3, <1>7, <2>2, <2>3 DEF Fires
  <2>5. suppressed' = {Loser(q)' : q \in more}
    BY <1>1, <1>7, <2>1
  <2>6. more \in SUBSET Done'
    BY <1>3
  <2> HIDE DEF more
  <2> QED BY <1>6, <2>4, <2>5, <2>6 DEF OrderDecides, Fires
<1> QED BY <1>9, <1>10

LEMMA InvNext == NandInv /\ [NandNext]_nandVars => NandInv'
<1> SUFFICES ASSUME NandInv, [NandNext]_nandVars PROVE NandInv'
  OBVIOUS
<1> USE DEF NandInv
<1>1. CASE UNCHANGED nandVars
  <2>1. activations' = activations /\ conflicts' = conflicts /\ pending' = pending
        /\ suppressed' = suppressed
    BY <1>1 DEF nandVars
  <2>2. Active(activations)' = Active(activations)
    BY <2>1 DEF Active
  <2>3. \A a, b : (are_conflicting(a, b)' <=> are_conflicting(a, b)) /\ (Beats(a, b)' <=> Beats(a, b))
    BY <2>1 DEF are_conflicting, Beats, WeightOf, IsFirst
  <2>4. NandTypeOK'
    BY <2>1, <2>2 DEF NandTypeOK, Activations, find_conflicts
  <2>5. LookedAt'
    BY <2>1, <2>2 DEF LookedAt, find_conflicts
  <2>6. SuppressedForCause'
    BY <2>1, <2>2, <2>3 DEF SuppressedForCause
  <2>7. \A q : Loser(q)' = Loser(q)
    BY <2>1 DEF Loser, WeightOf, IsFirst
  <2>8. Done' = Done
    BY <2>1, <2>2 DEF Done, find_conflicts
  <2>9. InOrder'
    BY <2>1, <2>8 DEF InOrder, Before
  <2>10. OrderDecides'
    BY <2>1, <2>7, <2>8 DEF OrderDecides, Fires
  <2> QED BY <2>4, <2>5, <2>6, <2>9, <2>10
<1>2. ASSUME NEW p \in pending, Resolve(p)
      PROVE  NandInv'
  <2>1. activations' = activations /\ conflicts' = conflicts /\ pending' = pending \ {p}
    BY <1>2 DEF Resolve
  <2>2. p \in find_conflicts(Active(activations), conflicts)
    BY <1>2 DEF NandTypeOK
  <2>3. /\ Loser(p) \in {p[1], p[2]} /\ Loser(p) \in Active(activations)
        /\ \E a \in Active(activations) : are_conflicting(a, Loser(p)) /\ Beats(a, Loser(p))
    BY <2>2, LoserIsBeaten
  <2>4. Active(activations)' = Active(activations)
    BY <2>1 DEF Active
  <2>5. suppressed \subseteq suppressed' /\ suppressed' \subseteq suppressed \cup {Loser(p)}
    BY <1>2 DEF Resolve, Suppress
  <2>6. p[1] \in suppressed' \/ p[2] \in suppressed'
    BY <1>2, <2>3 DEF Resolve, Suppress
  <2>7. \A a, b : (are_conflicting(a, b)' <=> are_conflicting(a, b)) /\ (Beats(a, b)' <=> Beats(a, b))
    BY <2>1 DEF are_conflicting, Beats, WeightOf, IsFirst
  <2>8. NandTypeOK'
    BY <2>1, <2>3, <2>4, <2>5 DEF NandTypeOK, Activations, find_conflicts
  <2>9. LookedAt'
    BY <2>1, <2>4, <2>5, <2>6 DEF LookedAt, find_conflicts
  <2>10. SuppressedForCause'
    BY <2>3, <2>4, <2>5, <2>7 DEF SuppressedForCause
  <2>11. InOrder' /\ OrderDecides'
    BY <1>2, OrderStep
  <2> QED BY <2>8, <2>9, <2>10, <2>11
<1> QED BY <1>1, <1>2 DEF NandNext

\* When nothing is pending, a conflict of two admitted experts would be one
\* that was looked at and cost neither.
LEMMA InvImplies == NandInv => FilterIsSound
<1> SUFFICES ASSUME NandInv PROVE ConflictFree
  BY DEF NandInv, FilterIsSound
<1> SUFFICES ASSUME pending = {}, NEW a \in Active(activations) \ suppressed,
                    NEW b \in Active(activations) \ suppressed, are_conflicting(a, b)
             PROVE  FALSE
  BY DEF ConflictFree
<1>1. canonical(a, b) \in find_conflicts(Active(activations), conflicts)
  BY DEF are_conflicting, canonical, find_conflicts
<1>2. canonical(a, b)[1] \in {a, b} /\ canonical(a, b)[2] \in {a, b}
  BY DEF canonical
<1> QED BY <1>1, <1>2 DEF NandInv, LookedAt

\* The state of the filter is well-typed, and suppressed experts were active.
THEOREM NandTypeCorrect == NandSpec => []NandTypeOK
<1>1. NandInv => NandTypeOK
  BY DEF NandInv
<1> QED BY <1>1, InvInit, InvNext, PTL DEF NandSpec

\* NANDFilter::filter never admits two conflicting experts and never takes an
\* expert out without a stronger active opponent, whatever is registered; and who
\* is out is decided by the conflicts in the order of their ids.
THEOREM FilterSound == NandSpec => []FilterIsSound
BY InvInit, InvNext, InvImplies, PTL DEF NandSpec

(***************************************************************************)
(* The validity predicate.  Beside the bound itself only types are needed. *)
(***************************************************************************)

Vectors  == [1 .. Dim -> Nat \cup {NaN}]
Contexts == [ledger : [asset : {1, 2, NaN}, equity : {1}, liability : {2}, revenue : {0}],
             invariant : [current : Vectors, next : Vectors],
             entropy : {0, 20, 21, NaN}, proof : BOOLEAN]
ContextTypeOK == ctx \in Contexts \cup {None} /\ passed \in Nat /\ steady \subseteq 1 .. Dim
ContextInv == ContextTypeOK /\ DriftIsBounded

\* A message that passes moves a number by at most one tolerance.
LEMMA PropagateDrift ==
  ASSUME ContextInv, Propagate
  PROVE  ContextInv'
<1>1. /\ ctx # None /\ ctx' = [ctx EXCEPT !.invariant.current = ctx.invariant.next]
      /\ passed' = passed + 1 /\ steady' = {i \in steady : IsNumber(ctx.invariant.next[i])}
      /\ check_invariant_preserved(ctx.invariant)
  BY DEF Propagate, hk_constraint_check_all
<1>2. ctx \in Contexts /\ passed \in Nat /\ steady \subseteq 1 .. Dim
  BY <1>1 DEF ContextInv, ContextTypeOK
<1>3. ctx.invariant.current \in Vectors /\ ctx.invariant.next \in Vectors
  BY <1>2 DEF Contexts
<1>4. ctx' \in Contexts /\ ctx'.invariant.current = ctx.invariant.next
  BY <1>1, <1>2, <1>3 DEF Contexts
<1>5. ASSUME NEW i \in steady'
      PROVE  IsNumber(ctx.invariant.next[i]) /\ ctx.invariant.next[i] <= passed + 1
  <2>1. i \in steady /\ i \in 1 .. Dim /\ IsNumber(ctx.invariant.next[i])
    BY <1>1, <1>2
  <2>2. IsNumber(ctx.invariant.current[i]) /\ ctx.invariant.current[i] <= passed
    BY <2>1, <1>1 DEF ContextInv, DriftIsBounded
  <2>3. ctx.invariant.current[i] \in Nat /\ ctx.invariant.next[i] \in Nat
    BY <2>1, <2>2, <1>3 DEF Vectors, IsNumber
  <2>4. ~(FAbs(ctx.invariant.current[i] - ctx.invariant.next[i]) > 1)
    BY <2>1, <2>2, <1>1 DEF check_invariant_preserved, MovedTooFar
  <2>5. ctx.invariant.next[i] <= ctx.invariant.current[i] + 1
    BY <2>3, <2>4 DEF FAbs
  <2> QED BY <2>1, <2>2, <2>3, <2>5, <1>2
<1>6. DriftIsBounded'
  BY <1>1, <1>4, <1>5 DEF DriftIsBounded, IsNumber
<1> QED BY <1>1, <1>2, <1>4, <1>6 DEF ContextInv, ContextTypeOK

LEMMA ContextInvNext == ContextInv /\ [ContextNext]_ctxVars => ContextInv'
<1> SUFFICES ASSUME ContextInv, [ContextNext]_ctxVars PROVE ContextInv'
  OBVIOUS
<1> USE DEF ContextInv
<1>1. Dim \in Nat /\ NaN \notin Int /\ Readings \subseteq Nat
  BY GateAssumption
<1>2. Zero \in Vectors
  BY <1>1 DEF Zero, Vectors
<1>3. CASE hk_constraint_context_alloc
  <2> DEFINE fresh == [ledger |-> [asset |-> 1, equity |-> 1, liability |-> 2, revenue |-> 0],
                       invariant |-> [current |-> Zero, next |-> Zero], entropy |-> 0, proof |-> FALSE]
  <2>0. fresh \in Contexts
    BY <1>2 DEF Contexts
  <2>1. ctx' \in Contexts \cup {None} /\ passed' = 0 /\ steady' = 1 .. Dim
    BY <2>0, <1>3 DEF hk_constraint_context_alloc
  <2>2. ctx' # None => ctx'.invariant.current = Zero
    BY <1>3 DEF hk_constraint_context_alloc
  <2>3. \A i \in 1 .. Dim : IsNumber(Zero[i]) /\ Zero[i] <= 0
    BY <1>1 DEF Zero, IsNumber
  <2> QED BY <2>1, <2>2, <2>3 DEF ContextTypeOK, DriftIsBounded, IsNumber
<1>4. CASE hk_constraint_context_free
  BY <1>4 DEF hk_constraint_context_free, ContextTypeOK, DriftIsBounded
<1>5. CASE Write
  <2>1. ctx # None /\ ctx \in Contexts /\ passed' = passed /\ steady' = steady
    BY <1>5 DEF Write, ContextTypeOK
  <2>2. ctx' \in Contexts /\ ctx'.invariant.current = ctx.invariant.current
    <3>1. CASE \E v \in [1 .. Dim -> Readings \cup {NaN}] : ctx' = [ctx EXCEPT !.invariant.next = v]
      <4>1. PICK v \in [1 .. Dim -> Readings \cup {NaN}] : ctx' = [ctx EXCEPT !.invariant.next = v]
        BY <3>1
      <4>2. v \in Vectors
        BY <1>1 DEF Vectors
      <4> QED BY <4>1, <4>2, <2>1 DEF Contexts
    <3>2. CASE \E x \in {1, 2, NaN} : ctx' = [ctx EXCEPT !.ledger.asset = x]
      BY <3>2, <2>1 DEF Contexts
    <3>3. CASE \E h \in {0, 20, 21, NaN} : ctx' = [ctx EXCEPT !.entropy = h]
      BY <3>3, <2>1 DEF Contexts
    <3>4. CASE \E b \in BOOLEAN : ctx' = [ctx EXCEPT !.proof = b]
      BY <3>4, <2>1 DEF Contexts
    <3> QED BY <1>5, <3>1, <3>2, <3>3, <3>4 DEF Write
  <2> QED BY <2>1, <2>2 DEF ContextTypeOK, DriftIsBounded, IsNumber
<1>6. CASE Propagate
  BY <1>6, PropagateDrift
<1>7. CASE UNCHANGED ctxVars
  BY <1>7 DEF ctxVars, ContextTypeOK, DriftIsBounded, IsNumber
<1> QED BY <1>3, <1>4, <1>5, <1>6, <1>7 DEF ContextNext

\* hk_constraint_check_all: after n messages no component that has been a number
\* all along is more than n tolerances from where it started.
THEOREM DriftBounded == ContextSpec => []DriftIsBounded
<1>1. ContextInit => ContextInv
  BY DEF ContextInit, ContextInv, ContextTypeOK, DriftIsBounded
<1>2. ContextInv => DriftIsBounded
  BY DEF ContextInv
<1> QED BY <1>1, <1>2, ContextInvNext, PTL DEF ContextSpec

(***************************************************************************)
(* The text gates.  A line of the text is a line of one of the two parts.  *)
(***************************************************************************)

LEMMA PartsOfText ==
  ASSUME artifact \in Seq(Lines), NEW k \in Cuts
  PROVE  /\ DOMAIN artifact = 1 .. Len(artifact) /\ Len(artifact) \in Nat
         /\ k \in Nat /\ k <= Len(artifact)
         /\ DOMAIN Upper(k) = 1 .. k /\ DOMAIN Lower(k) = 1 .. Len(artifact) - k
         /\ \A n \in 1 .. k : Upper(k)[n] = artifact[n]
         /\ \A n \in 1 .. Len(artifact) - k : Lower(k)[n] = artifact[n + k]
BY DEF Cuts, Upper, Lower

\* A line behind the cut is a line of the lower part, and the reverse.
LEMMA LowerPlace ==
  ASSUME artifact \in Seq(Lines), NEW k \in Cuts, NEW n \in DOMAIN artifact, ~(n <= k)
  PROVE  n - k \in DOMAIN Lower(k) /\ artifact[n] = Lower(k)[n - k]
<1>1. n \in 1 .. Len(artifact) /\ k \in Nat /\ Len(artifact) \in Nat
  BY PartsOfText
<1>2. n - k \in 1 .. Len(artifact) - k /\ (n - k) + k = n
  BY <1>1
<1> QED BY <1>2, PartsOfText

LEMMA PlaceOfLower ==
  ASSUME artifact \in Seq(Lines), NEW k \in Cuts, NEW n \in DOMAIN Lower(k)
  PROVE  n + k \in DOMAIN artifact /\ artifact[n + k] = Lower(k)[n]
<1>1. n \in 1 .. Len(artifact) - k /\ k \in Nat /\ Len(artifact) \in Nat
  BY PartsOfText
<1>2. n + k \in 1 .. Len(artifact)
  BY <1>1
<1> QED BY <1>1, <1>2, PartsOfText

LEMMA SecretsCompose ==
  ASSUME artifact \in Seq(Lines), NEW k \in Cuts
  PROVE  check_secrets(artifact) = {} <=> check_secrets(Upper(k)) = {} /\ check_secrets(Lower(k)) = {}
<1> DEFINE Fine(l)  == \A s \in Secrets : s \notin l.marks
           Clean(a) == \A n \in DOMAIN a : Fine(a[n])
<1>1. ASSUME NEW a, Clean(a)
      PROVE  check_secrets(a) = {}
  BY <1>1 DEF check_secrets
<1>2. ASSUME NEW a, check_secrets(a) = {}
      PROVE  Clean(a)
  <2> SUFFICES ASSUME NEW n \in DOMAIN a, NEW s \in Secrets, s \in a[n].marks
               PROVE  FALSE
    OBVIOUS
  <2>1. <<n, s>> \in check_secrets(a)
    BY DEF check_secrets
  <2> QED BY <1>2, <2>1
<1> HIDE DEF Fine
<1>3. ASSUME Clean(artifact)
      PROVE  Clean(Upper(k)) /\ Clean(Lower(k))
  <2>1. ASSUME NEW n \in DOMAIN Upper(k)
        PROVE  Fine(Upper(k)[n])
    BY <1>3, PartsOfText
  <2>2. ASSUME NEW n \in DOMAIN Lower(k)
        PROVE  Fine(Lower(k)[n])
    <3>1. n + k \in DOMAIN artifact /\ Lower(k)[n] = artifact[n + k]
      BY PlaceOfLower
    <3> QED BY <1>3, <3>1
  <2> QED BY <2>1, <2>2
<1>4. ASSUME Clean(Upper(k)), Clean(Lower(k)), NEW n \in DOMAIN artifact
      PROVE  Fine(artifact[n])
  <2>1. CASE n <= k
    BY <1>4, <2>1, PartsOfText
  <2>2. CASE ~(n <= k)
    BY <1>4, <2>2, LowerPlace
  <2> QED BY <2>1, <2>2
<1> QED BY <1>1, <1>2, <1>3, <1>4

LEMMA EvalCompose ==
  ASSUME artifact \in Seq(Lines), NEW k \in Cuts
  PROVE  check_eval(artifact) = {} <=> check_eval(Upper(k)) = {} /\ check_eval(Lower(k)) = {}
<1> DEFINE Fine(l)  == "comment" \in l.marks \/ \A s \in Evals : s \notin l.marks
           Clean(a) == \A n \in DOMAIN a : Fine(a[n])
<1>1. ASSUME NEW a, Clean(a)
      PROVE  check_eval(a) = {}
  BY <1>1 DEF check_eval
<1>2. ASSUME NEW a, check_eval(a) = {}
      PROVE  Clean(a)
  <2> SUFFICES ASSUME NEW n \in DOMAIN a, NEW s \in Evals, s \in a[n].marks,
                      "comment" \notin a[n].marks
               PROVE  FALSE
    OBVIOUS
  <2>1. <<n, s>> \in check_eval(a)
    BY DEF check_eval
  <2> QED BY <1>2, <2>1
<1> HIDE DEF Fine
<1>3. ASSUME Clean(artifact)
      PROVE  Clean(Upper(k)) /\ Clean(Lower(k))
  <2>1. ASSUME NEW n \in DOMAIN Upper(k)
        PROVE  Fine(Upper(k)[n])
    BY <1>3, PartsOfText
  <2>2. ASSUME NEW n \in DOMAIN Lower(k)
        PROVE  Fine(Lower(k)[n])
    <3>1. n + k \in DOMAIN artifact /\ Lower(k)[n] = artifact[n + k]
      BY PlaceOfLower
    <3> QED BY <1>3, <3>1
  <2> QED BY <2>1, <2>2
<1>4. ASSUME Clean(Upper(k)), Clean(Lower(k)), NEW n \in DOMAIN artifact
      PROVE  Fine(artifact[n])
  <2>1. CASE n <= k
    BY <1>4, <2>1, PartsOfText
  <2>2. CASE ~(n <= k)
    BY <1>4, <2>2, LowerPlace
  <2> QED BY <2>1, <2>2
<1> QED BY <1>1, <1>2, <1>3, <1>4

\* The way out that a loop has in its part is as near in the whole text.
LEMMA LoopsCompose ==
  ASSUME artifact \in Seq(Lines), NEW k \in Cuts,
         check_loops(Upper(k)) = {}, check_loops(Lower(k)) = {}
  PROVE  check_loops(artifact) = {}
<1> DEFINE Endless == {"while(true)", "for(;;)"}
           Ends(a) == \A n \in DOMAIN a :
                        /\ \A s \in Endless : s \notin a[n].marks
                        /\ "loop {" \in a[n].marks => HasExit(a, n)
<1>1. \A a : check_loops(a) = {} <=> Ends(a)
  BY DEF check_loops, Has
<1>2. LookAhead \in Nat
  BY GateBounds
<1>3. ASSUME NEW n \in DOMAIN artifact
      PROVE  /\ \A s \in Endless : s \notin artifact[n].marks
             /\ "loop {" \in artifact[n].marks => HasExit(artifact, n)
  <2>1. CASE n <= k
    <3>1. n \in DOMAIN Upper(k) /\ artifact[n] = Upper(k)[n]
      BY <2>1, PartsOfText
    <3>2. HasExit(Upper(k), n) => HasExit(artifact, n)
      BY <2>1, <1>2, PartsOfText DEF HasExit
    <3> QED BY <1>1, <3>1, <3>2
  <2>2. CASE ~(n <= k)
    <3>1. n - k \in DOMAIN Lower(k) /\ artifact[n] = Lower(k)[n - k]
      BY <2>2, LowerPlace
    <3>2. ASSUME HasExit(Lower(k), n - k)
          PROVE  HasExit(artifact, n)
      <4>1. PICK m \in DOMAIN Lower(k) :
              /\ n - k <= m /\ m < n - k + LookAhead
              /\ Lower(k)[m].marks \cap {"break", "return"} # {}
        BY <3>2 DEF HasExit
      <4>2. m + k \in DOMAIN artifact /\ artifact[m + k] = Lower(k)[m]
        BY PlaceOfLower
      <4>3. m \in Nat /\ k \in Nat /\ n \in Nat
        BY PartsOfText
      <4>4. n <= m + k /\ m + k < n + LookAhead
        BY <4>1, <4>3, <1>2
      <4> QED BY <4>1, <4>2, <4>4 DEF HasExit
    <3> QED BY <1>1, <3>1, <3>2
  <2> QED BY <2>1, <2>2
<1> QED BY <1>1, <1>3

\* check_secrets, check_eval and check_loops of hyperkitty-ere: a text made of
\* clean parts is clean, and for the first two a clean text has clean parts,
\* whatever lines it is made of and however far the loop gate looks ahead.
THEOREM GatesComposeAlways == ERESpec => []GatesCompose
<1> DEFINE Typed == artifact \in Seq(Lines)
<1>1. EREInit => Typed
  BY DEF EREInit
<1>2. Typed /\ [ERENext]_ereVars => Typed'
  BY DEF ERENext, Submit, ereVars
<1>3. Typed => GatesCompose
  BY SecretsCompose, EvalCompose, LoopsCompose DEF GatesCompose
<1> QED BY <1>1, <1>2, <1>3, PTL DEF ERESpec

(***************************************************************************)
(* The filter of hyperkitty_nand.c. One round is stable, so its cascade is *)
(* one round, and what that round keeps the Rust filter keeps.             *)
(***************************************************************************)

\* One round of the C filter is stable, so the cascade ends after it.
LEMMA FilterIsStable ==
  ASSUME NEW m \in SUBSET Nat
  PROVE  hk_nand_filter(hk_nand_filter(m)) = hk_nand_filter(m)
BY DEF hk_nand_filter

\* A second round of the C filter finds what the first one left.
LEMMA CascadeIsOneRound ==
  ASSUME NEW m \in SUBSET Experts
  PROVE  hk_nand_filter_cascading(m) = hk_nand_filter(m)
<1> DEFINE F(x) == hk_nand_filter(x)
           Cascades(f) == f = [n \in 0 .. 10 |-> [mask \in SUBSET Experts |->
                            IF n = 0 \/ F(mask) = mask THEN mask ELSE f[n - 1][F(mask)]]]
           g == [n \in 0 .. 10 |-> [mask \in SUBSET Experts |-> IF n = 0 THEN mask ELSE F(mask)]]
<1>1. \A x \in SUBSET Experts : F(x) \in SUBSET Experts /\ F(F(x)) = F(x)
  <2>1. \A x \in SUBSET Experts : x \in SUBSET Nat
    BY FilterBounds
  <2> QED BY <2>1, FilterIsStable DEF hk_nand_filter
<1> HIDE DEF F
<1>2. Cascades(g)
  <2>1. ASSUME NEW n \in 0 .. 10, NEW x \in SUBSET Experts
        PROVE  (IF n = 0 THEN x ELSE F(x)) = IF n = 0 \/ F(x) = x THEN x ELSE g[n - 1][F(x)]
    <3>1. n # 0 => n - 1 \in 0 .. 10
      OBVIOUS
    <3> QED BY <1>1, <3>1
  <2> QED BY <2>1, Zenon
<1> DEFINE f == CHOOSE h : Cascades(h)
<1>3. Cascades(f)
  <2> HIDE DEF Cascades
  <2> QED BY <1>2
<1>4. hk_nand_filter_cascading(m) = f[10][m]
  BY DEF hk_nand_filter_cascading, Cascade, F
<1> HIDE DEF f
<1>5. ASSUME NEW n \in 0 .. 10, NEW x \in SUBSET Experts
      PROVE  f[n][x] = IF n = 0 \/ F(x) = x THEN x ELSE f[n - 1][F(x)]
  <2>1. f[n] = [mask \in SUBSET Experts |->
                  IF n = 0 \/ F(mask) = mask THEN mask ELSE f[n - 1][F(mask)]]
    BY <1>3, Zenon
  <2> QED BY <2>1
<1> HIDE DEF Cascades
<1>6. f[9][F(m)] = F(m)
  BY <1>1, <1>5
<1>7. f[10][m] = F(m)
  <2>1. 10 - 1 = 9 /\ 10 # 0 /\ 10 \in 0 .. 10
    OBVIOUS
  <2> QED BY <1>5, <1>6, <2>1
<1> QED BY <1>4, <1>7 DEF F

LEMMA CFilterImplied == NandInv => CFilterIsStricter
<1> SUFFICES ASSUME NandInv PROVE CFilterIsStricter
  OBVIOUS
<1> DEFINE mask == Active(activations)
           left == hk_nand_filter(mask)
<1>1. mask \in SUBSET Experts /\ mask \in SUBSET Nat /\ \A id \in mask : WeightOf(id) \in Int
  BY ActiveWeight, FilterBounds DEF NandInv
<1>2. hk_nand_filter_cascading(mask) = left
  BY <1>1, CascadeIsOneRound
<1> HIDE DEF mask
<1>3. \A i, j \in left : i % 2 = j % 2
  <2>1. ASSUME NEW i \in left, NEW j \in left, i < j PROVE i % 2 = j % 2
    BY <2>1 DEF hk_nand_filter
  <2>2. \A i, j \in left : i \in Nat /\ j \in Nat
    BY <1>1 DEF hk_nand_filter
  <2> QED BY <2>1, <2>2
<1>4. ASSUME mask # {} PROVE \E i \in left : \A j \in mask : i <= j
  <2>1. PICK i \in mask : \A j \in mask : i <= j
    BY <1>1, <1>4, LeastPlace
  <2>2. i \in left
    BY <1>1, <2>1 DEF hk_nand_filter
  <2> QED BY <2>1, <2>2
<1>5. ASSUME Falling, conflicts = ParityPairs, NEW j \in left, j \in suppressed PROVE FALSE
  <2>1. PICK a \in mask : are_conflicting(a, j) /\ Beats(a, j)
    BY <1>5 DEF NandInv, SuppressedForCause, mask
  <2>2. j \in mask /\ j \in Nat /\ a \in Nat /\ a # j
    BY <1>1, <2>1 DEF hk_nand_filter, are_conflicting
  <2>3. a % 2 # j % 2
    <3>1. canonical(a, j) \in ParityPairs
      BY <1>5, <2>1 DEF are_conflicting
    <3> QED BY <2>2, <3>1 DEF canonical, ParityPairs
  <2>4. PICK k \in DOMAIN activations : activations[k].id = a /\ WeightOf(a) = activations[k].weight
    BY <2>1, ActiveWeight DEF NandInv, mask
  <2>5. PICK l \in DOMAIN activations : activations[l].id = j /\ WeightOf(j) = activations[l].weight
    BY <2>2, ActiveWeight DEF NandInv, mask
  <2>6. a > j => WeightOf(j) > WeightOf(a)
    BY <1>5, <2>2, <2>4, <2>5 DEF Falling
  <2>7. a < j => WeightOf(a) > WeightOf(j)
    BY <1>5, <2>2, <2>4, <2>5 DEF Falling
  <2>8. a < j
    BY <1>1, <2>1, <2>2, <2>6 DEF Beats
  <2> QED BY <2>2, <2>3, <2>8, <1>1 DEF hk_nand_filter
<1>6. left \subseteq mask
  BY DEF hk_nand_filter
<1> HIDE DEF left
<1> QED BY <1>2, <1>3, <1>4, <1>5, <1>6 DEF CFilterIsStricter, mask, left

\* The cascade of hk_nand_filter is stable after one round, leaves one parity
\* and, on equal terms, nobody the Rust filter suppresses: for all experts.
THEOREM CFilterStricter == NandSpec => []CFilterIsStricter
BY InvInit, InvNext, CFilterImplied, PTL DEF NandSpec

(***************************************************************************)
(* The two marks of the formalization machine, for every set of invariants *)
(* and every order of calls. The property is inductive beside the types:   *)
(* artifacts are only ever added, and never change their id.               *)
(***************************************************************************)

Artifact == [id : Ids, status : ProverStatus]
Obligation == [id : Ids, from : Provers, to : Provers, status : {"Unresolved", "Validated"}]

FMTypeOK ==
  /\ DOMAIN registry \subseteq Ids /\ \A i \in DOMAIN registry : registry[i] \in Polarity
  /\ artifacts \in [Provers -> Seq(Artifact)]
  /\ obligations \in Seq(Obligation)

FMInv == FMTypeOK /\ MarksGoToTheOldest

(***************************************************************************)
(* Lemmas                                                                  *)
(***************************************************************************)

\* If artifacts only gain entries and keep their ids, what existed still does.
LEMMA ExistingStays ==
  ASSUME \A p, id : Emitted(p, id) => Emitted(p, id)',
         NEW o, ArtifactsExist(o)
  PROVE  ArtifactsExist(o)'
BY DEF ArtifactsExist

\* Obligations that stay as they are keep the first mark's promise.
LEMMA PrefixKept ==
  ASSUME ValidatedIsAPrefix, \A p, id : Emitted(p, id) => Emitted(p, id)',
         obligations' = obligations
  PROVE  ValidatedIsAPrefix'
<1>1. Validated' = Validated /\ \A id : Matching(id)' = Matching(id)
  BY DEF Validated, Matching
<1> SUFFICES ASSUME NEW k \in Validated, NEW j \in Matching(obligations[k].id), j <= k
             PROVE  j \in Validated /\ ArtifactsExist(obligations[j])'
  BY <1>1 DEF ValidatedIsAPrefix
<1>2. j \in Validated /\ ArtifactsExist(obligations[j])
  BY DEF ValidatedIsAPrefix
<1> QED BY <1>2, ExistingStays

(***************************************************************************)
(* The invariant                                                           *)
(***************************************************************************)

LEMMA FMInvInit == FMInit => FMInv
<1> SUFFICES ASSUME FMInit PROVE FMInv
  OBVIOUS
<1>1. FMTypeOK
  BY DEF FMInit, FMTypeOK
<1>2. ValidatedIsAPrefix
  BY DEF FMInit, ValidatedIsAPrefix, Validated
<1>3. OldestIsRecorded
  BY DEF FMInit, OldestIsRecorded
<1> QED BY <1>1, <1>2, <1>3 DEF FMInv, MarksGoToTheOldest

\* Steps that touch neither artifacts nor obligations.
LEMMA OthersKeep ==
  ASSUME FMInv, artifacts' = artifacts, obligations' = obligations,
         DOMAIN registry' \subseteq Ids, \A i \in DOMAIN registry' : registry'[i] \in Polarity
  PROVE  FMInv'
<1>1. \A p, id : Emitted(p, id) => Emitted(p, id)'
  BY DEF Emitted
<1>2. FMTypeOK'
  BY DEF FMInv, FMTypeOK
<1>3. ValidatedIsAPrefix'
  BY <1>1, PrefixKept DEF FMInv, MarksGoToTheOldest
<1>4. OldestIsRecorded'
  BY DEF FMInv, MarksGoToTheOldest, OldestIsRecorded
<1> QED BY <1>2, <1>3, <1>4 DEF FMInv, MarksGoToTheOldest

LEMMA EmitKeeps ==
  ASSUME FMInv, NEW p \in Provers, NEW id \in Ids, emit_artifact(p, id)
  PROVE  FMInv'
<1> DEFINE a == [id |-> id, status |-> "GeneratedUnverified"]
<1>1. a \in Artifact /\ artifacts \in [Provers -> Seq(Artifact)]
  BY DEF Artifact, ProverStatus, FMInv, FMTypeOK
<1>2. /\ artifacts' = [artifacts EXCEPT ![p] = Append(@, a)]
      /\ UNCHANGED <<registry, obligations, iterations>>
  BY DEF emit_artifact
<1>3. \A q \in Provers : artifacts[q] \in Seq(Artifact)
  BY <1>1
<1>4. /\ DOMAIN artifacts'[p] = DOMAIN artifacts[p] \cup {Len(artifacts[p]) + 1}
      /\ \A k \in DOMAIN artifacts[p] : artifacts'[p][k] = artifacts[p][k]
      /\ artifacts'[p][Len(artifacts[p]) + 1] = a
  <2> HIDE DEF a
  <2> QED BY <1>1, <1>2, <1>3
<1>5. \A q \in Provers \ {p} : artifacts'[q] = artifacts[q]
  BY <1>1, <1>2
<1>6. FMTypeOK'
  <2>1. artifacts' \in [Provers -> Seq(Artifact)]
    <3> HIDE DEF a
    <3> QED BY <1>1, <1>2
  <2> QED BY <2>1, <1>2 DEF FMInv, FMTypeOK
<1>7. \A q \in Provers : \A i : Emitted(q, i) => Emitted(q, i)'
  BY <1>4, <1>5 DEF Emitted
<1>8. OldestIsRecorded'
  BY <1>3, <1>4, <1>5 DEF OldestIsRecorded, FMInv, MarksGoToTheOldest
<1>9. ValidatedIsAPrefix'
  <2>1. Validated' = Validated /\ \A i : Matching(i)' = Matching(i)
    BY <1>2 DEF Validated, Matching
  <2> SUFFICES ASSUME NEW k \in Validated, NEW j \in Matching(obligations[k].id), j <= k
               PROVE  j \in Validated /\ ArtifactsExist(obligations[j])'
    BY <2>1, <1>2 DEF ValidatedIsAPrefix
  <2>2. j \in Validated /\ ArtifactsExist(obligations[j])
    BY DEF ValidatedIsAPrefix, FMInv, MarksGoToTheOldest
  <2> QED BY <2>2, <1>2, <1>7 DEF ArtifactsExist, Provers
<1> QED BY <1>6, <1>8, <1>9 DEF FMInv, MarksGoToTheOldest

LEMMA RecordKeeps ==
  ASSUME FMInv, NEW p \in Provers, NEW id \in Ids, NEW s \in ProverStatus, record_status(p, id, s)
  PROVE  FMInv'
<1>1. PICK k \in DOMAIN artifacts[p] :
        /\ artifacts[p][k].id = id
        /\ \A j \in 1 .. k - 1 : artifacts[p][j].id # id
        /\ artifacts' = [artifacts EXCEPT ![p][k].status = s]
        /\ UNCHANGED <<registry, obligations, iterations>>
  BY DEF record_status
<1>2. artifacts \in [Provers -> Seq(Artifact)] /\ \A q \in Provers : artifacts[q] \in Seq(Artifact)
  BY DEF FMInv, FMTypeOK
<1>3. \A q \in Provers : /\ DOMAIN artifacts'[q] = DOMAIN artifacts[q]
                         /\ \A j \in DOMAIN artifacts[q] : artifacts'[q][j].id = artifacts[q][j].id
                         /\ \A j \in DOMAIN artifacts[q] :
                              q # p \/ j # k => artifacts'[q][j] = artifacts[q][j]
  BY <1>1, <1>2 DEF Artifact
<1>4. artifacts' \in [Provers -> Seq(Artifact)]
  <2>1. artifacts[p][k] \in Artifact
    BY <1>2
  <2>2. [artifacts[p][k] EXCEPT !.status = s] \in Artifact
    BY <2>1 DEF Artifact
  <2>3. [artifacts[p] EXCEPT ![k] = [artifacts[p][k] EXCEPT !.status = s]] \in Seq(Artifact)
    BY <1>2, <2>2
  <2>4. artifacts' = [artifacts EXCEPT ![p] =
                        [artifacts[p] EXCEPT ![k] = [artifacts[p][k] EXCEPT !.status = s]]]
    BY <1>1
  <2> QED BY <1>2, <2>3, <2>4
<1>5. FMTypeOK'
  BY <1>1, <1>4 DEF FMInv, FMTypeOK
<1>6. \A q \in Provers : \A i : Emitted(q, i) => Emitted(q, i)'
  BY <1>3 DEF Emitted
<1>7. OldestIsRecorded'
  <2> SUFFICES ASSUME NEW q \in Provers, NEW i \in DOMAIN artifacts[q], NEW j \in DOMAIN artifacts[q],
                      i < j, artifacts[q][i].id = artifacts[q][j].id
               PROVE  artifacts'[q][j].status = "GeneratedUnverified"
    BY <1>3 DEF OldestIsRecorded
  <2>1. artifacts[q][j].status = "GeneratedUnverified"
    BY DEF OldestIsRecorded, FMInv, MarksGoToTheOldest
  <2>2. q # p \/ j # k
    <3>1. i \in Nat /\ j \in Nat /\ 1 <= i
      BY <1>2
    <3> QED BY <3>1, <1>1
  <2> QED BY <2>1, <2>2, <1>3
<1>8. ValidatedIsAPrefix'
  <2>1. Validated' = Validated /\ \A i : Matching(i)' = Matching(i)
    BY <1>1 DEF Validated, Matching
  <2> SUFFICES ASSUME NEW m \in Validated, NEW j \in Matching(obligations[m].id), j <= m
               PROVE  j \in Validated /\ ArtifactsExist(obligations[j])'
    BY <2>1, <1>1 DEF ValidatedIsAPrefix
  <2>2. j \in Validated /\ ArtifactsExist(obligations[j])
    BY DEF ValidatedIsAPrefix, FMInv, MarksGoToTheOldest
  <2> QED BY <2>2, <1>1, <1>6 DEF ArtifactsExist, Provers
<1> QED BY <1>5, <1>7, <1>8 DEF FMInv, MarksGoToTheOldest

\* A new obligation comes last and is not marked.
LEMMA CreateKeeps ==
  ASSUME FMInv, NEW from \in Provers, NEW to \in Provers, NEW id \in Ids,
         create_correspondence(from, to, id)
  PROVE  FMInv'
<1> DEFINE o == [id |-> id, from |-> from, to |-> to, status |-> "Unresolved"]
<1>1. obligations' = Append(obligations, o) /\ UNCHANGED <<registry, artifacts, iterations>>
  BY DEF create_correspondence
<1>2. o \in Obligation /\ obligations \in Seq(Obligation)
  BY DEF Obligation, FMInv, FMTypeOK
<1>3. o.status # "Validated"
  OBVIOUS
<1>4. /\ DOMAIN obligations' = DOMAIN obligations \cup {Len(obligations) + 1}
      /\ DOMAIN obligations = 1 .. Len(obligations) /\ Len(obligations) \in Nat
      /\ \A k \in DOMAIN obligations : obligations'[k] = obligations[k]
      /\ obligations'[Len(obligations) + 1] = o
  <2> HIDE DEF o
  <2> QED BY <1>1, <1>2
<1>5. FMTypeOK'
  <2>1. obligations' \in Seq(Obligation)
    <3> HIDE DEF o
    <3> QED BY <1>1, <1>2
  <2> QED BY <2>1, <1>1 DEF FMInv, FMTypeOK
<1>6. OldestIsRecorded'
  BY <1>1 DEF OldestIsRecorded, FMInv, MarksGoToTheOldest
<1>7. ValidatedIsAPrefix'
  <2>1. Validated' = Validated
    <3> HIDE DEF o
    <3> QED BY <1>3, <1>4 DEF Validated
  <2>2. ASSUME NEW k \in Validated, NEW j \in Matching(obligations[k].id)', j <= k
        PROVE  j \in Validated' /\ ArtifactsExist(obligations[j])'
    <3>1. k \in DOMAIN obligations /\ obligations'[k] = obligations[k] /\ k <= Len(obligations)
      BY <1>4 DEF Validated
    <3>2. j \in DOMAIN obligations'
      BY DEF Matching
    <3>3. j \in DOMAIN obligations /\ obligations'[j] = obligations[j]
      BY <3>1, <3>2, <2>2, <1>4
    <3>4. j \in Matching(obligations[k].id)
      BY <3>1, <3>3 DEF Matching
    <3>5. j \in Validated /\ ArtifactsExist(obligations[j])
      BY <3>4, <2>2 DEF ValidatedIsAPrefix, FMInv, MarksGoToTheOldest
    <3> QED BY <2>1, <3>3, <3>5, <1>1 DEF ArtifactsExist, Emitted
  <2> QED BY <2>1, <2>2 DEF ValidatedIsAPrefix
<1> QED BY <1>5, <1>6, <1>7 DEF FMInv, MarksGoToTheOldest

\* Marking checks every obligation of the invariant first, so that the older
\* ones of a marked one are marked too, and leaves the other invariants alone.
LEMMA ValidateKeeps ==
  ASSUME FMInv, NEW id \in Ids, validate_correspondence(id)
  PROVE  FMInv'
<1> USE DEF FMInv, MarksGoToTheOldest
<1>1. /\ AllValid(id) /\ UNCHANGED <<registry, artifacts, iterations>>
      /\ obligations' = [k \in DOMAIN obligations |->
                           IF k \in Matching(id) THEN [obligations[k] EXCEPT !.status = "Validated"]
                           ELSE obligations[k]]
  BY DEF validate_correspondence
<1>2. obligations \in Seq(Obligation) /\ \A k \in DOMAIN obligations : obligations[k] \in Obligation
  BY DEF FMTypeOK
<1>3. \A k \in DOMAIN obligations :
        /\ obligations'[k] \in Obligation
        /\ obligations'[k].id = obligations[k].id
        /\ obligations'[k].from = obligations[k].from /\ obligations'[k].to = obligations[k].to
        /\ obligations'[k].status = IF k \in Matching(id) THEN "Validated" ELSE obligations[k].status
  BY <1>1, <1>2 DEF Obligation
<1>4. DOMAIN obligations' = DOMAIN obligations
  BY <1>1
<1>5. FMTypeOK'
  <2>1. obligations' \in Seq(Obligation)
    <3>1. obligations' \in [1 .. Len(obligations) -> Obligation] /\ Len(obligations) \in Nat
      BY <1>1, <1>2, <1>3, <1>4
    <3> QED BY <3>1
  <2> QED BY <2>1, <1>1 DEF FMTypeOK
<1>6. OldestIsRecorded'
  BY <1>1 DEF OldestIsRecorded
<1>7. \A i : Matching(i)' = Matching(i)
  BY <1>3, <1>4 DEF Matching
<1>8. \A k \in DOMAIN obligations : ArtifactsExist(obligations[k])' <=> ArtifactsExist(obligations[k])
  BY <1>1, <1>3 DEF ArtifactsExist, Emitted
<1>9. Validated' = Validated \cup Matching(id)
  BY <1>3, <1>4 DEF Validated, Matching
<1>10. ASSUME NEW k \in Validated', NEW j \in Matching(obligations[k].id)', j <= k
       PROVE  j \in Validated' /\ ArtifactsExist(obligations[j])'
  <2>1. k \in DOMAIN obligations /\ obligations'[k].id = obligations[k].id
    BY <1>3, <1>9 DEF Validated, Matching
  <2>2. j \in Matching(obligations[k].id) /\ j \in DOMAIN obligations
    BY <2>1, <1>7, <1>10 DEF Matching
  <2>3. CASE k \in Matching(id)
    <3>1. j \in Matching(id)
      BY <2>2, <2>3 DEF Matching
    <3> QED BY <3>1, <2>2, <1>1, <1>8, <1>9 DEF AllValid
  <2>4. CASE k \notin Matching(id)
    <3>1. k \in Validated
      BY <2>4, <1>9
    <3> QED BY <3>1, <2>2, <1>8, <1>9, <1>10 DEF ValidatedIsAPrefix
  <2> QED BY <2>3, <2>4
<1>11. ValidatedIsAPrefix'
  BY <1>10 DEF ValidatedIsAPrefix
<1> QED BY <1>5, <1>6, <1>11

LEMMA FMInvNext == FMInv /\ [FMNext]_fmVars => FMInv'
<1> SUFFICES ASSUME FMInv, [FMNext]_fmVars PROVE FMInv'
  OBVIOUS
<1>1. DOMAIN registry \subseteq Ids /\ \A i \in DOMAIN registry : registry[i] \in Polarity
  BY DEF FMInv, FMTypeOK
<1>2. ASSUME NEW id \in Ids, NEW q \in Polarity, register_invariant(id, q)
      PROVE  FMInv'
  <2>1. DOMAIN registry' = DOMAIN registry \cup {id} /\ artifacts' = artifacts
        /\ obligations' = obligations
    BY <1>2 DEF register_invariant, add_invariant
  <2>2. \A i \in DOMAIN registry' : registry'[i] \in Polarity
    BY <1>1, <1>2, <2>1 DEF register_invariant, add_invariant
  <2> QED BY <1>1, <2>1, <2>2, OthersKeep
<1>3. ASSUME NEW id \in Ids, NEW p \in Provers, emit_artifact(p, id)
      PROVE  FMInv'
  BY <1>3, EmitKeeps
<1>4. ASSUME NEW id \in Ids, NEW p \in Provers, NEW s \in ProverStatus, record_status(p, id, s)
      PROVE  FMInv'
  BY <1>4, RecordKeeps
<1>5. ASSUME NEW id \in Ids, create_hol_lean_correspondence(id)
      PROVE  FMInv'
  BY <1>5, CreateKeeps DEF create_hol_lean_correspondence, Provers
<1>6. ASSUME NEW id \in Ids, create_lean_agda_correspondence(id)
      PROVE  FMInv'
  BY <1>6, CreateKeeps DEF create_lean_agda_correspondence, Provers
<1>7. ASSUME NEW id \in Ids, validate_correspondence(id)
      PROVE  FMInv'
  BY <1>7, ValidateKeeps
<1>8. ASSUME NEW id \in Ids, generate_agda_iterations(id)
      PROVE  FMInv'
  BY <1>1, <1>8, OthersKeep DEF generate_agda_iterations
<1>9. CASE UNCHANGED fmVars
  BY <1>1, <1>9, OthersKeep DEF fmVars
<1> QED BY <1>2, <1>3, <1>4, <1>5, <1>6, <1>7, <1>8, <1>9 DEF FMNext

\* What the machine holds is well-typed, whatever is called in whatever order.
THEOREM FMTypeCorrect == FMSpec => []FMTypeOK
<1>1. FMInv => FMTypeOK
  BY DEF FMInv
<1> QED BY <1>1, FMInvInit, FMInvNext, PTL DEF FMSpec

\* A mark "Validated" covers every older obligation of the same invariant, and
\* a prover's status goes to the oldest artifact of its name only.
THEOREM MarksAreTheOldest == FMSpec => []MarksGoToTheOldest
<1>1. FMInv => MarksGoToTheOldest
  BY DEF FMInv
<1> QED BY <1>1, FMInvInit, FMInvNext, PTL DEF FMSpec

(***************************************************************************)
(* The program made of the registry.                                       *)
(***************************************************************************)

FinitelyMany == IsFiniteSet(DOMAIN registry)

\* The order a finite set is walked in visits every member.
LEMMA SomeOrder ==
  ASSUME NEW S, IsFiniteSet(S)
  PROVE  /\ Cardinality(S) \in Nat
         /\ SetToSeq(S) \in [1 .. Cardinality(S) -> S]
         /\ \A x \in S : \E k \in 1 .. Cardinality(S) : SetToSeq(S)[k] = x
<1> DEFINE n == Cardinality(S)
           f == SetToSeq(S)
<1>1. PICK m \in Nat : ExistsBijection(1 .. m, S)
  BY FS_NatBijection
<1>2. n = m /\ n \in Nat
  BY <1>1, FS_CountingElements
<1>3. \E g \in [1 .. n -> S] : IsInjective(g)
  BY <1>1, <1>2 DEF ExistsBijection, Bijection, Injection
<1>4. f \in [1 .. n -> S] /\ IsInjective(f)
  <2> HIDE DEF n
  <2> QED BY <1>3 DEF SetToSeq, n
<1> HIDE DEF n, f
<1>5. f \in Injection(1 .. n, S)
  BY <1>4 DEF Injection
<1>6. IsFiniteSet(1 .. n) /\ Cardinality(1 .. n) = n
  <2>1. Cardinality(1 .. n) = IF 1 > n THEN 0 ELSE n - 1 + 1
    BY <1>2, FS_Interval
  <2> QED BY <1>2, <2>1, FS_Interval
<1>7. f \in Surjection(1 .. n, S)
  BY <1>5, <1>6, FS_Injection DEF n
<1> QED BY <1>2, <1>4, <1>7 DEF Surjection, n, f

\* Verified artifacts of one prover have different invariants.
LEMMA VerifiedAreDistinct ==
  ASSUME FMInv, NEW p \in Provers
  PROVE  Cardinality(Verified(p)) <= Cardinality({artifacts[p][k].id : k \in DOMAIN artifacts[p]})
<1> DEFINE D == DOMAIN artifacts[p]
           ids == {artifacts[p][k].id : k \in D}
           id == [k \in Verified(p) |-> artifacts[p][k].id]
           all == [k \in D |-> artifacts[p][k].id]
<1>1. artifacts[p] \in Seq(Artifact)
  BY DEF FMInv, FMTypeOK
<1>2. D = 1 .. Len(artifacts[p]) /\ Len(artifacts[p]) \in Nat
  BY <1>1
<1>3. IsFiniteSet(D)
  BY <1>2, FS_Interval
<1>4. all \in Surjection(D, ids)
  BY DEF Surjection
<1>5. IsFiniteSet(ids)
  <2> HIDE DEF all, ids, D
  <2> QED BY <1>3, <1>4, FS_Surjection
<1>6. \A j, k \in Verified(p) : artifacts[p][j].id = artifacts[p][k].id => j = k
  <2>1. \A j, k \in D : j < k /\ artifacts[p][j].id = artifacts[p][k].id
                        => artifacts[p][k].status = "GeneratedUnverified"
    BY DEF FMInv, MarksGoToTheOldest, OldestIsRecorded
  <2>2. \A k \in Verified(p) : k \in D /\ artifacts[p][k].status # "GeneratedUnverified"
    BY DEF Verified
  <2> QED BY <1>2, <2>1, <2>2
<1>7. id \in Injection(Verified(p), ids)
  <2>1. \A k \in Verified(p) : artifacts[p][k].id \in ids
    BY DEF Verified
  <2> HIDE DEF ids
  <2> QED BY <1>6, <2>1 DEF Injection, IsInjective
<1> HIDE DEF id, ids
<1> QED BY <1>5, <1>7, FS_Injection DEF ids

\* The program has one constraint for each registered invariant, in some order.
LEMMA ProgramIsRegistry ==
  ASSUME FinitelyMany
  PROVE  /\ Len(to_constraint_program) = Cardinality(DOMAIN registry)
         /\ DOMAIN to_constraint_program = 1 .. Cardinality(DOMAIN registry)
         /\ \A k \in DOMAIN to_constraint_program :
              \E id \in DOMAIN registry :
                 to_constraint_program[k] = Constraint(id, id, <<Predicate(id)>>,
                                              IF registry[id] = "Negative" THEN "Reject" ELSE "Accept")
         /\ \A id \in DOMAIN registry :
              \E k \in DOMAIN to_constraint_program :
                 to_constraint_program[k] = Constraint(id, id, <<Predicate(id)>>,
                                              IF registry[id] = "Negative" THEN "Reject" ELSE "Accept")
<1> DEFINE S == DOMAIN registry
           n == Cardinality(S)
           order == SetToSeq(S)
           C(id) == Constraint(id, id, <<Predicate(id)>>, IF registry[id] = "Negative" THEN "Reject" ELSE "Accept")
<1>1. n \in Nat /\ order \in [1 .. n -> S] /\ \A x \in S : \E k \in 1 .. n : order[k] = x
  BY SomeOrder DEF FinitelyMany
<1>2. to_constraint_program = [k \in 1 .. n |-> C(order[k])]
  BY DEF to_constraint_program
<1> HIDE DEF n, order, C
<1>3. Len(to_constraint_program) = n /\ DOMAIN to_constraint_program = 1 .. n
      /\ \A k \in 1 .. n : to_constraint_program[k] = C(order[k])
  BY <1>1, <1>2
<1> QED BY <1>1, <1>3 DEF n, C

\* What a constraint made of an invariant says.
LEMMA InvariantHolds ==
  ASSUME NEW id, NEW T, NEW other
  PROVE  ConstraintHolds(Constraint(id, id, <<Predicate(id)>>, other), [i \in T |-> TRUE])
           <=> id \in T \/ other = "Accept"
<1> DEFINE c == Constraint(id, id, <<Predicate(id)>>, other)
           b == [i \in T |-> TRUE]
<1>1. c.requires = <<Predicate(id)>> /\ c.otherwise = other
  BY DEF Constraint
<1>2. DOMAIN c.requires = {1} /\ c.requires[1] = Predicate(id)
  BY <1>1
<1>3. Predicate(id) # Check("always_true") /\ Predicate(id) # Check("always_false")
      /\ Predicate(id).name = id
  <2>1. Predicate(id).kind = "Predicate" /\ Predicate(id).name = id
        /\ \A x : Check(x).kind = "Check"
    BY DEF Predicate, Check
  <2> QED BY <2>1
<1>4. Bound(b, id) <=> id \in T
  BY DEF Bound
<1>5. RequirementHolds(Predicate(id), b) <=> id \in T
  BY <1>3, <1>4, Zenon DEF RequirementHolds
<1> HIDE DEF c, b
<1>6. ConstraintHolds(c, b) <=> id \in T \/ other = "Accept"
  BY <1>1, <1>2, <1>5 DEF ConstraintHolds
<1> QED BY <1>6 DEF c, b

LEMMA RejectsImplied == FMInv /\ FinitelyMany => ProgramRejectsNegatives
<1> SUFFICES ASSUME FMInv, FinitelyMany PROVE ProgramRejectsNegatives
  OBVIOUS
<1>1. Len(to_constraint_program) = summary.total_invariants
  BY ProgramIsRegistry DEF summary
<1>2. ASSUME NEW p \in Provers
      PROVE  summary.verified[p] <= Cardinality({artifacts[p][k].id : k \in DOMAIN artifacts[p]})
  BY VerifiedAreDistinct DEF summary
<1>3. ASSUME NEW T \in SUBSET Ids
      PROVE  evaluate(to_constraint_program, [i \in T |-> TRUE])
               <=> \A id \in DOMAIN registry : registry[id] = "Negative" => id \in T
  <2> DEFINE other(id) == IF registry[id] = "Negative" THEN "Reject" ELSE "Accept"
             C(id) == Constraint(id, id, <<Predicate(id)>>, other(id))
             b == [i \in T |-> TRUE]
             P == to_constraint_program
  <2>1. /\ \A k \in DOMAIN P : \E id \in DOMAIN registry : P[k] = C(id)
        /\ \A id \in DOMAIN registry : \E k \in DOMAIN P : P[k] = C(id)
    BY ProgramIsRegistry
  <2>2. \A id : ConstraintHolds(C(id), b) <=> id \in T \/ other(id) = "Accept"
    BY InvariantHolds
  <2>3. \A id : other(id) = "Accept" <=> registry[id] # "Negative"
    OBVIOUS
  <2> HIDE DEF C, b, other, P
  <2>4. evaluate(P, b) <=> \A id \in DOMAIN registry : registry[id] = "Negative" => id \in T
    BY <2>1, <2>2, <2>3 DEF evaluate
  <2> QED BY <2>4 DEF P, b
<1> QED BY <1>1, <1>2, <1>3 DEF ProgramRejectsNegatives

\* Nothing is recorded at first.
LEMMA FinitelyManyInit == FMInit => FinitelyMany
<1> SUFFICES ASSUME FMInit PROVE FinitelyMany
  OBVIOUS
<1>1. DOMAIN registry = {}
  BY DEF FMInit
<1> QED BY <1>1, FS_EmptySet DEF FinitelyMany

\* A call adds one invariant, artifact or obligation at most.
LEMMA FinitelyManyNext == FinitelyMany /\ [FMNext]_fmVars => FinitelyMany'
<1> SUFFICES ASSUME FinitelyMany, [FMNext]_fmVars PROVE FinitelyMany'
  OBVIOUS
<1>1. ASSUME NEW id, NEW q, register_invariant(id, q) PROVE FinitelyMany'
  <2>1. DOMAIN registry' = DOMAIN registry \cup {id}
    BY <1>1 DEF register_invariant, add_invariant
  <2> QED BY <2>1, FS_AddElement DEF FinitelyMany
<1>2. ASSUME registry' = registry PROVE FinitelyMany'
  BY <1>2 DEF FinitelyMany
<1>3. ASSUME NEW id, NEW p, NEW s,
             \/ emit_artifact(p, id) \/ record_status(p, id, s)
             \/ create_hol_lean_correspondence(id) \/ create_lean_agda_correspondence(id)
             \/ validate_correspondence(id) \/ generate_agda_iterations(id)
      PROVE  registry' = registry
  BY <1>3 DEF emit_artifact, record_status, create_hol_lean_correspondence,
              create_lean_agda_correspondence, create_correspondence, validate_correspondence,
              generate_agda_iterations
<1>4. UNCHANGED fmVars => registry' = registry
  BY DEF fmVars
<1> QED BY <1>1, <1>2, <1>3, <1>4 DEF FMNext

\* to_constraint_program rejects exactly when the check of a registered negative
\* invariant fails, and no prover has verified more than it has artifacts of.
THEOREM NegativesReject == FMSpec => []ProgramRejectsNegatives
BY FMInvInit, FMInvNext, FinitelyManyInit, FinitelyManyNext, RejectsImplied, PTL DEF FMSpec

(***************************************************************************)
(* The parser of the constraint language. The invariant says that the      *)
(* tokens read are the texts of the constraints parsed, followed by what   *)
(* the place in the descent says of the one being parsed.                  *)
(***************************************************************************)

(***************************************************************************)
(* Flattening a sequence of texts.                                         *)
(***************************************************************************)
Flattens(f, texts, N) ==
  f = [i \in 1 .. N |-> IF i = 1 THEN texts[i] ELSE f[i - 1] \o texts[i]]

\* The partial joins of a sequence of texts exist.
LEMMA FlatExists ==
  ASSUME NEW N \in Nat, NEW texts
  PROVE  \E f : Flattens(f, texts, N)
<1> DEFINE S == {m \in 0 .. N : \E f : Flattens(f, texts, m)}
<1>1. 0 \in S
  <2> DEFINE f0 == [i \in 1 .. 0 |-> texts[i]]
  <2>1. \A i : i \notin 1 .. 0
    OBVIOUS
  <2>2. Flattens(f0, texts, 0)
    BY <2>1 DEF Flattens
  <2> HIDE DEF f0
  <2> QED BY <2>2
<1>2. ASSUME NEW m \in 0 .. N - 1, m \in S PROVE m + 1 \in S
  <2>1. PICK f : Flattens(f, texts, m)
    BY <1>2
  <2> DEFINE h == [i \in 1 .. m + 1 |-> IF i = 1 THEN texts[i] ELSE f[i - 1] \o texts[i]]
  <2>2. ASSUME NEW i \in 1 .. m + 1
        PROVE  h[i] = IF i = 1 THEN texts[i] ELSE h[i - 1] \o texts[i]
    <3>1. CASE i = 1
      BY <3>1
    <3>2. CASE i # 1
      <4>1. i - 1 \in 1 .. m /\ i - 1 \in 1 .. m + 1
        BY <3>2
      <4>2. f[i - 1] = IF i - 1 = 1 THEN texts[i - 1] ELSE f[i - 1 - 1] \o texts[i - 1]
        BY <2>1, <4>1 DEF Flattens
      <4>3. h[i - 1] = IF i - 1 = 1 THEN texts[i - 1] ELSE f[i - 1 - 1] \o texts[i - 1]
        BY <4>1
      <4>4. h[i - 1] = f[i - 1]
        BY <4>2, <4>3
      <4>5. h[i] = f[i - 1] \o texts[i]
        BY <3>2
      <4> HIDE DEF h
      <4> QED BY <3>2, <4>4, <4>5
    <3> QED BY <3>1, <3>2
  <2>3. Flattens(h, texts, m + 1)
    <3>1. h = [i \in 1 .. m + 1 |-> h[i]]
      OBVIOUS
    <3> HIDE DEF h
    <3> QED BY <2>2, <3>1 DEF Flattens
  <2> HIDE DEF h
  <2> QED BY <2>3
<1>3. \A n \in 0 .. N : n \in S
  <2> HIDE DEF S
  <2> QED BY <1>1, <1>2, UpTo
<1> QED BY <1>3

\* FlattenSeq is the last of the partial joins.
LEMMA FlatSteps ==
  ASSUME NEW N \in Nat, N # 0, NEW texts, Len(texts) = N
  PROVE  \E f : FlattenSeq(texts) = f[N] /\ Flattens(f, texts, N)
<1> DEFINE IsFlat(g) == g = [i \in 1 .. N |-> IF i = 1 THEN texts[i] ELSE g[i - 1] \o texts[i]]
           f == CHOOSE g : IsFlat(g)
<1>1. \A g : IsFlat(g) <=> Flattens(g, texts, N)
  BY Zenon DEF Flattens
<1>2. FlattenSeq(texts) = f[N]
  BY DEF FlattenSeq
<1>3. Flattens(f, texts, N)
  <2>1. \E g : IsFlat(g)
    <3> HIDE DEF IsFlat
    <3> QED BY <1>1, FlatExists
  <2>2. IsFlat(f)
    <3> HIDE DEF IsFlat
    <3> QED BY <2>1, Zenon
  <2> HIDE DEF IsFlat, f
  <2> QED BY <1>1, <2>2
<1> HIDE DEF f
<1> QED BY <1>2, <1>3

\* Texts put together are a text.
LEMMA FlatIs ==
  ASSUME NEW S, NEW texts \in Seq(Seq(S))
  PROVE  FlattenSeq(texts) \in Seq(S)
<1> DEFINE N == Len(texts)
<1>1. N \in Nat /\ \A i \in 1 .. N : texts[i] \in Seq(S)
  OBVIOUS
<1>2. CASE N = 0
  <2>1. FlattenSeq(texts) = texts
    BY <1>2 DEF FlattenSeq
  <2>2. texts = <<>>
    BY <1>2
  <2>3. <<>> \in Seq(S)
    OBVIOUS
  <2> QED BY <2>1, <2>2, <2>3
<1>3. CASE N # 0
  <2>1. PICK f : FlattenSeq(texts) = f[N] /\ Flattens(f, texts, N)
    BY <1>1, <1>3, FlatSteps
  <2> DEFINE T == {m \in 0 .. N : m # 0 => f[m] \in Seq(S)}
  <2>2. 0 \in T
    BY <1>1
  <2>3. ASSUME NEW m \in 0 .. N - 1, m \in T PROVE m + 1 \in T
    <3>1. m + 1 \in 1 .. N /\ m + 1 \in 0 .. N /\ (m + 1) - 1 = m
      BY <1>1
    <3>2. f[m + 1] = IF m + 1 = 1 THEN texts[m + 1] ELSE f[m] \o texts[m + 1]
      BY <2>1, <3>1 DEF Flattens
    <3>3. texts[m + 1] \in Seq(S)
      BY <1>1, <3>1
    <3>4. CASE m = 0
      <4>1. f[m + 1] = texts[m + 1]
        BY <3>2, <3>4
      <4> QED BY <3>1, <3>3, <4>1
    <3>5. CASE m # 0
      <4>0. m + 1 # 1
        BY <1>1, <3>5
      <4>1. f[m] \in Seq(S) /\ f[m + 1] = f[m] \o texts[m + 1]
        <5>1. f[m] \in Seq(S)
          BY <2>3, <3>5
        <5>2. f[m + 1] = f[m] \o texts[m + 1]
          BY <3>2, <4>0
        <5> QED BY <5>1, <5>2
      <4>2. f[m] \o texts[m + 1] \in Seq(S)
        BY <3>3, <4>1, ConcatProperties
      <4> QED BY <3>1, <4>1, <4>2
    <3> QED BY <3>4, <3>5
  <2>4. \A m \in 0 .. N : m \in T
    <3> HIDE DEF T, N
    <3> QED BY <1>1, <2>2, <2>3, UpTo
  <2>5. f[N] \in Seq(S)
    BY <1>1, <1>3, <2>4
  <2> QED BY <2>1, <2>5
<1> QED BY <1>2, <1>3

\* A text more is that text at the end.
LEMMA FlatOfMore ==
  ASSUME NEW S, NEW texts \in Seq(Seq(S)), NEW text \in Seq(S)
  PROVE  FlattenSeq(Append(texts, text)) = FlattenSeq(texts) \o text
<1> DEFINE N == Len(texts)
           more == Append(texts, text)
<1>1. /\ N \in Nat /\ Len(more) = N + 1 /\ more[N + 1] = text
      /\ \A i \in 1 .. N : more[i] = texts[i]
  OBVIOUS
<1> HIDE DEF more
<1>2. PICK h : FlattenSeq(more) = h[N + 1] /\ Flattens(h, more, N + 1)
  <2> DEFINE M == N + 1
  <2>1. M \in Nat /\ M # 0 /\ Len(more) = M
    BY <1>1
  <2> HIDE DEF M
  <2>2. \E h : FlattenSeq(more) = h[M] /\ Flattens(h, more, M)
    BY <2>1, FlatSteps
  <2> QED BY <2>2 DEF M
<1>3. N + 1 \in 1 .. N + 1 /\ (N + 1) - 1 = N
  BY <1>1
<1>4. h[N + 1] = IF N + 1 = 1 THEN text ELSE h[N] \o text
  BY <1>1, <1>2, <1>3 DEF Flattens
<1>5. CASE N = 0
  <2>1. h[N + 1] = text
    BY <1>4, <1>5
  <2>2. FlattenSeq(texts) = <<>>
    BY <1>5 DEF FlattenSeq
  <2>3. <<>> \o text = text
    BY ConcatEmptySeq
  <2> QED BY <1>2, <2>1, <2>2, <2>3 DEF more
<1>6. CASE N # 0
  <2>1. PICK f : FlattenSeq(texts) = f[N] /\ Flattens(f, texts, N)
    BY <1>1, <1>6, FlatSteps
  <2> DEFINE T == {m \in 0 .. N : m # 0 => h[m] = f[m]}
  <2>2. 0 \in T
    BY <1>1
  <2>3. ASSUME NEW m \in 0 .. N - 1, m \in T PROVE m + 1 \in T
    <3>1. m + 1 \in 1 .. N /\ m + 1 \in 1 .. N + 1 /\ m + 1 \in 0 .. N /\ (m + 1) - 1 = m
      BY <1>1
    <3>2. /\ f[m + 1] = IF m + 1 = 1 THEN texts[m + 1] ELSE f[m] \o texts[m + 1]
          /\ h[m + 1] = IF m + 1 = 1 THEN more[m + 1] ELSE h[m] \o more[m + 1]
      BY <1>2, <2>1, <3>1 DEF Flattens
    <3>3. more[m + 1] = texts[m + 1]
      BY <1>1, <3>1
    <3>4. m # 0 => h[m] = f[m]
      BY <2>3
    <3>5. f[m + 1] = h[m + 1]
      BY <3>2, <3>3, <3>4
    <3> QED BY <3>1, <3>5
  <2>4. \A m \in 0 .. N : m \in T
    <3> HIDE DEF T, N
    <3> QED BY <1>1, <2>2, <2>3, UpTo
  <2>5. h[N] = f[N]
    BY <1>1, <1>6, <2>4
  <2>6. h[N + 1] = h[N] \o text
    BY <1>1, <1>4, <1>6
  <2> QED BY <1>2, <2>1, <2>5, <2>6 DEF more
<1> QED BY <1>5, <1>6

(***************************************************************************)
(* Texts of a few tokens.                                                  *)
(***************************************************************************)
LEMMA Append1 ==
  ASSUME NEW a
  PROVE  Append(<<>>, a) = <<a>>
<1> DEFINE s == Append(<<>>, a)
           t == <<a>>
<1>1. s = [i \in 1 .. 1 |-> s[i]] /\ t = [i \in 1 .. 1 |-> t[i]]
  OBVIOUS
<1>2. s[1] = t[1]
  OBVIOUS
<1> HIDE DEF s, t
<1>3. \A i \in 1 .. 1 : s[i] = t[i]
  <2>1. \A i \in 1 .. 1 : i = 1
    OBVIOUS
  <2> QED BY <1>2, <2>1
<1>4. s = t
  BY <1>1, <1>3
<1> QED BY <1>4 DEF s, t

\* Appending to a short text writes one token more.
LEMMA Append2 ==
  ASSUME NEW a, NEW b
  PROVE  Append(<<a>>, b) = <<a, b>>
<1> DEFINE s == Append(<<a>>, b)
           t == <<a, b>>
<1>1. s = [i \in 1 .. 2 |-> s[i]] /\ t = [i \in 1 .. 2 |-> t[i]]
  OBVIOUS
<1>2. s[1] = t[1] /\ s[2] = t[2]
  OBVIOUS
<1> HIDE DEF s, t
<1>3. \A i \in 1 .. 2 : s[i] = t[i]
  <2>1. \A i \in 1 .. 2 : i = 1 \/ i = 2
    OBVIOUS
  <2> QED BY <1>2, <2>1
<1>4. s = t
  BY <1>1, <1>3
<1> QED BY <1>4 DEF s, t

LEMMA Append3 ==
  ASSUME NEW a, NEW b, NEW c
  PROVE  Append(<<a, b>>, c) = <<a, b, c>>
<1> DEFINE s == Append(<<a, b>>, c)
           t == <<a, b, c>>
<1>1. s = [i \in 1 .. 3 |-> s[i]] /\ t = [i \in 1 .. 3 |-> t[i]]
  OBVIOUS
<1>2. s[1] = t[1] /\ s[2] = t[2] /\ s[3] = t[3]
  OBVIOUS
<1> HIDE DEF s, t
<1>3. \A i \in 1 .. 3 : s[i] = t[i]
  <2>1. \A i \in 1 .. 3 : i = 1 \/ i = 2 \/ i = 3
    OBVIOUS
  <2> QED BY <1>2, <2>1
<1>4. s = t
  BY <1>1, <1>3
<1> QED BY <1>4 DEF s, t

LEMMA Append4 ==
  ASSUME NEW a, NEW b, NEW c, NEW d
  PROVE  Append(<<a, b, c>>, d) = <<a, b, c, d>>
<1> DEFINE s == Append(<<a, b, c>>, d)
           t == <<a, b, c, d>>
<1>1. s = [i \in 1 .. 4 |-> s[i]] /\ t = [i \in 1 .. 4 |-> t[i]]
  OBVIOUS
<1>2. s[1] = t[1] /\ s[2] = t[2] /\ s[3] = t[3] /\ s[4] = t[4]
  OBVIOUS
<1> HIDE DEF s, t
<1>3. \A i \in 1 .. 4 : s[i] = t[i]
  <2>1. \A i \in 1 .. 4 : i = 1 \/ i = 2 \/ i = 3 \/ i = 4
    OBVIOUS
  <2> QED BY <1>2, <2>1
<1>4. s = t
  BY <1>1, <1>3
<1> QED BY <1>4 DEF s, t

LEMMA Append5 ==
  ASSUME NEW a, NEW b, NEW c, NEW d, NEW e
  PROVE  Append(<<a, b, c, d>>, e) = <<a, b, c, d, e>>
<1> DEFINE s == Append(<<a, b, c, d>>, e)
           t == <<a, b, c, d, e>>
<1>1. s = [i \in 1 .. 5 |-> s[i]] /\ t = [i \in 1 .. 5 |-> t[i]]
  OBVIOUS
<1>2. s[1] = t[1] /\ s[2] = t[2] /\ s[3] = t[3] /\ s[4] = t[4] /\ s[5] = t[5]
  OBVIOUS
<1> HIDE DEF s, t
<1>3. \A i \in 1 .. 5 : s[i] = t[i]
  <2>1. \A i \in 1 .. 5 : i = 1 \/ i = 2 \/ i = 3 \/ i = 4 \/ i = 5
    OBVIOUS
  <2> QED BY <1>2, <2>1
<1>4. s = t
  BY <1>1, <1>3
<1> QED BY <1>4 DEF s, t

LEMMA Append6 ==
  ASSUME NEW a, NEW b, NEW c, NEW d, NEW e, NEW f
  PROVE  Append(<<a, b, c, d, e>>, f) = <<a, b, c, d, e, f>>
<1> DEFINE s == Append(<<a, b, c, d, e>>, f)
           t == <<a, b, c, d, e, f>>
<1>1. s = [i \in 1 .. 6 |-> s[i]] /\ t = [i \in 1 .. 6 |-> t[i]]
  OBVIOUS
<1>2. s[1] = t[1] /\ s[2] = t[2] /\ s[3] = t[3] /\ s[4] = t[4] /\ s[5] = t[5] /\ s[6] = t[6]
  OBVIOUS
<1> HIDE DEF s, t
<1>3. \A i \in 1 .. 6 : s[i] = t[i]
  <2>1. \A i \in 1 .. 6 : i = 1 \/ i = 2 \/ i = 3 \/ i = 4 \/ i = 5 \/ i = 6
    OBVIOUS
  <2> QED BY <1>2, <2>1
<1>4. s = t
  BY <1>1, <1>3
<1> QED BY <1>4 DEF s, t

\* A sequence and its elements, with one more at the end.
LEMMA AsFunction ==
  ASSUME NEW S, NEW s \in Seq(S), NEW x \in S
  PROVE  /\ s = [i \in 1 .. Len(s) |-> s[i]] /\ Append(s, x) = [i \in 1 .. Len(s) + 1 |-> Append(s, x)[i]]
         /\ Append(s, x)[Len(s) + 1] = x /\ \A i \in 1 .. Len(s) : Append(s, x)[i] = s[i]
<1>1. \A t \in Seq(S) : t = [i \in 1 .. Len(t) |-> t[i]]
  BY LenProperties
<1>2. /\ Append(s, x) \in Seq(S) /\ Len(Append(s, x)) = Len(s) + 1
      /\ Append(s, x)[Len(s) + 1] = x /\ \A i \in 1 .. Len(s) : Append(s, x)[i] = s[i]
  OBVIOUS
<1> QED BY <1>1, <1>2

\* What is appended to a text is appended to its last part.
LEMMA AppendInside ==
  ASSUME NEW S, NEW p \in Seq(S), NEW q \in Seq(S), NEW x \in S
  PROVE  /\ Append(p \o q, x) = p \o Append(q, x) /\ p \o <<x>> = Append(p, x)
         /\ p \o q \in Seq(S) /\ p \o <<>> = p /\ Append(p, x) \in Seq(S)
<1>1. p \o q \in Seq(S) /\ Append(p, x) \in Seq(S)
  BY ConcatProperties, AppendProperties
<1>2. p \o <<>> = p
  BY ConcatEmptySeq
<1>3. Append(p \o q, x) = p \o Append(q, x) /\ p \o <<x>> = Append(p, x)
  OBVIOUS
<1> QED BY <1>1, <1>2, <1>3

\* The tokens of a predicate.
LEMMA ThreeWords ==
  ASSUME NEW S, NEW a \in S, NEW b \in S, NEW c \in S
  PROVE  <<a, b>> \o <<>> \o <<c>> = <<a, b, c>> /\ <<a, b, c>> \in Seq(S)
<1>1. <<a, b, c>> \in Seq(S) /\ <<a, b>> \in Seq(S)
  OBVIOUS
<1>2. <<a, b>> \o <<>> = <<a, b>>
  BY <1>1, ConcatEmptySeq
<1>3. <<a, b>> \o <<c>> = Append(<<a, b>>, c)
  BY <1>1, AppendInside
<1> QED BY <1>1, <1>2, <1>3, Append3

\* The tokens of a check.
LEMMA FiveWords ==
  ASSUME NEW S, NEW a \in S, NEW b \in S, NEW c \in S, NEW d \in S, NEW e \in S
  PROVE  <<a, b>> \o <<c, d>> \o <<e>> = <<a, b, c, d, e>> /\ <<a, b, c, d, e>> \in Seq(S)
<1>1. /\ <<a, b, c, d, e>> \in Seq(S) /\ <<a, b>> \in Seq(S) /\ <<a, b, c, d>> \in Seq(S)
      /\ <<c>> \in Seq(S) /\ <<c, d>> \in Seq(S)
  OBVIOUS
<1>2. Append(<<a, b>> \o <<c>>, d) = <<a, b>> \o Append(<<c>>, d)
  BY <1>1, AppendInside
<1>3. <<a, b>> \o <<c>> = <<a, b, c>>
  <2>1. <<a, b>> \o <<c>> = Append(<<a, b>>, c)
    BY <1>1, AppendInside
  <2> QED BY <2>1, Append3
<1>4. <<a, b>> \o <<c, d>> = <<a, b, c, d>>
  BY <1>2, <1>3, Append2, Append4
<1>5. <<a, b, c, d>> \o <<e>> = Append(<<a, b, c, d>>, e)
  BY <1>1, AppendInside
<1> QED BY <1>1, <1>4, <1>5, Append5

(***************************************************************************)
(* Programs and their texts.                                               *)
(***************************************************************************)
RequirementSet  == [kind : {"Predicate", "Check"}, name : Names]
ConstraintSet == [name : Names, param : Names, requires : Seq(RequirementSet), otherwise : {"Accept", "Reject"}]
Text == Seq(Tokens)

\* The words of the language and its names are tokens.
LEMMA WordsAre ==
  /\ Word("validity") \in Tokens /\ Word("require") \in Tokens /\ Word("otherwise") \in Tokens
  /\ Word("reject") \in Tokens /\ Word("accept") \in Tokens /\ Word("(") \in Tokens
  /\ Word(")") \in Tokens /\ Word("{") \in Tokens /\ Word("}") \in Tokens /\ Word(";") \in Tokens
  /\ Word("eof") \in Tokens
  /\ \A n \in Names : Ident(n) \in Tokens /\ Str(n) \in Tokens
<1> DEFINE W == {"validity", "require", "deny", "otherwise", "reject", "accept", "(", ")", "{", "}", ";", "eof"}
<1>1. Tokens = {Word(k) : k \in W} \cup {Ident(n) : n \in Names} \cup {Str(n) : n \in Names}
  BY DEF Tokens
<1>2. \A k \in W : Word(k) \in Tokens
  BY <1>1
<1>3. /\ "validity" \in W /\ "require" \in W /\ "otherwise" \in W /\ "reject" \in W /\ "accept" \in W
      /\ "(" \in W /\ ")" \in W /\ "{" \in W /\ "}" \in W /\ ";" \in W /\ "eof" \in W
  OBVIOUS
<1>4. \A n \in Names : Ident(n) \in Tokens /\ Str(n) \in Tokens
  BY <1>1
<1> QED BY <1>2, <1>3, <1>4, Zenon

\* A token of a kind is that word, or an identifier, or a string.
LEMMA KindIs ==
  ASSUME NEW tok \in Tokens
  PROVE  /\ tok.kind = "Ident" => \E n \in Names : tok = Ident(n) /\ tok.text = n
         /\ tok.kind = "String" => \E n \in Names : tok = Str(n) /\ tok.text = n
         /\ tok.kind \notin {"Ident", "String"} => tok = Word(tok.kind)
<1>1. CASE \E k \in {"validity", "require", "deny", "otherwise", "reject", "accept", "(", ")", "{", "}", ";", "eof"} : tok = Word(k)
  <2>1. PICK k \in {"validity", "require", "deny", "otherwise", "reject", "accept", "(", ")", "{", "}", ";", "eof"} : tok = Word(k)
    BY <1>1
  <2>2. tok.kind = k
    BY <2>1 DEF Word
  <2> QED BY <2>1, <2>2
<1>2. CASE \E n \in Names : tok = Ident(n)
  <2>1. PICK n \in Names : tok = Ident(n)
    BY <1>2
  <2>2. tok.kind = "Ident" /\ tok.text = n
    BY <2>1 DEF Ident
  <2> QED BY <2>1, <2>2
<1>3. CASE \E n \in Names : tok = Str(n)
  <2>1. PICK n \in Names : tok = Str(n)
    BY <1>3
  <2>2. tok.kind = "String" /\ tok.text = n
    BY <2>1 DEF Str
  <2> QED BY <2>1, <2>2
<1> QED BY <1>1, <1>2, <1>3 DEF Tokens

\* What a predicate and a check look like.
LEMMA RequirementTexts ==
  /\ \A n \in Names : /\ RequirementText(Predicate(n)) = <<Word("require"), Ident(n), Word(";")>>
                      /\ RequirementText(Check(n)) = <<Word("require"), Ident(n), Word("("), Word(")"), Word(";")>>
                      /\ Predicate(n) \in RequirementSet /\ Check(n) \in RequirementSet
  /\ \A r \in RequirementSet : RequirementText(r) \in Text
<1>1. ASSUME NEW n \in Names
      PROVE  /\ RequirementText(Predicate(n)) = <<Word("require"), Ident(n), Word(";")>>
             /\ RequirementText(Check(n)) = <<Word("require"), Ident(n), Word("("), Word(")"), Word(";")>>
             /\ Predicate(n) \in RequirementSet /\ Check(n) \in RequirementSet
             /\ RequirementText(Predicate(n)) \in Text /\ RequirementText(Check(n)) \in Text
  <2> DEFINE a == Word("require")
             b == Ident(n)
             c == Word("(")
             d == Word(")")
             e == Word(";")
  <2>1. a \in Tokens /\ b \in Tokens /\ c \in Tokens /\ d \in Tokens /\ e \in Tokens
    BY WordsAre
  <2>2. RequirementText(Predicate(n)) = <<a, b>> \o <<>> \o <<e>>
    <3>1. Predicate(n).kind # "Check" /\ Predicate(n).name = n
      BY DEF Predicate
    <3> QED BY <3>1, Zenon DEF RequirementText
  <2>3. RequirementText(Check(n)) = <<a, b>> \o <<c, d>> \o <<e>>
    <3>1. Check(n).kind = "Check" /\ Check(n).name = n
      BY DEF Check
    <3> QED BY <3>1, Zenon DEF RequirementText
  <2>4. Predicate(n) \in RequirementSet /\ Check(n) \in RequirementSet
    BY DEF Predicate, Check, RequirementSet
  <2> HIDE DEF a, b, c, d, e
  <2>5. <<a, b>> \o <<>> \o <<e>> = <<a, b, e>> /\ <<a, b, e>> \in Text
    BY <2>1, ThreeWords DEF Text
  <2>6. <<a, b>> \o <<c, d>> \o <<e>> = <<a, b, c, d, e>> /\ <<a, b, c, d, e>> \in Text
    BY <2>1, FiveWords DEF Text
  <2> QED BY <2>2, <2>3, <2>4, <2>5, <2>6 DEF a, b, c, d, e
<1>2. ASSUME NEW r \in RequirementSet PROVE RequirementText(r) \in Text
  <2>1. r.name \in Names /\ (r = Predicate(r.name) \/ r = Check(r.name))
    BY DEF RequirementSet, Predicate, Check
  <2> QED BY <1>1, <2>1
<1> QED BY <1>1, <1>2

Reqs(rs) == FlattenSeq([i \in DOMAIN rs |-> RequirementText(rs[i])])

\* A requirement more is its text at the end.
LEMMA ReqsAre ==
  ASSUME NEW rs \in Seq(RequirementSet), NEW r \in RequirementSet
  PROVE  /\ Reqs(rs) \in Text /\ Reqs(Append(rs, r)) = Reqs(rs) \o RequirementText(r)
         /\ Reqs(<<>>) = <<>>
<1> DEFINE texts == [i \in DOMAIN rs |-> RequirementText(rs[i])]
           more == [i \in DOMAIN Append(rs, r) |-> RequirementText(Append(rs, r)[i])]
           N == Len(rs)
<1>1. N \in Nat /\ DOMAIN rs = 1 .. N /\ \A i \in 1 .. N : rs[i] \in RequirementSet
  OBVIOUS
<1>2. /\ DOMAIN Append(rs, r) = 1 .. N + 1 /\ Append(rs, r)[N + 1] = r
      /\ \A i \in 1 .. N : Append(rs, r)[i] = rs[i]
  OBVIOUS
<1>3. \A i \in 1 .. N : RequirementText(rs[i]) \in Text
  BY <1>1, RequirementTexts
<1>4. RequirementText(r) \in Text
  BY RequirementTexts
<1>5. texts \in Seq(Text)
  BY <1>1, <1>3
<1>6. more = Append(texts, RequirementText(r))
  <2> DEFINE x == RequirementText(r)
             a == Append(texts, x)
  <2>1. texts = [i \in 1 .. N |-> RequirementText(rs[i])] /\ Len(texts) = N
    BY <1>1, <1>5
  <2>2. /\ a = [i \in 1 .. N + 1 |-> a[i]] /\ a[N + 1] = x
        /\ \A i \in 1 .. N : a[i] = RequirementText(rs[i])
    <3> HIDE DEF x
    <3>1. /\ a = [i \in 1 .. Len(texts) + 1 |-> a[i]] /\ a[Len(texts) + 1] = x
          /\ \A i \in 1 .. Len(texts) : a[i] = texts[i]
      <4> HIDE DEF texts
      <4> QED BY <1>4, <1>5, AsFunction DEF x
    <3> QED BY <2>1, <3>1
  <2>3. \A i \in 1 .. N + 1 : more[i] = a[i]
    <3>1. \A i \in 1 .. N + 1 : i \in 1 .. N \/ i = N + 1
      BY <1>1
    <3> HIDE DEF a
    <3> QED BY <1>1, <1>2, <2>2, <3>1
  <2>4. more = [i \in 1 .. N + 1 |-> more[i]]
    BY <1>2
  <2> HIDE DEF a, more
  <2>5. more = a
    BY <2>2, <2>3, <2>4
  <2> QED BY <2>5 DEF a
<1>7. FlattenSeq(texts) \in Text
  <2> HIDE DEF texts
  <2> QED BY <1>5, FlatIs DEF Text
<1>8. FlattenSeq(Append(texts, RequirementText(r))) = FlattenSeq(texts) \o RequirementText(r)
  <2> HIDE DEF texts
  <2> QED BY <1>4, <1>5, FlatOfMore DEF Text
<1>9. Reqs(<<>>) = <<>>
  <2> DEFINE e == [i \in DOMAIN <<>> |-> RequirementText(<<>>[i])]
  <2>1. e = <<>>
    OBVIOUS
  <2> HIDE DEF e
  <2>2. FlattenSeq(e) = <<>>
    BY <2>1 DEF FlattenSeq
  <2> QED BY <2>2 DEF Reqs, e
<1> QED BY <1>6, <1>7, <1>8, <1>9 DEF Reqs

Header(n, P) == <<Word("validity"), Word("("), Ident(n), Word(")"), P, Word("{")>>
Body(n, P, rs) == Header(n, P) \o Reqs(rs)
Action(other) == Word(IF other = "Accept" THEN "accept" ELSE "reject")
Clause(other) == <<Word("otherwise"), Action(other), Word(";")>>

\* The beginnings of a constraint are texts.
LEMMA HeadersAre ==
  ASSUME NEW n \in Names, NEW P \in Tokens
  PROVE  /\ <<Word("validity")>> \in Text /\ <<Word("validity"), Word("(")>> \in Text
         /\ <<Word("validity"), Word("("), Ident(n)>> \in Text
         /\ <<Word("validity"), Word("("), Ident(n), Word(")")>> \in Text
         /\ <<Word("validity"), Word("("), Ident(n), Word(")"), P>> \in Text
         /\ Header(n, P) \in Text
<1>1. Word("validity") \in Tokens /\ Word("(") \in Tokens /\ Ident(n) \in Tokens
  BY WordsAre
<1>2. Word(")") \in Tokens /\ Word("{") \in Tokens
  BY WordsAre
<1> DEFINE a == Word("validity")
           b == Word("(")
           c == Ident(n)
           d == Word(")")
           e == Word("{")
<1> HIDE DEF a, b, c, d, e
<1>3. a \in Tokens /\ b \in Tokens /\ c \in Tokens /\ d \in Tokens /\ e \in Tokens
  BY <1>1, <1>2 DEF a, b, c, d, e
<1>4. /\ <<a>> \in Seq(Tokens) /\ <<a, b>> \in Seq(Tokens) /\ <<a, b, c>> \in Seq(Tokens)
      /\ <<a, b, c, d>> \in Seq(Tokens)
      /\ <<a, b, c, d, P>> \in Seq(Tokens) /\ <<a, b, c, d, P, e>> \in Seq(Tokens)
  BY <1>3
<1> QED BY <1>4 DEF a, b, c, d, e, Header, Text

\* The constraint up to its last requirement.
LEMMA BodiesAre ==
  ASSUME NEW n \in Names, NEW P \in Tokens, NEW rs \in Seq(RequirementSet), NEW r \in RequirementSet
  PROVE  /\ Body(n, P, rs) \in Text /\ Body(n, P, <<>>) = Header(n, P)
         /\ Body(n, P, Append(rs, r)) = Body(n, P, rs) \o RequirementText(r)
<1>1. Header(n, P) \in Text
  BY HeadersAre
<1>2. Reqs(rs) \in Text /\ Reqs(Append(rs, r)) = Reqs(rs) \o RequirementText(r) /\ Reqs(<<>>) = <<>>
  BY ReqsAre
<1>3. RequirementText(r) \in Text
  BY RequirementTexts
<1>4. Header(n, P) \o Reqs(rs) \in Text /\ Header(n, P) \o <<>> = Header(n, P)
  BY <1>1, <1>2, ConcatProperties, ConcatEmptySeq DEF Text
<1>5. (Header(n, P) \o Reqs(rs)) \o RequirementText(r) = Header(n, P) \o (Reqs(rs) \o RequirementText(r))
  BY <1>1, <1>2, <1>3, ConcatAssociative DEF Text
<1> QED BY <1>2, <1>4, <1>5 DEF Body

\* The beginnings of the otherwise clause are texts.
LEMMA ClausesAre ==
  ASSUME NEW other
  PROVE  /\ <<Word("otherwise")>> \in Text /\ <<Word("otherwise"), Action(other)>> \in Text
         /\ Clause(other) \in Text /\ Action(other) \in Tokens
<1> DEFINE a == Word("otherwise")
           b == Action(other)
           c == Word(";")
<1>1. a \in Tokens /\ c \in Tokens
  BY WordsAre
<1>2. b \in Tokens
  BY WordsAre DEF Action
<1> HIDE DEF a, b, c
<1>3. <<a>> \in Seq(Tokens) /\ <<a, b>> \in Seq(Tokens) /\ <<a, b, c>> \in Seq(Tokens)
  BY <1>1, <1>2
<1> QED BY <1>2, <1>3 DEF a, b, c, Clause, Text

\* A whole constraint, with its last clause and without.
LEMMA ConstraintTexts ==
  ASSUME NEW c \in ConstraintSet, NEW P \in Tokens, NEW clause \in BOOLEAN
  PROVE  /\ ConstraintText(c, P, clause) \in Text
         /\ ConstraintText(c, P, TRUE) = Append(Body(c.name, P, c.requires) \o Clause(c.otherwise), Word("}"))
         /\ ConstraintText(c, P, FALSE) = Append(Body(c.name, P, c.requires), Word("}"))
<1> DEFINE B == Body(c.name, P, c.requires)
           O == Clause(c.otherwise)
           z == Word("}")
<1>1. c.name \in Names /\ c.requires \in Seq(RequirementSet)
  BY DEF ConstraintSet
<1>2. B \in Text
  BY <1>1, BodiesAre, RequirementTexts
<1>3. O \in Text
  BY ClausesAre
<1>4. z \in Tokens
  BY WordsAre
<1>5. /\ ConstraintText(c, P, TRUE) = (B \o O) \o <<z>>
      /\ ConstraintText(c, P, FALSE) = (B \o <<>>) \o <<z>>
  BY DEF ConstraintText, Body, Header, Clause, Action, Reqs
<1> HIDE DEF B, O, z
<1>6. B \o O \in Text /\ B \o <<>> = B
  BY <1>2, <1>3, <1>4, AppendInside DEF Text
<1>7. (B \o O) \o <<z>> = Append(B \o O, z) /\ B \o <<z>> = Append(B, z)
  BY <1>2, <1>4, <1>6, AppendInside DEF Text
<1>8. Append(B \o O, z) \in Text /\ Append(B, z) \in Text
  BY <1>2, <1>4, <1>6, AppendProperties DEF Text
<1>9. ConstraintText(c, P, TRUE) \in Text /\ ConstraintText(c, P, FALSE) \in Text
  BY <1>5, <1>6, <1>7, <1>8
<1>10. ConstraintText(c, P, clause) \in Text
  BY <1>9
<1> QED BY <1>5, <1>6, <1>7, <1>10 DEF B, O, z

\* A program with one constraint more is written with the text of that one more.
LEMMA TextOfMore ==
  ASSUME NEW p \in Seq(ConstraintSet), NEW c \in ConstraintSet, NEW t \in ProgramTexts(p), t \in Text,
         NEW P \in {Str(c.param), Ident(c.param)}, NEW clause \in BOOLEAN,
         c.otherwise = "Accept" => clause
  PROVE  t \o ConstraintText(c, P, clause) \in ProgramTexts(Append(p, c))
<1> DEFINE N == Len(p)
           pc == Append(p, c)
           Parameter(d, s) == IF s THEN Str(d.param) ELSE Ident(d.param)
           x == ConstraintText(c, P, clause)
<1>0. N \in Nat /\ DOMAIN p = 1 .. N /\ \A i \in 1 .. N : p[i] \in ConstraintSet
  OBVIOUS
<1>1. /\ DOMAIN pc = 1 .. N + 1 /\ pc[N + 1] = c
      /\ \A i \in 1 .. N : pc[i] = p[i]
  OBVIOUS
<1>2. PICK q \in [DOMAIN p -> BOOLEAN], w \in Clauses(p) : t = ProgramText(p, q, w)
  BY DEF ProgramTexts
<1> DEFINE texts == [i \in DOMAIN p |-> ConstraintText(p[i], Parameter(p[i], q[i]), w[i])]
           q2 == [i \in DOMAIN pc |-> IF i = N + 1 THEN P = Str(c.param) ELSE q[i]]
           w2 == [i \in DOMAIN pc |-> IF i = N + 1 THEN clause ELSE w[i]]
           more == [i \in DOMAIN pc |-> ConstraintText(pc[i], Parameter(pc[i], q2[i]), w2[i])]
<1>3. \A i \in 1 .. N + 1 : i \in 1 .. N \/ i = N + 1
  BY <1>0
<1>4. \A i \in 1 .. N : i # N + 1 /\ i \in 1 .. N + 1
  BY <1>0
<1>5. q2 \in [DOMAIN pc -> BOOLEAN] /\ w2 \in [DOMAIN pc -> BOOLEAN]
  <2>1. \A i \in 1 .. N : q[i] \in BOOLEAN /\ w[i] \in BOOLEAN
    BY <1>0 DEF Clauses
  <2> HIDE DEF pc
  <2> QED BY <1>1, <1>3, <2>1
<1>6. w2 \in Clauses(pc)
  <2>1. ASSUME NEW i \in 1 .. N + 1, pc[i].otherwise = "Accept" PROVE w2[i]
    <3>1. CASE i = N + 1
      <4> HIDE DEF pc
      <4> QED BY <1>1, <2>1, <3>1
    <3>2. CASE i \in 1 .. N
      <4>1. w[i]
        BY <1>0, <1>1, <2>1, <3>2 DEF Clauses
      <4> HIDE DEF pc
      <4> QED BY <1>1, <1>4, <3>2, <4>1
    <3> QED BY <1>3, <3>1, <3>2
  <2> HIDE DEF w2, pc
  <2> QED BY <1>1, <1>5, <2>1 DEF Clauses
<1>7. FlattenSeq(more) \in ProgramTexts(pc)
  <2>1. FlattenSeq(more) = ProgramText(pc, q2, w2)
    BY Zenon DEF ProgramText
  <2>2. ProgramText(pc, q2, w2) \in ProgramTexts(pc)
    <3> HIDE DEF pc, q2, w2
    <3> QED BY <1>5, <1>6 DEF ProgramTexts
  <2> HIDE DEF more
  <2> QED BY <2>1, <2>2
<1>8. \A i \in 1 .. N : texts[i] \in Text
  <2> TAKE i \in 1 .. N
  <2>1. p[i] \in ConstraintSet /\ w[i] \in BOOLEAN /\ p[i].param \in Names
    BY <1>0 DEF ConstraintSet, Clauses
  <2>2. Parameter(p[i], q[i]) \in Tokens
    BY <2>1, WordsAre
  <2> HIDE DEF Parameter
  <2>3. ConstraintText(p[i], Parameter(p[i], q[i]), w[i]) \in Text
    BY <2>1, <2>2, ConstraintTexts
  <2> QED BY <1>0, <2>3
<1>9. texts \in Seq(Text) /\ Len(texts) = N /\ texts = [i \in 1 .. N |-> texts[i]]
  <2>1. texts = [i \in 1 .. N |-> texts[i]]
    BY <1>0
  <2> HIDE DEF texts
  <2>2. texts \in Seq(Text)
    BY <1>0, <1>8, <2>1
  <2> QED BY <1>0, <2>1, <2>2
<1>10. x \in Text
  <2>1. c.param \in Names
    BY DEF ConstraintSet
  <2>2. P \in Tokens
    BY <2>1, WordsAre
  <2> QED BY <2>2, ConstraintTexts
<1>11. more = Append(texts, x)
  <2> DEFINE a == Append(texts, x)
  <2>1. /\ a = [i \in 1 .. N + 1 |-> a[i]] /\ a[N + 1] = x
        /\ \A i \in 1 .. N : a[i] = texts[i]
    <3> HIDE DEF texts, x
    <3>1. /\ a = [i \in 1 .. Len(texts) + 1 |-> a[i]] /\ a[Len(texts) + 1] = x
          /\ \A i \in 1 .. Len(texts) : a[i] = texts[i]
      BY <1>9, <1>10, AsFunction
    <3> QED BY <1>9, <3>1
  <2>2. more = [i \in 1 .. N + 1 |-> more[i]]
    <3> HIDE DEF pc, q2, w2
    <3> QED BY <1>1
  <2>3. more[N + 1] = x
    <3>1. N + 1 \in DOMAIN pc
      BY <1>0, <1>1
    <3>2. q2[N + 1] = (P = Str(c.param)) /\ w2[N + 1] = clause
      <4> HIDE DEF pc
      <4> QED BY <3>1
    <3>3. Parameter(c, q2[N + 1]) = P
      <4> HIDE DEF q2
      <4> QED BY <3>2
    <3>4. more[N + 1] = ConstraintText(pc[N + 1], Parameter(pc[N + 1], q2[N + 1]), w2[N + 1])
      <4> HIDE DEF q2, w2, pc, Parameter
      <4> QED BY <3>1
    <3> HIDE DEF q2, w2, pc, Parameter, more
    <3> QED BY <1>1, <3>2, <3>3, <3>4
  <2>4. \A i \in 1 .. N : more[i] = texts[i]
    <3> TAKE i \in 1 .. N
    <3>1. i \in DOMAIN pc /\ i \in DOMAIN p /\ i # N + 1 /\ pc[i] = p[i]
      BY <1>0, <1>1, <1>4
    <3>2. q2[i] = q[i] /\ w2[i] = w[i]
      <4> HIDE DEF pc
      <4> QED BY <3>1
    <3>3. more[i] = ConstraintText(pc[i], Parameter(pc[i], q2[i]), w2[i])
      <4> HIDE DEF q2, w2, pc, Parameter
      <4> QED BY <3>1
    <3>4. texts[i] = ConstraintText(p[i], Parameter(p[i], q[i]), w[i])
      <4> HIDE DEF Parameter
      <4> QED BY <3>1
    <3> HIDE DEF q2, w2, pc, Parameter, more, texts
    <3> QED BY <3>1, <3>2, <3>3, <3>4
  <2>5. \A i \in 1 .. N + 1 : more[i] = a[i]
    <3> HIDE DEF a, more, texts, x
    <3> QED BY <1>3, <2>1, <2>3, <2>4
  <2> HIDE DEF a, more
  <2>6. more = a
    BY <2>1, <2>2, <2>5
  <2> QED BY <2>6 DEF a
<1>12. FlattenSeq(Append(texts, x)) = FlattenSeq(texts) \o x
  <2> HIDE DEF texts, x
  <2> QED BY <1>9, <1>10, FlatOfMore DEF Text
<1>13. t = FlattenSeq(texts)
  BY <1>2, Zenon DEF ProgramText
<1> HIDE DEF texts, more, x, pc
<1>14. FlattenSeq(more) = t \o x
  BY <1>11, <1>12, <1>13
<1> QED BY <1>7, <1>14 DEF x, pc

\* The empty program is the empty text.
LEMMA TextOfNone == <<>> \in ProgramTexts(<<>>) /\ <<>> \in Text
<1> DEFINE p == <<>>
           v == [i \in DOMAIN p |-> TRUE]
           e == [i \in DOMAIN p |-> ConstraintText(p[i], IF v[i] THEN Str(p[i].param) ELSE Ident(p[i].param), v[i])]
<1>1. e = <<>>
  OBVIOUS
<1>2. FlattenSeq(e) = <<>>
  <2> HIDE DEF e
  <2> QED BY <1>1 DEF FlattenSeq
<1>3. v \in [DOMAIN p -> BOOLEAN] /\ v \in Clauses(p)
  BY DEF Clauses
<1>4. FlattenSeq(e) \in ProgramTexts(p)
  <2>1. FlattenSeq(e) = ProgramText(p, v, v)
    BY Zenon DEF ProgramText
  <2>2. ProgramText(p, v, v) \in ProgramTexts(p)
    <3> HIDE DEF p, v
    <3> QED BY <1>3 DEF ProgramTexts
  <2> HIDE DEF e
  <2> QED BY <2>1, <2>2
<1>5. <<>> \in Text
  BY DEF Text
<1> QED BY <1>2, <1>4, <1>5

(***************************************************************************)
(* What the parser has of the constraint it is in.                         *)
(***************************************************************************)
Building == [name : Names \cup {""}, param : Names \cup {""}, requires : Seq(RequirementSet),
             otherwise : {"Accept", "Reject"}]

\* In the clauses: the constraint so far is written in part, and still rejects.
InClauses(part, b) ==
  /\ b.name \in Names /\ b.param \in Names /\ b.otherwise = "Reject"
  /\ \E P \in {Str(b.param), Ident(b.param)} : part = Body(b.name, P, b.requires)

\* In a requirement: the last one is n, and more has been read of it.
InRequirement(part, b, kind, more) ==
  /\ b.name \in Names /\ b.param \in Names /\ b.otherwise = "Reject"
  /\ \E P \in {Str(b.param), Ident(b.param)}, rs \in Seq(RequirementSet), n \in Names :
       /\ b.requires = Append(rs, [kind |-> kind, name |-> n])
       /\ part = Body(b.name, P, rs) \o (<<Word("require"), Ident(n)>> \o more)

\* In the last clause.
InOtherwise(part, b, written) ==
  /\ b.name \in Names /\ b.param \in Names
  /\ \E P \in {Str(b.param), Ident(b.param)} : part = Body(b.name, P, b.requires) \o written

Doing(w, part, b) ==
  /\ w = "validity" => part = <<>>
  /\ w = "accepted" => part = <<Word("eof")>>
  /\ w = "(" => part = <<Word("validity")>>
  /\ w = "name" => part = <<Word("validity"), Word("(")>>
  /\ w = ")" => b.name \in Names /\ part = <<Word("validity"), Word("("), Ident(b.name)>>
  /\ w = "param" => b.name \in Names /\ part = <<Word("validity"), Word("("), Ident(b.name), Word(")")>>
  /\ w = "{" => /\ b.name \in Names /\ b.param \in Names /\ b.requires = <<>> /\ b.otherwise = "Reject"
                /\ \E P \in {Str(b.param), Ident(b.param)} :
                     part = <<Word("validity"), Word("("), Ident(b.name), Word(")"), P>>
  /\ w = "clause" => InClauses(part, b)
  /\ w = "requirement" => \E body \in Text : InClauses(body, b) /\ part = body \o <<Word("require")>>
  /\ w = "predicate" => InRequirement(part, b, "Predicate", <<>>)
  /\ w = "check )" => InRequirement(part, b, "Predicate", <<Word("(")>>)
  /\ w = "require ;" => InRequirement(part, b, "Check", <<Word("("), Word(")")>>)
  /\ w = "action" => b.otherwise = "Reject" /\ InOtherwise(part, b, <<Word("otherwise")>>)
  /\ w = "action ;" => InOtherwise(part, b, <<Word("otherwise"), Action(b.otherwise)>>)
  /\ w = "}" => InOtherwise(part, b, Clause(b.otherwise))
Places == {"validity", "accepted", "error", "(", "name", ")", "param", "{", "clause", "requirement",
           "predicate", "check )", "require ;", "action", "action ;", "}"}

\* The inductive invariant: the tokens are the texts of the constraints parsed,
\* and then what the place says of the one being parsed.
ParserInv ==
  /\ building \in Building /\ wants \in Places
  /\ \/ wants = "error" /\ program = <<>>
     \/ /\ program \in Seq(ConstraintSet)
        /\ \E t \in ProgramTexts(program), part \in Text :
             t \in Text /\ consumed = t \o part /\ Doing(wants, part, building)
  /\ wants = "accepted" => EvaluationAgrees(program)

\* A token read is appended to the part that is being read.
LEMMA TextAppends ==
  ASSUME NEW t \in Text, NEW part \in Text, NEW tok \in Tokens
  PROVE  Append(t \o part, tok) = t \o Append(part, tok) /\ Append(part, tok) \in Text
<1>1. t \in Seq(Tokens) /\ part \in Seq(Tokens)
  BY DEF Text
<1>2. Append(t \o part, tok) = t \o Append(part, tok)
  BY <1>1
<1>3. Append(part, tok) \in Seq(Tokens)
  BY <1>1
<1> QED BY <1>2, <1>3 DEF Text

\* Texts, a token, and nothing put behind a text.
LEMMA TextJoins ==
  ASSUME NEW t \in Text, NEW part \in Text, NEW tok \in Tokens
  PROVE  t \o <<tok>> = Append(t, tok) /\ t \o part \in Text /\ t \o <<>> = t
<1>1. t \in Seq(Tokens) /\ part \in Seq(Tokens)
  BY DEF Text
<1>3. t \o <<tok>> = Append(t, tok) /\ t \o part \in Seq(Tokens) /\ t \o <<>> = t
  BY <1>1, AppendInside
<1> QED BY <1>3 DEF Text

\* A step that keeps the constraints parsed keeps the invariant when it keeps
\* what the place says.
LEMMA Within ==
  ASSUME ParserInv, wants # "error", NEW tok \in Tokens, consumed' = Append(consumed, tok), UNCHANGED program,
         building' \in Building, wants' \in Places \ {"accepted"},
         \A part \in Text : Doing(wants, part, building) => Doing(wants', Append(part, tok), building')
  PROVE  ParserInv'
<1>1. program \in Seq(ConstraintSet)
  BY DEF ParserInv
<1>2. PICK t \in ProgramTexts(program), part \in Text :
        t \in Text /\ consumed = t \o part /\ Doing(wants, part, building)
  BY DEF ParserInv
<1>3. Append(t \o part, tok) = t \o Append(part, tok) /\ Append(part, tok) \in Text
  BY <1>2, TextAppends
<1>4. Doing(wants', Append(part, tok), building')
  BY <1>2
<1>5. program' = program
  OBVIOUS
<1>6. consumed' = t \o Append(part, tok)
  BY <1>2, <1>3
<1>7. \E tt \in ProgramTexts(program'), pp \in Text :
        tt \in Text /\ consumed' = tt \o pp /\ Doing(wants', pp, building')
  BY <1>2, <1>3, <1>4, <1>5, <1>6
<1> QED BY <1>1, <1>5, <1>7 DEF ParserInv

(***************************************************************************)
(* One lemma for each move: what the next place says.                      *)
(***************************************************************************)
LEMMA TakesValidity ==
  ASSUME NEW tok \in Tokens, NEW part \in Text, NEW b \in Building,
         Doing("validity", part, b), tok.kind = "validity"
  PROVE  Doing("(", Append(part, tok), b)
<1>1. part = <<>> /\ tok = Word("validity")
  BY KindIs DEF Doing
<1>2. Append(part, tok) = <<Word("validity")>>
  BY <1>1, Append1
<1> QED BY <1>2 DEF Doing

LEMMA TakesEof ==
  ASSUME NEW tok \in Tokens, NEW part \in Text, NEW b \in Building,
         Doing("validity", part, b), tok.kind = "eof"
  PROVE  part = <<>> /\ tok = Word("eof")
BY KindIs DEF Doing

LEMMA TakesOpen ==
  ASSUME NEW tok \in Tokens, NEW part \in Text, NEW b \in Building,
         Doing("(", part, b), tok.kind = "("
  PROVE  Doing("name", Append(part, tok), b)
<1>1. part = <<Word("validity")>> /\ tok = Word("(")
  BY KindIs DEF Doing
<1>2. Append(part, tok) = <<Word("validity"), Word("(")>>
  BY <1>1, Append2
<1> QED BY <1>2 DEF Doing

LEMMA TakesName ==
  ASSUME NEW tok \in Tokens, NEW part \in Text, NEW b \in Building,
         Doing("name", part, b), tok.kind = "Ident"
  PROVE  /\ [b EXCEPT !.name = tok.text] \in Building
         /\ Doing(")", Append(part, tok), [b EXCEPT !.name = tok.text])
<1>1. PICK n \in Names : tok = Ident(n) /\ tok.text = n
  BY KindIs
<1>2. part = <<Word("validity"), Word("(")>>
  BY DEF Doing
<1> DEFINE c == [b EXCEPT !.name = tok.text]
<1>3. c \in Building /\ c.name = n
  BY <1>1 DEF Building
<1> HIDE DEF c
<1>4. Append(part, tok) = <<Word("validity"), Word("("), Ident(n)>>
  BY <1>1, <1>2, Append3
<1>5. Doing(")", Append(part, tok), c)
  BY <1>3, <1>4 DEF Doing
<1> QED BY <1>3, <1>5 DEF c

LEMMA TakesClose ==
  ASSUME NEW tok \in Tokens, NEW part \in Text, NEW b \in Building,
         Doing(")", part, b), tok.kind = ")"
  PROVE  Doing("param", Append(part, tok), b)
<1>1. b.name \in Names /\ part = <<Word("validity"), Word("("), Ident(b.name)>> /\ tok = Word(")")
  BY KindIs DEF Doing
<1>2. Append(part, tok) = <<Word("validity"), Word("("), Ident(b.name), Word(")")>>
  BY <1>1, Append4
<1> QED BY <1>1, <1>2 DEF Doing

LEMMA TakesParam ==
  ASSUME NEW tok \in Tokens, NEW part \in Text, NEW b \in Building,
         Doing("param", part, b), tok.kind \in {"Ident", "String"}
  PROVE  /\ Constraint(b.name, tok.text, <<>>, "Reject") \in Building
         /\ Doing("{", Append(part, tok), Constraint(b.name, tok.text, <<>>, "Reject"))
<1>1. PICK n \in Names : tok \in {Str(n), Ident(n)} /\ tok.text = n
  BY KindIs
<1>2. b.name \in Names /\ part = <<Word("validity"), Word("("), Ident(b.name), Word(")")>>
  BY DEF Doing
<1> DEFINE c == Constraint(b.name, tok.text, <<>>, "Reject")
<1>3. /\ c \in Building /\ c.name = b.name /\ c.param = n /\ c.requires = <<>> /\ c.otherwise = "Reject"
  <2>1. <<>> \in Seq(RequirementSet)
    OBVIOUS
  <2>2. c = [name |-> b.name, param |-> n, requires |-> <<>>, otherwise |-> "Reject"]
    BY <1>1 DEF Constraint
  <2> HIDE DEF c
  <2> QED BY <1>2, <2>1, <2>2 DEF Building
<1> HIDE DEF c
<1>4. Append(part, tok) = <<Word("validity"), Word("("), Ident(b.name), Word(")"), tok>>
  BY <1>2, Append5
<1>5. Doing("{", Append(part, tok), c)
  BY <1>1, <1>2, <1>3, <1>4 DEF Doing
<1> QED BY <1>3, <1>5 DEF c

LEMMA NoConstraints == <<>> \in Seq(ConstraintSet)
OBVIOUS

LEMMA NoRequirements == <<>> \in Seq(RequirementSet)
OBVIOUS

LEMMA TakesBrace ==
  ASSUME NEW tok \in Tokens, NEW part \in Text, NEW b \in Building,
         Doing("{", part, b), tok.kind = "{"
  PROVE  Doing("clause", Append(part, tok), b)
<1>1. /\ b.name \in Names /\ b.param \in Names /\ b.requires = <<>> /\ b.otherwise = "Reject"
      /\ tok = Word("{")
  BY KindIs DEF Doing
<1>2. PICK P \in {Str(b.param), Ident(b.param)} :
        part = <<Word("validity"), Word("("), Ident(b.name), Word(")"), P>>
  BY DEF Doing
<1>3. P \in Tokens
  BY <1>1, WordsAre
<1>4. Append(part, tok) = Header(b.name, P)
  BY <1>1, <1>2, Append6 DEF Header
<1>5. Body(b.name, P, b.requires) = Header(b.name, P)
  <2>1. PICK r \in RequirementSet : TRUE
    BY <1>1, RequirementTexts
  <2>2. <<>> \in Seq(RequirementSet)
    BY NoRequirements
  <2>3. Body(b.name, P, <<>>) = Header(b.name, P)
    BY <1>1, <1>3, <2>1, <2>2, BodiesAre
  <2> QED BY <1>1, <2>3
<1>6. InClauses(Append(part, tok), b)
  BY <1>1, <1>4, <1>5 DEF InClauses
<1> QED BY <1>6 DEF Doing

LEMMA TakesRequire ==
  ASSUME NEW tok \in Tokens, NEW part \in Text, NEW b \in Building,
         Doing("clause", part, b), tok.kind = "require"
  PROVE  Doing("requirement", Append(part, tok), b)
<1>1. InClauses(part, b) /\ tok = Word("require")
  BY KindIs DEF Doing
<1>2. Append(part, tok) = part \o <<Word("require")>>
  BY <1>1, TextJoins
<1> QED BY <1>1, <1>2 DEF Doing

LEMMA TakesOtherwise ==
  ASSUME NEW tok \in Tokens, NEW part \in Text, NEW b \in Building,
         Doing("clause", part, b), tok.kind = "otherwise"
  PROVE  Doing("action", Append(part, tok), b)
<1>1. InClauses(part, b) /\ tok = Word("otherwise")
  BY KindIs DEF Doing
<1>2. Append(part, tok) = part \o <<Word("otherwise")>>
  BY <1>1, TextJoins
<1>3. InOtherwise(Append(part, tok), b, <<Word("otherwise")>>) /\ b.otherwise = "Reject"
  BY <1>1, <1>2 DEF InClauses, InOtherwise
<1> QED BY <1>3 DEF Doing

\* Building's requirements and texts are typed wherever they are named.
LEMMA BodyTyped ==
  ASSUME NEW n \in Names, NEW m \in Names, NEW P \in {Str(m), Ident(m)}, NEW rs \in Seq(RequirementSet)
  PROVE  P \in Tokens /\ Body(n, P, rs) \in Text
<1>1. P \in Tokens
  BY WordsAre
<1>2. \E r : r \in RequirementSet
  BY RequirementTexts
<1> QED BY <1>1, <1>2, BodiesAre

\* The token that ends or extends a requirement is appended to its own tokens.
LEMMA RequirementGrows ==
  ASSUME NEW tok \in Tokens, NEW body \in Text, NEW words \in Text
  PROVE  Append(body \o words, tok) = body \o Append(words, tok)
BY TextAppends

LEMMA TakesRequirement ==
  ASSUME NEW tok \in Tokens, NEW part \in Text, NEW b \in Building,
         Doing("requirement", part, b), tok.kind = "Ident"
  PROVE  /\ [b EXCEPT !.requires = Append(@, Predicate(tok.text))] \in Building
         /\ Doing("predicate", Append(part, tok), [b EXCEPT !.requires = Append(@, Predicate(tok.text))])
<1>1. PICK n \in Names : tok = Ident(n) /\ tok.text = n
  BY KindIs
<1>2. PICK body \in Text : InClauses(body, b) /\ part = body \o <<Word("require")>>
  BY DEF Doing
<1>3. PICK P \in {Str(b.param), Ident(b.param)} : body = Body(b.name, P, b.requires)
  BY <1>2 DEF InClauses
<1> DEFINE c == [b EXCEPT !.requires = Append(@, Predicate(tok.text))]
<1>4. Predicate(n) \in RequirementSet /\ b.requires \in Seq(RequirementSet)
  BY RequirementTexts DEF Building
<1>5. Append(b.requires, Predicate(n)) \in Seq(RequirementSet)
  BY <1>4, AppendProperties
<1>6. /\ c \in Building /\ c.name = b.name /\ c.param = b.param /\ c.otherwise = b.otherwise
      /\ c.requires = Append(b.requires, Predicate(n))
  BY <1>1, <1>5 DEF Building
<1> HIDE DEF c
<1>7. <<Word("require")>> \in Text /\ <<Word("require"), Ident(n)>> \in Text /\ Ident(n) \in Tokens
  <2> DEFINE x == Word("require")
             y == Ident(n)
  <2>1. x \in Tokens /\ y \in Tokens
    BY WordsAre
  <2> HIDE DEF x, y
  <2>2. <<x>> \in Seq(Tokens) /\ <<x, y>> \in Seq(Tokens)
    BY <2>1
  <2> QED BY <2>1, <2>2 DEF x, y, Text
<1>8. Append(part, tok) = body \o Append(<<Word("require")>>, tok)
  BY <1>2, <1>7, RequirementGrows
<1>9. Append(<<Word("require")>>, tok) = <<Word("require"), Ident(n)>>
  BY <1>1, Append2
<1>10. <<Word("require"), Ident(n)>> \o <<>> = <<Word("require"), Ident(n)>>
  BY <1>7, TextJoins
<1>11. Append(part, tok) = Body(c.name, P, b.requires) \o (<<Word("require"), Ident(n)>> \o <<>>)
  BY <1>3, <1>6, <1>8, <1>9, <1>10
<1>12. InRequirement(Append(part, tok), c, "Predicate", <<>>)
  <2>1. c.name \in Names /\ c.param \in Names /\ c.otherwise = "Reject"
    BY <1>2, <1>6 DEF InClauses
  <2>2. c.requires = Append(b.requires, [kind |-> "Predicate", name |-> n])
    BY <1>6 DEF Predicate
  <2>3. P \in {Str(c.param), Ident(c.param)}
    BY <1>6
  <2> QED BY <1>4, <1>11, <2>1, <2>2, <2>3 DEF InRequirement
<1>13. Doing("predicate", Append(part, tok), c)
  BY <1>12 DEF Doing
<1> QED BY <1>6, <1>13 DEF c

\* A requirement's own tokens are tokens.
LEMMA RequirementWords ==
  ASSUME NEW n \in Names
  PROVE  /\ <<Word("require"), Ident(n)>> \in Text
         /\ <<Word("require"), Ident(n)>> \o <<>> = <<Word("require"), Ident(n)>>
         /\ <<Word("require"), Ident(n)>> \o <<Word("(")>> = <<Word("require"), Ident(n), Word("(")>>
         /\ <<Word("require"), Ident(n)>> \o <<Word("("), Word(")")>> = <<Word("require"), Ident(n), Word("("), Word(")")>>
         /\ <<Word("require"), Ident(n), Word("(")>> \in Text
         /\ <<Word("require"), Ident(n), Word("("), Word(")")>> \in Text
<1> DEFINE a == Word("require")
           b == Ident(n)
           c == Word("(")
           d == Word(")")
<1>1. a \in Tokens /\ b \in Tokens /\ c \in Tokens /\ d \in Tokens
  BY WordsAre
<1> HIDE DEF a, b, c, d
<1>2. /\ <<a, b>> \in Seq(Tokens) /\ <<a, b, c>> \in Seq(Tokens) /\ <<a, b, c, d>> \in Seq(Tokens)
      /\ <<c>> \in Seq(Tokens)
  BY <1>1
<1>3. <<a, b>> \o <<>> = <<a, b>>
  BY <1>2, ConcatEmptySeq
<1>4. <<a, b>> \o <<c>> = <<a, b, c>>
  <2>1. <<a, b>> \o <<c>> = Append(<<a, b>>, c)
    BY <1>1, <1>2, AppendInside
  <2> QED BY <2>1, Append3
<1>5. <<a, b>> \o <<c, d>> = <<a, b, c, d>>
  <2>1. Append(<<a, b>> \o <<c>>, d) = <<a, b>> \o Append(<<c>>, d)
    BY <1>1, <1>2, AppendInside
  <2> QED BY <1>4, <2>1, Append2, Append4
<1> QED BY <1>2, <1>3, <1>4, <1>5 DEF a, b, c, d, Text

LEMMA TakesCheck ==
  ASSUME NEW tok \in Tokens, NEW part \in Text, NEW b \in Building,
         Doing("predicate", part, b), tok.kind = "("
  PROVE  Doing("check )", Append(part, tok), b)
<1>1. InRequirement(part, b, "Predicate", <<>>) /\ tok = Word("(")
  BY KindIs DEF Doing
<1>2. PICK P \in {Str(b.param), Ident(b.param)}, rs \in Seq(RequirementSet), n \in Names :
       /\ b.requires = Append(rs, [kind |-> "Predicate", name |-> n])
       /\ part = Body(b.name, P, rs) \o (<<Word("require"), Ident(n)>> \o <<>>)
  BY <1>1 DEF InRequirement
<1>3. b.name \in Names /\ b.param \in Names /\ b.otherwise = "Reject"
  BY <1>1 DEF InRequirement
<1>4. Body(b.name, P, rs) \in Text
  BY <1>3, BodyTyped
<1> DEFINE B == Body(b.name, P, rs)
           x == <<Word("require"), Ident(n)>>
           y == x \o <<Word("(")>>
<1>5. part = B \o x /\ Append(x, tok) = y /\ x \in Text
  <2>1. x \o <<>> = x /\ x \in Text /\ y = <<Word("require"), Ident(n), Word("(")>>
    BY RequirementWords
  <2>2. Append(x, tok) = <<Word("require"), Ident(n), Word("(")>>
    BY <1>1, Append3
  <2>3. part = B \o (x \o <<>>)
    BY <1>2
  <2> HIDE DEF x, y, B
  <2> QED BY <2>1, <2>2, <2>3
<1> HIDE DEF B, x
<1>6. Append(part, tok) = B \o y
  <2> HIDE DEF y
  <2>1. Append(B \o x, tok) = B \o Append(x, tok)
    BY <1>4, <1>5, RequirementGrows DEF B
  <2> QED BY <1>5, <2>1
<1>7. InRequirement(Append(part, tok), b, "Predicate", <<Word("(")>>)
  BY <1>2, <1>3, <1>6 DEF InRequirement, B, x
<1> QED BY <1>7 DEF Doing

\* The requirement r is complete: its text is now part of the body's.
LEMMA RequirementEnds ==
  ASSUME NEW b \in Building, b.name \in Names, b.param \in Names, b.otherwise = "Reject",
         NEW P \in {Str(b.param), Ident(b.param)}, NEW rs \in Seq(RequirementSet), NEW r \in RequirementSet, b.requires = Append(rs, r),
         NEW part, part = Body(b.name, P, rs) \o RequirementText(r)
  PROVE  InClauses(part, b)
<1>1. P \in Tokens
  BY WordsAre
<1>2. Body(b.name, P, Append(rs, r)) = Body(b.name, P, rs) \o RequirementText(r)
  BY <1>1, BodiesAre
<1>3. Body(b.name, P, b.requires) = part
  BY <1>2
<1> QED BY <1>3 DEF InClauses

LEMMA TakesPredicateEnd ==
  ASSUME NEW tok \in Tokens, NEW part \in Text, NEW b \in Building,
         Doing("predicate", part, b), tok.kind = ";"
  PROVE  Doing("clause", Append(part, tok), b)
<1>1. InRequirement(part, b, "Predicate", <<>>) /\ tok = Word(";")
  BY KindIs DEF Doing
<1>2. PICK P \in {Str(b.param), Ident(b.param)}, rs \in Seq(RequirementSet), n \in Names :
       /\ b.requires = Append(rs, [kind |-> "Predicate", name |-> n])
       /\ part = Body(b.name, P, rs) \o (<<Word("require"), Ident(n)>> \o <<>>)
  BY <1>1 DEF InRequirement
<1>3. b.name \in Names /\ b.param \in Names /\ b.otherwise = "Reject"
  BY <1>1 DEF InRequirement
<1>4. Body(b.name, P, rs) \in Text
  BY <1>3, BodyTyped
<1> DEFINE B == Body(b.name, P, rs)
           x == <<Word("require"), Ident(n)>>
           r == Predicate(n)
<1>5. /\ part = B \o x /\ Append(x, tok) = RequirementText(r) /\ x \in Text
      /\ r \in RequirementSet /\ b.requires = Append(rs, r)
  <2>0. part = B \o (x \o <<>>)
    BY <1>2
  <2>1. x \o <<>> = x /\ x \in Text
    BY RequirementWords
  <2>2. Append(x, tok) = <<Word("require"), Ident(n), Word(";")>>
    BY <1>1, Append3
  <2>3. RequirementText(r) = <<Word("require"), Ident(n), Word(";")>> /\ r \in RequirementSet
    BY RequirementTexts
  <2>4. b.requires = Append(rs, r)
    BY <1>2 DEF Predicate
  <2> HIDE DEF x, r, B
  <2> QED BY <2>0, <2>1, <2>2, <2>3, <2>4
<1> HIDE DEF B, x, r
<1>6. Append(part, tok) = B \o RequirementText(r)
  <2>1. Append(B \o x, tok) = B \o Append(x, tok)
    BY <1>4, <1>5, RequirementGrows DEF B
  <2> QED BY <1>5, <2>1
<1>7. InClauses(Append(part, tok), b)
  BY <1>3, <1>5, <1>6, RequirementEnds DEF B
<1> QED BY <1>7 DEF Doing

\* What Append has put at the end comes off again.
LEMMA FrontAndLast ==
  ASSUME NEW S, NEW s \in Seq(S), NEW x \in S
  PROVE  Front(Append(s, x)) = s /\ Last(Append(s, x)) = x
<1>1. Front(Append(s, x)) = s
  BY DEF Front
<1>2. Last(Append(s, x)) = x
  BY DEF Last
<1> QED BY <1>1, <1>2

LEMMA TakesCheckClose ==
  ASSUME NEW tok \in Tokens, NEW part \in Text, NEW b \in Building,
         Doing("check )", part, b), tok.kind = ")"
  PROVE  /\ [b EXCEPT !.requires = Append(Front(@), Check(Last(@).name))] \in Building
         /\ Doing("require ;", Append(part, tok), [b EXCEPT !.requires = Append(Front(@), Check(Last(@).name))])
<1>1. InRequirement(part, b, "Predicate", <<Word("(")>>) /\ tok = Word(")")
  BY KindIs DEF Doing
<1>2. PICK P \in {Str(b.param), Ident(b.param)}, rs \in Seq(RequirementSet), n \in Names :
       /\ b.requires = Append(rs, [kind |-> "Predicate", name |-> n])
       /\ part = Body(b.name, P, rs) \o (<<Word("require"), Ident(n)>> \o <<Word("(")>>)
  BY <1>1 DEF InRequirement
<1>3. b.name \in Names /\ b.param \in Names /\ b.otherwise = "Reject"
  BY <1>1 DEF InRequirement
<1>4. Body(b.name, P, rs) \in Text
  BY <1>3, BodyTyped
<1> DEFINE B == Body(b.name, P, rs)
           x == <<Word("require"), Ident(n), Word("(")>>
           y == <<Word("require"), Ident(n)>> \o <<Word("("), Word(")")>>
           c == [b EXCEPT !.requires = Append(Front(@), Check(Last(@).name))]
<1>5. part = B \o x /\ Append(x, tok) = y /\ x \in Text
  <2>1. <<Word("require"), Ident(n)>> \o <<Word("(")>> = x /\ x \in Text
    BY RequirementWords
  <2>2. Append(x, tok) = <<Word("require"), Ident(n), Word("("), Word(")")>>
    BY <1>1, Append4
  <2>3. y = <<Word("require"), Ident(n), Word("("), Word(")")>>
    BY RequirementWords
  <2> HIDE DEF x, y
  <2> QED BY <1>2, <2>1, <2>2, <2>3
<1>6. Append(part, tok) = B \o y
  <2> HIDE DEF x, y, B
  <2>1. Append(B \o x, tok) = B \o Append(x, tok)
    BY <1>4, <1>5, RequirementGrows DEF B
  <2> QED BY <1>5, <2>1
<1>7. Front(b.requires) = rs /\ Last(b.requires).name = n
  <2> DEFINE r == [kind |-> "Predicate", name |-> n]
  <2>1. r \in RequirementSet /\ r.name = n
    BY DEF RequirementSet
  <2> HIDE DEF r
  <2>2. Front(Append(rs, r)) = rs /\ Last(Append(rs, r)) = r
    BY <2>1, FrontAndLast
  <2> QED BY <1>2, <2>1, <2>2 DEF r
<1>8. Check(n) \in RequirementSet
  BY RequirementTexts
<1>9. Append(rs, Check(n)) \in Seq(RequirementSet)
  BY <1>8, AppendProperties
<1>10. /\ c \in Building /\ c.name = b.name /\ c.param = b.param /\ c.otherwise = b.otherwise
       /\ c.requires = Append(rs, [kind |-> "Check", name |-> n])
  <2>1. c = [b EXCEPT !.requires = Append(rs, Check(n))]
    BY <1>7
  <2>2. Check(n) = [kind |-> "Check", name |-> n]
    BY DEF Check
  <2> HIDE DEF c
  <2> QED BY <1>9, <2>1, <2>2 DEF Building
<1> HIDE DEF c
<1>11. InRequirement(Append(part, tok), c, "Check", <<Word("("), Word(")")>>)
  BY <1>3, <1>6, <1>10 DEF InRequirement
<1>12. Doing("require ;", Append(part, tok), c)
  BY <1>11 DEF Doing
<1> QED BY <1>10, <1>12 DEF c

LEMMA TakesRequireEnd ==
  ASSUME NEW tok \in Tokens, NEW part \in Text, NEW b \in Building,
         Doing("require ;", part, b), tok.kind = ";"
  PROVE  Doing("clause", Append(part, tok), b)
<1>1. InRequirement(part, b, "Check", <<Word("("), Word(")")>>) /\ tok = Word(";")
  BY KindIs DEF Doing
<1>2. PICK P \in {Str(b.param), Ident(b.param)}, rs \in Seq(RequirementSet), n \in Names :
       /\ b.requires = Append(rs, [kind |-> "Check", name |-> n])
       /\ part = Body(b.name, P, rs) \o (<<Word("require"), Ident(n)>> \o <<Word("("), Word(")")>>)
  BY <1>1 DEF InRequirement
<1>3. b.name \in Names /\ b.param \in Names /\ b.otherwise = "Reject"
  BY <1>1 DEF InRequirement
<1>4. Body(b.name, P, rs) \in Text
  BY <1>3, BodyTyped
<1> DEFINE B == Body(b.name, P, rs)
           x == <<Word("require"), Ident(n), Word("("), Word(")")>>
           r == Check(n)
<1>5. /\ part = B \o x /\ Append(x, tok) = RequirementText(r) /\ x \in Text
      /\ r \in RequirementSet /\ b.requires = Append(rs, r)
  <2>1. <<Word("require"), Ident(n)>> \o <<Word("("), Word(")")>> = x /\ x \in Text
    BY RequirementWords
  <2>2. Append(x, tok) = <<Word("require"), Ident(n), Word("("), Word(")"), Word(";")>>
    BY <1>1, Append5
  <2>3. RequirementText(r) = <<Word("require"), Ident(n), Word("("), Word(")"), Word(";")>> /\ r \in RequirementSet
    BY RequirementTexts
  <2>4. b.requires = Append(rs, r)
    BY <1>2 DEF Check
  <2> HIDE DEF x, r
  <2> QED BY <1>2, <2>1, <2>2, <2>3, <2>4
<1> HIDE DEF B, x, r
<1>6. Append(part, tok) = B \o RequirementText(r)
  <2>1. Append(B \o x, tok) = B \o Append(x, tok)
    BY <1>4, <1>5, RequirementGrows DEF B
  <2> QED BY <1>5, <2>1
<1>7. InClauses(Append(part, tok), b)
  BY <1>3, <1>5, <1>6, RequirementEnds DEF B
<1> QED BY <1>7 DEF Doing

\* More of the last clause: its own tokens grow.
LEMMA OtherwiseGrows ==
  ASSUME NEW tok \in Tokens, NEW part \in Text, NEW b \in Building, NEW words \in Text, NEW more,
         InOtherwise(part, b, words), Append(words, tok) = more
  PROVE  InOtherwise(Append(part, tok), b, more)
<1>1. b.name \in Names /\ b.param \in Names /\ b.requires \in Seq(RequirementSet)
  BY DEF InOtherwise, Building
<1>2. PICK P \in {Str(b.param), Ident(b.param)} : part = Body(b.name, P, b.requires) \o words
  BY DEF InOtherwise
<1> DEFINE B == Body(b.name, P, b.requires)
<1>3. B \in Text
  BY <1>1, BodyTyped
<1> HIDE DEF B
<1>4. Append(B \o words, tok) = B \o Append(words, tok)
  BY <1>3, TextAppends
<1>5. Append(part, tok) = B \o more
  BY <1>2, <1>4 DEF B
<1> QED BY <1>1, <1>5 DEF InOtherwise, B

LEMMA TakesAction ==
  ASSUME NEW tok \in Tokens, NEW part \in Text, NEW b \in Building,
         Doing("action", part, b), tok.kind \in {"reject", "accept"}, NEW other,
         other = IF tok.kind = "accept" THEN "Accept" ELSE "Reject"
  PROVE  /\ [b EXCEPT !.otherwise = other] \in Building
         /\ Doing("action ;", Append(part, tok), [b EXCEPT !.otherwise = other])
<1>1. InOtherwise(part, b, <<Word("otherwise")>>)
  BY DEF Doing
<1>2. tok = Word(tok.kind)
  BY KindIs
<1>3. tok = Action(other)
  BY <1>2 DEF Action
<1>4. <<Word("otherwise")>> \in Text /\ Append(<<Word("otherwise")>>, tok) = <<Word("otherwise"), Action(other)>>
  BY <1>3, ClausesAre, Append2
<1>5. InOtherwise(Append(part, tok), b, <<Word("otherwise"), Action(other)>>)
  BY <1>1, <1>4, OtherwiseGrows
<1> DEFINE c == [b EXCEPT !.otherwise = other]
<1>6. /\ c \in Building /\ c.name = b.name /\ c.param = b.param /\ c.requires = b.requires
      /\ c.otherwise = other
  BY DEF Building
<1> HIDE DEF c
<1>7. InOtherwise(Append(part, tok), c, <<Word("otherwise"), Action(c.otherwise)>>)
  BY <1>5, <1>6 DEF InOtherwise
<1>8. Doing("action ;", Append(part, tok), c)
  BY <1>7 DEF Doing
<1> QED BY <1>6, <1>8 DEF c

LEMMA TakesActionEnd ==
  ASSUME NEW tok \in Tokens, NEW part \in Text, NEW b \in Building,
         Doing("action ;", part, b), tok.kind = ";"
  PROVE  Doing("}", Append(part, tok), b)
<1>1. InOtherwise(part, b, <<Word("otherwise"), Action(b.otherwise)>>) /\ tok = Word(";")
  BY KindIs DEF Doing
<1>2. <<Word("otherwise"), Action(b.otherwise)>> \in Text
  BY ClausesAre
<1>3. Append(<<Word("otherwise"), Action(b.otherwise)>>, tok) = Clause(b.otherwise)
  BY <1>1, Append3 DEF Clause
<1>4. InOtherwise(Append(part, tok), b, Clause(b.otherwise))
  BY <1>1, <1>2, <1>3, OtherwiseGrows
<1> QED BY <1>4 DEF Doing

\* The } of a constraint: what was built is a constraint, and what was read is its text.
LEMMA TakesEnd ==
  ASSUME NEW tok \in Tokens, NEW part \in Text, NEW b \in Building, NEW w \in {"clause", "}"},
         Doing(w, part, b), tok.kind = "}"
  PROVE  /\ b \in ConstraintSet
         /\ \E P \in {Str(b.param), Ident(b.param)}, clause \in BOOLEAN :
              (b.otherwise = "Accept" => clause) /\ Append(part, tok) = ConstraintText(b, P, clause)
<1>1. tok = Word("}")
  BY KindIs
<1>2. CASE w = "clause"
  <2>1. InClauses(part, b)
    BY <1>2 DEF Doing
  <2>2. b \in ConstraintSet
    BY <2>1 DEF InClauses, ConstraintSet, Building
  <2>3. PICK P \in {Str(b.param), Ident(b.param)} : part = Body(b.name, P, b.requires)
    BY <2>1 DEF InClauses
  <2>4. P \in Tokens
    BY <2>1, WordsAre DEF InClauses
  <2>5. ConstraintText(b, P, FALSE) = Append(Body(b.name, P, b.requires), Word("}"))
    BY <2>2, <2>4, ConstraintTexts
  <2>6. Append(part, tok) = ConstraintText(b, P, FALSE) /\ b.otherwise # "Accept"
    BY <1>1, <2>1, <2>3, <2>5 DEF InClauses
  <2> QED BY <2>2, <2>6
<1>3. CASE w = "}"
  <2>1. InOtherwise(part, b, Clause(b.otherwise))
    BY <1>3 DEF Doing
  <2>2. b \in ConstraintSet
    BY <2>1 DEF InOtherwise, ConstraintSet, Building
  <2>3. PICK P \in {Str(b.param), Ident(b.param)} : part = Body(b.name, P, b.requires) \o Clause(b.otherwise)
    BY <2>1 DEF InOtherwise
  <2>4. P \in Tokens
    BY <2>1, WordsAre DEF InOtherwise
  <2>5. ConstraintText(b, P, TRUE) = Append(Body(b.name, P, b.requires) \o Clause(b.otherwise), Word("}"))
    BY <2>2, <2>4, ConstraintTexts
  <2>6. Append(part, tok) = ConstraintText(b, P, TRUE)
    BY <1>1, <2>3, <2>5
  <2> QED BY <2>2, <2>6
<1> QED BY <1>2, <1>3

(***************************************************************************)
(* The four questions about a program have one answer.                     *)
(***************************************************************************)
LEMMA AnswersAgree ==
  ASSUME NEW p \in Seq(ConstraintSet)
  PROVE  EvaluationAgrees(p)
<1> SUFFICES ASSUME NEW T \in SUBSET Names
             PROVE  LET b == [n \in T |-> TRUE] IN
                    /\ evaluate(p, b) <=> count_passing(p, b) = Len(p)
                    /\ evaluate(p, b) <=> FALSE \notin Range(report(p, b).lines)
                    /\ evaluate(p, b) =>
                         /\ \A i \in DOMAIN p : evaluate_constraint(p, p[i].name, b) = TRUE
                         /\ \A n \in Names : evaluate(p, [m \in T \cup {n} |-> TRUE])
  BY DEF EvaluationAgrees
<1> DEFINE b == [n \in T |-> TRUE]
           N == Len(p)
           pass == {i \in DOMAIN p : ConstraintHolds(p[i], b)}
<1> HIDE DEF b
<1>1. N \in Nat /\ DOMAIN p = 1 .. N
  OBVIOUS
<1>2. \A i \in DOMAIN p : ConstraintHolds(p[i], b) \in BOOLEAN
  BY DEF ConstraintHolds
<1>3. evaluate(p, b) <=> pass = 1 .. N
  BY <1>1 DEF evaluate
<1>4. pass \in SUBSET (1 .. N)
  BY <1>1
<1>5. pass = 1 .. N <=> Cardinality(pass) = N
  <2> HIDE DEF pass, N
  <2>1. IsFiniteSet(1 .. N) /\ Cardinality(1 .. N) = N
    <3>1. Cardinality(1 .. N) = IF 1 > N THEN 0 ELSE N - 1 + 1
      BY <1>1, FS_Interval
    <3>2. IsFiniteSet(1 .. N)
      BY <1>1, FS_Interval
    <3> QED BY <1>1, <3>1, <3>2
  <2>2. pass # 1 .. N => Cardinality(pass) < Cardinality(1 .. N)
    <3> SUFFICES ASSUME pass # 1 .. N PROVE Cardinality(pass) < Cardinality(1 .. N)
      OBVIOUS
    <3> DEFINE all == 1 .. N
    <3>1. IsFiniteSet(all) /\ pass \in SUBSET all /\ pass # all
      BY <1>4, <2>1
    <3>2. IsFiniteSet(pass) /\ Cardinality(pass) <= Cardinality(all)
      <4> HIDE DEF all
      <4> QED BY <3>1, FS_Subset
    <3>3. Cardinality(all) = Cardinality(pass) => pass = all
      <4> HIDE DEF all
      <4> QED BY <3>1, FS_Subset
    <3>4. Cardinality(all) \in Nat /\ Cardinality(pass) \in Nat
      BY <3>1, <3>2, FS_CardinalityType
    <3> HIDE DEF all
    <3>5. Cardinality(pass) < Cardinality(all)
      BY <3>1, <3>2, <3>3, <3>4
    <3> QED BY <3>5 DEF all
  <2>3. pass = 1 .. N => Cardinality(pass) = N
    BY <2>1
  <2>4. CASE pass # 1 .. N
    <3>1. Cardinality(pass) \in Nat
      BY <1>4, <2>1, FS_Subset, FS_CardinalityType
    <3> QED BY <1>1, <2>1, <2>2, <2>4, <3>1
  <2> QED BY <2>3, <2>4
<1>6. evaluate(p, b) <=> count_passing(p, b) = Len(p)
  <2>1. count_passing(p, b) = Cardinality(pass)
    BY DEF count_passing
  <2> HIDE DEF pass
  <2> QED BY <1>3, <1>5, <2>1
<1>7. evaluate(p, b) <=> FALSE \notin Range(report(p, b).lines)
  <2> DEFINE lines == [i \in DOMAIN p |-> ConstraintHolds(p[i], b)]
  <2>1. report(p, b).lines = lines
    BY DEF report
  <2>2. FALSE \in Range(lines) <=> \E i \in DOMAIN p : lines[i] = FALSE
    BY DEF Range
  <2>3. \A i \in DOMAIN p : lines[i] = FALSE <=> ~ConstraintHolds(p[i], b)
    BY <1>2
  <2> HIDE DEF lines
  <2> QED BY <2>1, <2>2, <2>3 DEF evaluate
<1>8. ASSUME evaluate(p, b), NEW i \in DOMAIN p PROVE evaluate_constraint(p, p[i].name, b) = TRUE
  <2> DEFINE named == {k \in DOMAIN p : p[k].name = p[i].name}
             first == CHOOSE k \in named : \A j \in named : k <= j
  <2>1. named \in SUBSET Nat /\ named # {} /\ named \in SUBSET (DOMAIN p)
    BY <1>1
  <2>2. \E k \in named : \A j \in named : k <= j
    <3> HIDE DEF named
    <3> QED BY <2>1, LeastPlace
  <2>3. first \in named
    <3> HIDE DEF named
    <3> QED BY <2>2
  <2>4. evaluate_constraint(p, p[i].name, b) = ConstraintHolds(p[first], b)
    <3>1. named # {}
      BY <2>1
    <3> QED BY <3>1, Zenon DEF evaluate_constraint
  <2> HIDE DEF named, first
  <2>5. first \in DOMAIN p
    BY <2>1, <2>3
  <2>6. ConstraintHolds(p[first], b)
    BY <1>8, <2>5 DEF evaluate
  <2> QED BY <1>2, <2>4, <2>5, <2>6
<1>9. ASSUME evaluate(p, b), NEW n \in Names PROVE evaluate(p, [m \in T \cup {n} |-> TRUE])
  <2> DEFINE b2 == [m \in T \cup {n} |-> TRUE]
  <2>1. \A name : Bound(b, name) => Bound(b2, name)
    BY DEF Bound, b
  <2> HIDE DEF b2
  <2>2. \A r : RequirementHolds(r, b) => RequirementHolds(r, b2)
    BY <2>1 DEF RequirementHolds
  <2>3. \A i \in DOMAIN p : ConstraintHolds(p[i], b2)
    BY <1>9, <2>2 DEF evaluate, ConstraintHolds
  <2> QED BY <2>3 DEF evaluate, b2
<1> QED BY <1>6, <1>7, <1>8, <1>9 DEF b

(***************************************************************************)
(* The steps.                                                              *)
(***************************************************************************)
LEMMA ParserStarts == ParserInit => ParserInv
<1> SUFFICES ASSUME ParserInit PROVE ParserInv
  OBVIOUS
<1>1. building \in Building
  BY NoRequirements DEF ParserInit, Constraint, Building
<1>2. <<>> \in ProgramTexts(<<>>) /\ <<>> \in Text
  BY TextOfNone
<1>3. <<>> \o <<>> = <<>>
  OBVIOUS
<1>4. Doing("validity", <<>>, building)
  BY DEF Doing
<1>5. program = <<>> /\ <<>> \in Seq(ConstraintSet) /\ wants = "validity" /\ consumed = <<>>
  <2>1. <<>> \in Seq(ConstraintSet)
    BY NoConstraints
  <2> QED BY <2>1 DEF ParserInit
<1>6. \E t \in ProgramTexts(program), part \in Text :
        t \in Text /\ consumed = t \o part /\ Doing(wants, part, building)
  BY <1>2, <1>3, <1>4, <1>5
<1>7. wants \in Places /\ wants # "accepted"
  BY <1>5 DEF Places
<1> QED BY <1>1, <1>5, <1>6, <1>7 DEF ParserInv

\* A step of parse(): the next constraint begins, or the text ends.
LEMMA ProgramStep ==
  ASSUME ParserInv, wants # "error", NEW tok \in Tokens, parse(tok)
  PROVE  ParserInv'
<1>1. \/ wants = "validity" /\ tok.kind = "validity" /\ wants' = "("
      \/ wants = "validity" /\ tok.kind = "eof" /\ wants' = "accepted"
  BY DEF parse, Take, ProgramMoves
<1>2. consumed' = Append(consumed, tok) /\ UNCHANGED <<program, building>>
  BY DEF parse, Take
<1>3. building \in Building
  BY DEF ParserInv
<1>4. CASE wants = "validity" /\ tok.kind = "validity" /\ wants' = "("
  <2>1. \A part \in Text : Doing(wants, part, building) => Doing(wants', Append(part, tok), building')
    BY <1>2, <1>3, <1>4, TakesValidity
  <2>2. wants' \in Places \ {"accepted"}
    BY <1>4 DEF Places
  <2> QED BY <1>2, <1>3, <2>1, <2>2, Within
<1>5. CASE wants = "validity" /\ tok.kind = "eof" /\ wants' = "accepted"
  <2>1. program \in Seq(ConstraintSet)
    BY <1>5 DEF ParserInv
  <2>2. PICK t \in ProgramTexts(program), part \in Text :
          t \in Text /\ consumed = t \o part /\ Doing(wants, part, building)
    BY <1>5 DEF ParserInv
  <2>3. part = <<>> /\ tok = Word("eof")
    BY <1>3, <1>5, <2>2, TakesEof
  <2>4. consumed = t
    BY <2>2, <2>3, TextJoins
  <2>5. consumed' = t \o <<tok>>
    BY <1>2, <2>2, <2>4, TextJoins
  <2>6. Doing("accepted", <<tok>>, building)
    BY <2>3 DEF Doing
  <2>7. <<tok>> \in Text
    BY DEF Text
  <2>8. EvaluationAgrees(program)
    BY <2>1, AnswersAgree
  <2>9. program' = program /\ building' = building
    BY <1>2
  <2>10. EvaluationAgrees(program')
    BY <2>8, <2>9
  <2>11. \E s \in ProgramTexts(program'), q \in Text :
           s \in Text /\ consumed' = s \o q /\ Doing(wants', q, building')
    BY <1>5, <2>2, <2>5, <2>6, <2>7, <2>9
  <2>12. wants' \in Places
    BY <1>5 DEF Places
  <2> QED BY <1>3, <2>1, <2>9, <2>10, <2>11, <2>12 DEF ParserInv
<1> QED BY <1>1, <1>4, <1>5

\* The three parts of a move.
LEMMA MoveParts ==
  ASSUME NEW a, NEW b, NEW c, NEW m, m = <<a, b, c>>
  PROVE  m[1] = a /\ m[2] = b /\ m[3] = c
OBVIOUS

\* A step of parse_requirement().
LEMMA RequirementStep ==
  ASSUME ParserInv, wants # "error", NEW tok \in Tokens, parse_requirement(tok)
  PROVE  ParserInv'
<1>1. \/ wants = "requirement" /\ tok.kind = "Ident" /\ wants' = "predicate"
      \/ wants = "predicate" /\ tok.kind = "(" /\ wants' = "check )"
      \/ wants = "predicate" /\ tok.kind = ";" /\ wants' = "clause"
      \/ wants = "check )" /\ tok.kind = ")" /\ wants' = "require ;"
  <2>1. PICK m \in RequirementMoves : m[1] = wants /\ m[2] = tok.kind /\ wants' = m[3]
    BY DEF parse_requirement, Take
  <2>2. \/ m = <<"requirement", "Ident", "predicate">>
        \/ m = <<"predicate", "(", "check )">>
        \/ m = <<"predicate", ";", "clause">>
        \/ m = <<"check )", ")", "require ;">>
    BY DEF RequirementMoves
  <2>3. CASE m = <<"requirement", "Ident", "predicate">>
    BY <2>1, <2>3, MoveParts
  <2>4. CASE m = <<"predicate", "(", "check )">>
    BY <2>1, <2>4, MoveParts
  <2>5. CASE m = <<"predicate", ";", "clause">>
    BY <2>1, <2>5, MoveParts
  <2>6. CASE m = <<"check )", ")", "require ;">>
    BY <2>1, <2>6, MoveParts
  <2> QED BY <2>2, <2>3, <2>4, <2>5, <2>6
<1>2. consumed' = Append(consumed, tok) /\ UNCHANGED program /\ building' = BuildRequirement(tok)
  BY DEF parse_requirement, Take
<1>3. building \in Building
  BY DEF ParserInv
<1>4. wants' \in Places \ {"accepted"}
  BY <1>1 DEF Places
<1>5. CASE wants = "requirement" /\ tok.kind = "Ident" /\ wants' = "predicate"
  <2>1. building' = [building EXCEPT !.requires = Append(@, Predicate(tok.text))]
    BY <1>2, <1>5 DEF BuildRequirement
  <2>2. building' \in Building /\ \A part \in Text : Doing(wants, part, building) => Doing(wants', Append(part, tok), building')
    <3>1. PICK t \in ProgramTexts(program), s \in Text :
            t \in Text /\ consumed = t \o s /\ Doing(wants, s, building)
      BY DEF ParserInv
    <3>2. building' \in Building
      BY <1>3, <1>5, <2>1, <3>1, TakesRequirement
    <3> QED BY <1>3, <1>5, <2>1, <3>2, TakesRequirement
  <2> QED BY <1>2, <1>4, <2>2, Within
<1>6. CASE wants = "predicate" /\ tok.kind = "(" /\ wants' = "check )"
  <2>1. building' = building
    BY <1>2, <1>6 DEF BuildRequirement
  <2>2. \A part \in Text : Doing(wants, part, building) => Doing(wants', Append(part, tok), building')
    BY <1>3, <1>6, <2>1, TakesCheck
  <2> QED BY <1>2, <1>3, <1>4, <2>1, <2>2, Within
<1>7. CASE wants = "predicate" /\ tok.kind = ";" /\ wants' = "clause"
  <2>1. building' = building
    BY <1>2, <1>7 DEF BuildRequirement
  <2>2. \A part \in Text : Doing(wants, part, building) => Doing(wants', Append(part, tok), building')
    BY <1>3, <1>7, <2>1, TakesPredicateEnd
  <2> QED BY <1>2, <1>3, <1>4, <2>1, <2>2, Within
<1>8. CASE wants = "check )" /\ tok.kind = ")" /\ wants' = "require ;"
  <2>1. building' = [building EXCEPT !.requires = Append(Front(@), Check(Last(@).name))]
    BY <1>2, <1>8 DEF BuildRequirement
  <2>2. building' \in Building
    <3>1. PICK t \in ProgramTexts(program), s \in Text :
            t \in Text /\ consumed = t \o s /\ Doing(wants, s, building)
      BY DEF ParserInv
    <3> QED BY <1>3, <1>8, <2>1, <3>1, TakesCheckClose
  <2>3. \A part \in Text : Doing(wants, part, building) => Doing(wants', Append(part, tok), building')
    BY <1>3, <1>8, <2>1, TakesCheckClose
  <2> QED BY <1>2, <1>4, <2>2, <2>3, Within
<1> QED BY <1>1, <1>5, <1>6, <1>7, <1>8

\* A step of parse_constraint() that ends the constraint.
LEMMA EndStep ==
  ASSUME ParserInv, NEW tok \in Tokens, wants \in {"clause", "}"}, tok.kind = "}", wants' = "validity",
         consumed' = Append(consumed, tok), UNCHANGED building, program' = Append(program, building)
  PROVE  ParserInv'
<1>1. program \in Seq(ConstraintSet) /\ building \in Building
  BY DEF ParserInv
<1>2. PICK t \in ProgramTexts(program), part \in Text :
        t \in Text /\ consumed = t \o part /\ Doing(wants, part, building)
  BY DEF ParserInv
<1>3. building \in ConstraintSet
  BY <1>1, <1>2, TakesEnd
<1>4. PICK P \in {Str(building.param), Ident(building.param)}, clause \in BOOLEAN :
        (building.otherwise = "Accept" => clause) /\ Append(part, tok) = ConstraintText(building, P, clause)
  BY <1>1, <1>2, TakesEnd
<1> DEFINE x == ConstraintText(building, P, clause)
           s == t \o x
<1>5. P \in Tokens
  <2>1. building.param \in Names
    BY <1>3 DEF ConstraintSet
  <2> QED BY <2>1, WordsAre
<1>6. x \in Text
  BY <1>3, <1>5, ConstraintTexts
<1>7. s \in ProgramTexts(Append(program, building))
  BY <1>1, <1>2, <1>3, <1>4, TextOfMore
<1> HIDE DEF x
<1>8. consumed' = s
  <2>1. Append(t \o part, tok) = t \o Append(part, tok)
    BY <1>2, TextAppends
  <2> QED BY <1>2, <1>4, <2>1 DEF x
<1>9. s \in Text /\ s \o <<>> = s /\ <<>> \in Text
  BY <1>2, <1>6, TextJoins, TextOfNone
<1>10. Append(program, building) \in Seq(ConstraintSet)
  BY <1>1, <1>3, AppendProperties
<1> HIDE DEF s
<1>11. Doing("validity", <<>>, building')
  BY DEF Doing
<1>12. \E tt \in ProgramTexts(program'), q \in Text :
         tt \in Text /\ consumed' = tt \o q /\ Doing(wants', q, building')
  <2>1. s \in ProgramTexts(program') /\ consumed' = s \o <<>>
    BY <1>7, <1>8, <1>9
  <2>2. Doing(wants', <<>>, building')
    BY <1>11
  <2> QED BY <1>9, <2>1, <2>2
<1>13. wants' \in Places /\ wants' # "accepted" /\ building' \in Building
  BY <1>1 DEF Places
<1> QED BY <1>10, <1>12, <1>13 DEF ParserInv

\* A step of parse_constraint().
LEMMA ConstraintStep ==
  ASSUME ParserInv, wants # "error", NEW tok \in Tokens, parse_constraint(tok)
  PROVE  ParserInv'
<1> DEFINE To(w, k, v) == wants = w /\ tok.kind = k /\ wants' = v
<1>1. \/ To("(", "(", "name") \/ To("name", "Ident", ")") \/ To(")", ")", "param")
      \/ To("param", "Ident", "{") \/ To("param", "String", "{") \/ To("{", "{", "clause")
      \/ To("clause", "require", "requirement") \/ To("clause", "otherwise", "action")
      \/ To("require ;", ";", "clause") \/ To("action", "reject", "action ;")
      \/ To("action", "accept", "action ;") \/ To("action ;", ";", "}")
      \/ To("clause", "}", "validity") \/ To("}", "}", "validity")
  <2>1. PICK m \in ConstraintMoves : m[1] = wants /\ m[2] = tok.kind /\ wants' = m[3]
    BY DEF parse_constraint, Take
  <2>2. \/ m = <<"(", "(", "name">>
        \/ m = <<"name", "Ident", ")">>
        \/ m = <<")", ")", "param">>
        \/ m = <<"param", "Ident", "{">>
        \/ m = <<"param", "String", "{">>
        \/ m = <<"{", "{", "clause">>
        \/ m = <<"clause", "require", "requirement">>
        \/ m = <<"clause", "otherwise", "action">>
        \/ m = <<"require ;", ";", "clause">>
        \/ m = <<"action", "reject", "action ;">>
        \/ m = <<"action", "accept", "action ;">>
        \/ m = <<"action ;", ";", "}">>
        \/ m = <<"clause", "}", "validity">>
        \/ m = <<"}", "}", "validity">>
    BY DEF ConstraintMoves
  <2>3. CASE m = <<"(", "(", "name">>
    BY <2>1, <2>3, MoveParts
  <2>4. CASE m = <<"name", "Ident", ")">>
    BY <2>1, <2>4, MoveParts
  <2>5. CASE m = <<")", ")", "param">>
    BY <2>1, <2>5, MoveParts
  <2>6. CASE m = <<"param", "Ident", "{">>
    BY <2>1, <2>6, MoveParts
  <2>7. CASE m = <<"param", "String", "{">>
    BY <2>1, <2>7, MoveParts
  <2>8. CASE m = <<"{", "{", "clause">>
    BY <2>1, <2>8, MoveParts
  <2>9. CASE m = <<"clause", "require", "requirement">>
    BY <2>1, <2>9, MoveParts
  <2>10. CASE m = <<"clause", "otherwise", "action">>
    BY <2>1, <2>10, MoveParts
  <2>11. CASE m = <<"require ;", ";", "clause">>
    BY <2>1, <2>11, MoveParts
  <2>12. CASE m = <<"action", "reject", "action ;">>
    BY <2>1, <2>12, MoveParts
  <2>13. CASE m = <<"action", "accept", "action ;">>
    BY <2>1, <2>13, MoveParts
  <2>14. CASE m = <<"action ;", ";", "}">>
    BY <2>1, <2>14, MoveParts
  <2>15. CASE m = <<"clause", "}", "validity">>
    BY <2>1, <2>15, MoveParts
  <2>16. CASE m = <<"}", "}", "validity">>
    BY <2>1, <2>16, MoveParts
  <2> HIDE DEF To
  <2> QED BY <2>2, <2>3, <2>4, <2>5, <2>6, <2>7, <2>8, <2>9, <2>10, <2>11, <2>12, <2>13, <2>14, <2>15, <2>16
<1>2. consumed' = Append(consumed, tok) /\ building' = BuildConstraint(tok)
  BY DEF parse_constraint, Take
<1>3. program' = IF tok.kind = "}" THEN Append(program, building) ELSE program
  BY DEF parse_constraint
<1>4. building \in Building
  BY DEF ParserInv
<1>5. PICK t \in ProgramTexts(program), s \in Text :
        t \in Text /\ consumed = t \o s /\ Doing(wants, s, building)
  BY DEF ParserInv
<1>6. CASE wants' \in {"validity"} /\ tok.kind = "}" /\ wants \in {"clause", "}"}
  <2>1. building' = building
    BY <1>2, <1>6 DEF BuildConstraint
  <2> QED BY <1>2, <1>3, <1>6, <2>1, EndStep
<1>7. CASE To("(", "(", "name") \/ To(")", ")", "param") \/ To("{", "{", "clause")
  <2>1. building' = building /\ program' = program
    BY <1>2, <1>3, <1>7 DEF BuildConstraint
  <2>2. \A part \in Text : Doing(wants, part, building) => Doing(wants', Append(part, tok), building')
    <3>1. CASE To("(", "(", "name")
      BY <1>4, <2>1, <3>1, TakesOpen
    <3>2. CASE To(")", ")", "param")
      BY <1>4, <2>1, <3>2, TakesClose
    <3>3. CASE To("{", "{", "clause")
      BY <1>4, <2>1, <3>3, TakesBrace
    <3> QED BY <1>7, <3>1, <3>2, <3>3
  <2>3. wants' \in Places \ {"accepted"}
    BY <1>7 DEF Places
  <2> QED BY <1>2, <1>4, <2>1, <2>2, <2>3, Within
<1>8. CASE To("clause", "require", "requirement") \/ To("clause", "otherwise", "action")
           \/ To("require ;", ";", "clause") \/ To("action ;", ";", "}")
  <2>1. building' = building /\ program' = program
    BY <1>2, <1>3, <1>8 DEF BuildConstraint
  <2>2. \A part \in Text : Doing(wants, part, building) => Doing(wants', Append(part, tok), building')
    <3>1. CASE To("clause", "require", "requirement")
      BY <1>4, <2>1, <3>1, TakesRequire
    <3>2. CASE To("clause", "otherwise", "action")
      BY <1>4, <2>1, <3>2, TakesOtherwise
    <3>3. CASE To("require ;", ";", "clause")
      BY <1>4, <2>1, <3>3, TakesRequireEnd
    <3>4. CASE To("action ;", ";", "}")
      BY <1>4, <2>1, <3>4, TakesActionEnd
    <3> QED BY <1>8, <3>1, <3>2, <3>3, <3>4
  <2>3. wants' \in Places \ {"accepted"}
    BY <1>8 DEF Places
  <2> QED BY <1>2, <1>4, <2>1, <2>2, <2>3, Within
<1>9. CASE To("name", "Ident", ")")
  <2>1. building' = [building EXCEPT !.name = tok.text] /\ program' = program
    BY <1>2, <1>3, <1>9 DEF BuildConstraint
  <2>2. building' \in Building
    BY <1>4, <1>5, <1>9, <2>1, TakesName
  <2>3. \A part \in Text : Doing(wants, part, building) => Doing(wants', Append(part, tok), building')
    BY <1>4, <1>9, <2>1, TakesName
  <2>4. wants' \in Places \ {"accepted"}
    BY <1>9 DEF Places
  <2> QED BY <1>2, <2>1, <2>2, <2>3, <2>4, Within
<1>10. CASE To("param", "Ident", "{") \/ To("param", "String", "{")
  <2>1. building' = Constraint(building.name, tok.text, <<>>, "Reject") /\ program' = program
    BY <1>2, <1>3, <1>10 DEF BuildConstraint
  <2>2. building' \in Building
    BY <1>4, <1>5, <1>10, <2>1, TakesParam
  <2>3. \A part \in Text : Doing(wants, part, building) => Doing(wants', Append(part, tok), building')
    BY <1>4, <1>10, <2>1, TakesParam
  <2>4. wants' \in Places \ {"accepted"}
    BY <1>10 DEF Places
  <2> QED BY <1>2, <2>1, <2>2, <2>3, <2>4, Within
<1>11. CASE To("action", "reject", "action ;") \/ To("action", "accept", "action ;")
  <2> DEFINE other == IF tok.kind = "accept" THEN "Accept" ELSE "Reject"
  <2>1. building' = [building EXCEPT !.otherwise = other] /\ program' = program
    BY <1>2, <1>3, <1>11 DEF BuildConstraint
  <2>2. building' \in Building
    BY <1>4, <1>5, <1>11, <2>1, TakesAction
  <2>3. \A part \in Text : Doing(wants, part, building) => Doing(wants', Append(part, tok), building')
    <3> TAKE part \in Text
    <3>1. other = IF tok.kind = "accept" THEN "Accept" ELSE "Reject"
      OBVIOUS
    <3>2. tok.kind \in {"reject", "accept"} /\ wants = "action" /\ wants' = "action ;"
      BY <1>11
    <3> HIDE DEF other
    <3>3. Doing("action", part, building) => Doing("action ;", Append(part, tok), [building EXCEPT !.otherwise = other])
      BY <1>4, <3>1, <3>2, TakesAction
    <3> QED BY <2>1, <3>2, <3>3
  <2>4. wants' \in Places \ {"accepted"}
    BY <1>11 DEF Places
  <2> QED BY <1>2, <2>1, <2>2, <2>3, <2>4, Within
<1> QED BY <1>1, <1>6, <1>7, <1>8, <1>9, <1>10, <1>11

\* Every step keeps the invariant.
LEMMA ParserKeepsInv == ParserInv /\ [ParserNext]_parserVars => ParserInv'
<1> SUFFICES ASSUME ParserInv, [ParserNext]_parserVars PROVE ParserInv'
  OBVIOUS
<1>1. CASE UNCHANGED parserVars
  BY <1>1 DEF parserVars, ParserInv
<1>2. CASE ParserNext
  <2>1. PICK tok \in Tokens :
          /\ wants \notin {"accepted", "error"}
          /\ parse(tok) \/ parse_constraint(tok) \/ parse_requirement(tok) \/ SyntaxError(tok)
    BY <1>2 DEF ParserNext
  <2>2. CASE parse(tok)
    BY <2>1, <2>2, ProgramStep
  <2>3. CASE parse_constraint(tok)
    BY <2>1, <2>3, ConstraintStep
  <2>4. CASE parse_requirement(tok)
    BY <2>1, <2>4, RequirementStep
  <2>5. CASE SyntaxError(tok)
    BY <2>5 DEF SyntaxError, ParserInv, Places
  <2> QED BY <2>1, <2>2, <2>3, <2>4, <2>5
<1> QED BY <1>1, <1>2

\* Where the parser accepts, the invariant gives the property.
LEMMA InvSaysText == ParserInv => ParsedIsTheText
<1> SUFFICES ASSUME ParserInv, wants = "accepted"
             PROVE  Front(consumed) \in ProgramTexts(program) /\ EvaluationAgrees(program)
  BY DEF ParsedIsTheText
<1>1. PICK t \in ProgramTexts(program), part \in Text :
        t \in Text /\ consumed = t \o part /\ Doing(wants, part, building)
  BY DEF ParserInv
<1>2. part = <<Word("eof")>>
  BY <1>1 DEF Doing
<1>3. Word("eof") \in Tokens
  BY WordsAre
<1>4. t \o <<Word("eof")>> = Append(t, Word("eof"))
  BY <1>1, <1>3, TextJoins
<1>5. consumed = Append(t, Word("eof"))
  BY <1>1, <1>2, <1>4
<1>6. t \in Seq(Tokens)
  BY <1>1 DEF Text
<1>7. Front(Append(t, Word("eof"))) = t
  BY <1>3, <1>6, FrontAndLast
<1>8. Front(consumed) = t
  BY <1>5, <1>7
<1>9. EvaluationAgrees(program)
  BY DEF ParserInv
<1> QED BY <1>1, <1>8, <1>9

\* An accepted text is its program written out, and the four questions about
\* the program have one answer: for every set of names, every text and every
\* bound on it.
THEOREM TextsAreParsed == ParserSpec => []ParsedIsTheText
<1>1. ParserInit => ParserInv
  BY ParserStarts
<1>2. ParserInv /\ [ParserNext]_parserVars => ParserInv'
  BY ParserKeepsInv
<1>3. ParserInv => ParsedIsTheText
  BY InvSaysText
<1> QED BY <1>1, <1>2, <1>3, PTL DEF ParserSpec

(***************************************************************************)
(* Boolean expressions.  Evaluating and lowering go through a tree in the  *)
(* same way, and what they do with leaves and with inner nodes is all that *)
(* makes the difference: both are proved about at once.                    *)
(***************************************************************************)

Turns == {1, 2}
Paths == Seq(Turns)

\* A path with one turn more, before it or behind it.
LEMMA PathFacts ==
  ASSUME NEW p \in Paths, NEW c \in Turns
  PROVE  /\ <<c>> \o p \in Paths /\ <<c>> \o p # <<>> /\ Len(<<c>> \o p) = Len(p) + 1
         /\ Head(<<c>> \o p) = c /\ Tail(<<c>> \o p) = p /\ Len(p) \in Nat
         /\ Append(p, c) \in Paths /\ Len(Append(p, c)) = Len(p) + 1 /\ Append(p, c) # <<>>
         /\ \A d \in Turns : Append(<<c>> \o p, d) = <<c>> \o Append(p, d)
         /\ Append(<<>>, c) = <<c>> \o <<>>
<1> DEFINE one == <<c>>
<1>0. one \in Seq(Turns) /\ p \in Seq(Turns) /\ Len(one) = 1 /\ one[1] = c /\ Len(p) \in Nat
  BY DEF Paths
<1> DEFINE q == one \o p
<1>1. /\ q \in Seq(Turns) /\ Len(q) = Len(p) + 1
      /\ \A i \in 1 .. Len(p) + 1 : q[i] = IF i <= 1 THEN one[i] ELSE p[i - 1]
  <2> HIDE DEF one
  <2>1. /\ q \in Seq(Turns) /\ Len(q) = Len(one) + Len(p)
        /\ \A i \in 1 .. Len(one) + Len(p) : q[i] = IF i <= Len(one) THEN one[i] ELSE p[i - Len(one)]
    BY <1>0, ConcatProperties
  <2>2. Len(one) + Len(p) = Len(p) + 1
    BY <1>0
  <2> QED BY <1>0, <2>1, <2>2
<1> HIDE DEF one, q
<1>2. q # <<>> /\ Head(q) = c
  BY <1>0, <1>1
<1>3. Tail(q) = p
  <2>1. /\ Tail(q) \in Seq(Turns) /\ Len(Tail(q)) = Len(p)
        /\ \A i \in 1 .. Len(p) : Tail(q)[i] = q[i + 1]
    BY <1>0, <1>1, <1>2
  <2>2. \A i \in 1 .. Len(p) : Tail(q)[i] = p[i]
    <3> SUFFICES ASSUME NEW i \in 1 .. Len(p) PROVE Tail(q)[i] = p[i]
      OBVIOUS
    <3>1. i + 1 \in 1 .. Len(p) + 1 /\ ~(i + 1 <= 1) /\ i + 1 - 1 = i
      BY <1>0
    <3> QED BY <1>1, <2>1, <3>1
  <2>3. IsSeq(Tail(q)) /\ IsSeq(p)
    BY <1>0, <2>1, SeqIs
  <2> QED BY <2>1, <2>2, <2>3, SameSeq
<1>4. Append(p, c) \in Paths /\ Len(Append(p, c)) = Len(p) + 1 /\ Append(p, c) # <<>>
  BY <1>0 DEF Paths
<1>5. ASSUME NEW d \in Turns PROVE Append(q, d) = one \o Append(p, d)
  <2> DEFINE u == Append(p, d)
             s == one \o u
             t == Append(q, d)
  <2>1. /\ u \in Seq(Turns) /\ Len(u) = Len(p) + 1 /\ \A i \in 1 .. Len(p) : u[i] = p[i]
        /\ u[Len(p) + 1] = d
    BY <1>0
  <2>2. /\ t \in Seq(Turns) /\ Len(t) = Len(q) + 1 /\ \A i \in 1 .. Len(q) : t[i] = q[i]
        /\ t[Len(q) + 1] = d
    BY <1>1
  <2> HIDE DEF u, t
  <2>3. /\ s \in Seq(Turns) /\ Len(s) = Len(one) + Len(u)
        /\ \A i \in 1 .. Len(one) + Len(u) : s[i] = IF i <= Len(one) THEN one[i] ELSE u[i - Len(one)]
    BY <1>0, <2>1, ConcatProperties
  <2> HIDE DEF s
  <2>4. IsSeq(s) /\ IsSeq(t)
    BY <2>2, <2>3, SeqIs
  <2>5. Len(s) = Len(t) /\ Len(s) = Len(p) + 2
    BY <1>0, <1>1, <2>1, <2>2, <2>3
  <2>6. ASSUME NEW i \in 1 .. Len(s) PROVE s[i] = t[i]
    <3>1. i = 1 \/ i \in 2 .. Len(p) + 1 \/ i = Len(p) + 2
      BY <1>0, <2>5
    <3>2. CASE i = 1
      BY <1>0, <1>1, <2>1, <2>2, <2>3, <3>2
    <3>3. CASE i \in 2 .. Len(p) + 1
      <4>1. i - 1 \in 1 .. Len(p) /\ i \in 1 .. Len(one) + Len(u) /\ ~(i <= 1) /\ i \in 1 .. Len(q)
        BY <1>0, <1>1, <2>1, <3>3
      <4>2. s[i] = u[i - 1]
        BY <1>0, <2>3, <4>1
      <4>3. t[i] = p[i - 1]
        BY <1>1, <2>2, <4>1
      <4> QED BY <2>1, <4>1, <4>2, <4>3
    <3>4. CASE i = Len(p) + 2
      <4>1. i - 1 = Len(p) + 1 /\ i \in 1 .. Len(one) + Len(u) /\ ~(i <= 1) /\ i = Len(q) + 1
        BY <1>0, <1>1, <2>1, <3>4
      <4>2. s[i] = u[i - 1]
        BY <1>0, <2>3, <4>1
      <4> QED BY <2>1, <2>2, <4>1, <4>2
    <3> QED BY <3>1, <3>2, <3>3, <3>4
  <2>7. s = t
    BY <2>4, <2>5, <2>6, SameSeq
  <2> QED BY <2>7 DEF s, t, u
<1>6. Append(<<>>, c) = one \o <<>>
  <2>1. Append(<<>>, c) = <<c>>
    OBVIOUS
  <2>2. one \o <<>> = one
    BY <1>0
  <2> QED BY <2>1, <2>2 DEF one
<1> QED BY <1>0, <1>1, <1>2, <1>3, <1>4, <1>5, <1>6 DEF q, one, Paths

Kinds == {"var", "const", "nand"}
IsTree(e) ==
  /\ e = [p \in DOMAIN e |-> e[p]]
  /\ DOMAIN e \subseteq Paths /\ <<>> \in DOMAIN e
  /\ \E h \in Nat : \A p \in DOMAIN e : Len(p) <= h
  /\ \A p \in DOMAIN e :
       /\ e[p].kind \in Kinds
       /\ e[p].kind = "var" => e[p].idx \in 1 .. NVars
       /\ e[p].kind = "const" => e[p].val \in BOOLEAN
       /\ e[p].kind = "nand" => Append(p, 1) \in DOMAIN e /\ Append(p, 2) \in DOMAIN e

\* The nodes of a NAND of two trees.
Joins(e, a, b) ==
  /\ e = [p \in DOMAIN e |-> e[p]] /\ <<>> \in DOMAIN e /\ DOMAIN e \subseteq Paths
  /\ e[<<>>] = [kind |-> "nand"]
  /\ \A q \in DOMAIN a : <<1>> \o q \in DOMAIN e /\ e[<<1>> \o q] = a[q]
  /\ \A q \in DOMAIN b : <<2>> \o q \in DOMAIN e /\ e[<<2>> \o q] = b[q]
  /\ \A p \in DOMAIN e :
       \/ p = <<>>
       \/ \E q \in DOMAIN a : p = <<1>> \o q
       \/ \E q \in DOMAIN b : p = <<2>> \o q

\* They are the nodes of that NAND.
LEMMA NandNodes ==
  ASSUME NEW a, IsTree(a), NEW b, IsTree(b)
  PROVE  Joins(Nand(a, b), a, b)
<1> DEFINE e == Nand(a, b)
           A == {<<1>> \o q : q \in DOMAIN a}
           B == {<<2>> \o q : q \in DOMAIN b}
           D == {<<>>} \cup A \cup B
<1>1. e = [p \in D |-> IF p = <<>> THEN [kind |-> "nand"]
                       ELSE IF Head(p) = 1 THEN a[Tail(p)] ELSE b[Tail(p)]]
  BY DEF Nand
<1>2. DOMAIN e = D /\ e = [p \in DOMAIN e |-> e[p]] /\ e[<<>>] = [kind |-> "nand"]
  <2> HIDE DEF A, B, e
  <2> QED BY <1>1
<1>3. \A p \in D : p # <<>> => e[p] = IF Head(p) = 1 THEN a[Tail(p)] ELSE b[Tail(p)]
  <2> HIDE DEF A, B, e
  <2> QED BY <1>1
<1>4. \A q \in DOMAIN a : q \in Paths
  BY DEF IsTree
<1>5. \A q \in DOMAIN b : q \in Paths
  BY DEF IsTree
<1>6. 1 \in Turns /\ 2 \in Turns /\ <<>> \in Paths
  BY DEF Turns, Paths
<1>7. ASSUME NEW q \in DOMAIN a PROVE << 1 >> \o q \in D /\ e[<< 1 >> \o q] = a[q] /\ << 1 >> \o q \in Paths
  <2>1. <<1>> \o q # <<>> /\ Head(<<1>> \o q) = 1 /\ Tail(<<1>> \o q) = q /\ <<1>> \o q \in Paths
    BY <1>4, <1>6, PathFacts
  <2>2. <<1>> \o q \in D
    OBVIOUS
  <2> HIDE DEF e, D
  <2> QED BY <1>3, <2>1, <2>2
<1>8. ASSUME NEW q \in DOMAIN b PROVE << 2 >> \o q \in D /\ e[<< 2 >> \o q] = b[q] /\ << 2 >> \o q \in Paths
  <2>1. <<2>> \o q # <<>> /\ Head(<<2>> \o q) = 2 /\ Tail(<<2>> \o q) = q /\ <<2>> \o q \in Paths
    BY <1>5, <1>6, PathFacts
  <2>2. <<2>> \o q \in D
    OBVIOUS
  <2> DEFINE p == <<2>> \o q
  <2>3. p # <<>> /\ Head(p) # 1 /\ Tail(p) = q /\ p \in D
    BY <2>1, <2>2
  <2> HIDE DEF e, D, p
  <2>4. e[p] = b[q]
    BY <1>3, <2>3
  <2> QED BY <2>1, <2>2, <2>4 DEF p
<1>9. \A p \in D : \/ p = <<>>
                   \/ \E q \in DOMAIN a : p = <<1>> \o q
                   \/ \E q \in DOMAIN b : p = <<2>> \o q
  OBVIOUS
<1>10. D \subseteq Paths
  BY <1>6, <1>7, <1>8, <1>9
<1> HIDE DEF D, e
<1>11. /\ e = [p \in DOMAIN e |-> e[p]] /\ <<>> \in DOMAIN e /\ DOMAIN e \subseteq Paths
       /\ e[<<>>] = [kind |-> "nand"]
  <2>1. <<>> \in D
    BY DEF D
  <2> QED BY <1>2, <1>10, <2>1
<1>12. \A q \in DOMAIN a : <<1>> \o q \in DOMAIN e /\ e[<<1>> \o q] = a[q]
  BY <1>2, <1>7
<1>13. \A q \in DOMAIN b : <<2>> \o q \in DOMAIN e /\ e[<<2>> \o q] = b[q]
  BY <1>2, <1>8
<1>14. \A p \in DOMAIN e :
         \/ p = <<>>
         \/ \E q \in DOMAIN a : p = <<1>> \o q
         \/ \E q \in DOMAIN b : p = <<2>> \o q
  BY <1>2, <1>9
<1>15. Joins(e, a, b)
  BY <1>11, <1>12, <1>13, <1>14 DEF Joins
<1> QED BY <1>15 DEF e

\* A NAND of two trees is a tree.
LEMMA NandIsTree ==
  ASSUME NEW a, IsTree(a), NEW b, IsTree(b)
  PROVE  IsTree(Nand(a, b))
<1> DEFINE e == Nand(a, b)
<1>1. /\ e = [p \in DOMAIN e |-> e[p]] /\ <<>> \in DOMAIN e /\ DOMAIN e \subseteq Paths
      /\ e[<<>>] = [kind |-> "nand"]
      /\ \A q \in DOMAIN a : <<1>> \o q \in DOMAIN e /\ e[<<1>> \o q] = a[q]
      /\ \A q \in DOMAIN b : <<2>> \o q \in DOMAIN e /\ e[<<2>> \o q] = b[q]
      /\ \A p \in DOMAIN e :
           \/ p = <<>>
           \/ \E q \in DOMAIN a : p = <<1>> \o q
           \/ \E q \in DOMAIN b : p = <<2>> \o q
  <2>1. Joins(e, a, b)
    BY NandNodes
  <2> HIDE DEF e
  <2> QED BY <2>1 DEF Joins
<1> HIDE DEF e
<1>2. DOMAIN a \subseteq Paths /\ DOMAIN b \subseteq Paths /\ <<>> \in DOMAIN a /\ <<>> \in DOMAIN b
  BY DEF IsTree
<1>3. 1 \in Turns /\ 2 \in Turns
  BY DEF Turns
<1>4. PICK ha \in Nat : \A p \in DOMAIN a : Len(p) <= ha
  BY DEF IsTree
<1>5. PICK hb \in Nat : \A p \in DOMAIN b : Len(p) <= hb
  BY DEF IsTree
<1>6. \A p \in DOMAIN e : Len(p) <= ha + hb + 1
  <2> SUFFICES ASSUME NEW p \in DOMAIN e PROVE Len(p) <= ha + hb + 1
    OBVIOUS
  <2>1. CASE p = <<>>
    BY <2>1
  <2>2. ASSUME NEW q \in DOMAIN a, p = << 1 >> \o q PROVE Len(p) <= ha + hb + 1
    <3>1. Len(p) = Len(q) + 1 /\ Len(q) \in Nat /\ Len(q) <= ha
      BY <1>2, <1>3, <1>4, <2>2, PathFacts
    <3> QED BY <3>1
  <2>3. ASSUME NEW q \in DOMAIN b, p = << 2 >> \o q PROVE Len(p) <= ha + hb + 1
    <3>1. Len(p) = Len(q) + 1 /\ Len(q) \in Nat /\ Len(q) <= hb
      BY <1>2, <1>3, <1>5, <2>3, PathFacts
    <3> QED BY <3>1
  <2> QED BY <1>1, <2>1, <2>2, <2>3
<1> DEFINE Node(t, p) ==
      /\ t[p].kind \in Kinds
      /\ t[p].kind = "var" => t[p].idx \in 1 .. NVars
      /\ t[p].kind = "const" => t[p].val \in BOOLEAN
      /\ t[p].kind = "nand" => Append(p, 1) \in DOMAIN t /\ Append(p, 2) \in DOMAIN t
<1>7. ASSUME NEW p \in DOMAIN e PROVE Node(e, p)
  <2>1. CASE p = <<>>
    <3>1. e[p].kind = "nand"
      BY <1>1, <2>1
    <3>2. Append(p, 1) = <<1>> \o <<>> /\ Append(p, 2) = <<2>> \o <<>>
      BY <1>2, <1>3, <2>1, PathFacts
    <3>3. Append(p, 1) \in DOMAIN e /\ Append(p, 2) \in DOMAIN e
      BY <1>1, <1>2, <3>2
    <3> QED BY <3>1, <3>3 DEF Kinds
  <2>2. ASSUME NEW q \in DOMAIN a, p = << 1 >> \o q PROVE Node(e, p)
    <3>1. e[p] = a[q]
      BY <1>1, <2>2
    <3>2. Node(a, q)
      BY DEF IsTree
    <3>3. Append(p, 1) = <<1>> \o Append(q, 1) /\ Append(p, 2) = <<1>> \o Append(q, 2)
      BY <1>2, <1>3, <2>2, PathFacts
    <3>4. \A r : r \in DOMAIN a => <<1>> \o r \in DOMAIN e
      BY <1>1
    <3> QED BY <3>1, <3>2, <3>3, <3>4
  <2>3. ASSUME NEW q \in DOMAIN b, p = << 2 >> \o q PROVE Node(e, p)
    <3>1. e[p] = b[q]
      BY <1>1, <2>3
    <3>2. Node(b, q)
      BY DEF IsTree
    <3>3. Append(p, 1) = <<2>> \o Append(q, 1) /\ Append(p, 2) = <<2>> \o Append(q, 2)
      BY <1>2, <1>3, <2>3, PathFacts
    <3>4. \A r : r \in DOMAIN b => <<2>> \o r \in DOMAIN e
      BY <1>1
    <3> QED BY <3>1, <3>2, <3>3, <3>4
  <2> HIDE DEF Node
  <2> QED BY <1>1, <2>1, <2>2, <2>3
<1>8. ha + hb + 1 \in Nat
  OBVIOUS
<1> QED BY <1>1, <1>6, <1>7, <1>8 DEF IsTree, e

\* The two ways through a tree: evaluating it, and lowering it.
AtLeaf(way, x, s) == IF way = "eval" THEN leaf_value(x, s) ELSE [q \in {<<>>} |-> x]
AtNode(way, x, y) == IF way = "eval" THEN nand(x, y) ELSE Nand(x, y)
Goes(f, way, e, s) ==
  f = [p \in DOMAIN e |-> IF e[p].kind = "nand" THEN AtNode(way, f[Append(p, 1)], f[Append(p, 2)])
                          ELSE AtLeaf(way, e[p], s)]

\* There is one result.
LEMMA OneResult ==
  ASSUME NEW e, IsTree(e), NEW way, NEW s, NEW f, Goes(f, way, e, s), NEW g, Goes(g, way, e, s)
  PROVE  f[<<>>] = g[<<>>]
<1>1. PICK h \in Nat : \A p \in DOMAIN e : Len(p) <= h
  BY DEF IsTree
<1>2. \A p \in DOMAIN e : p \in Paths /\ Len(p) \in Nat
  BY DEF IsTree, Paths
<1>3. \A p \in DOMAIN e : f[p] = IF e[p].kind = "nand" THEN AtNode(way, f[Append(p, 1)], f[Append(p, 2)])
                                 ELSE AtLeaf(way, e[p], s)
  BY DEF Goes
<1>4. \A p \in DOMAIN e : g[p] = IF e[p].kind = "nand" THEN AtNode(way, g[Append(p, 1)], g[Append(p, 2)])
                                 ELSE AtLeaf(way, e[p], s)
  BY DEF Goes
<1>5. ASSUME NEW p \in DOMAIN e, e[p].kind = "nand"
      PROVE  /\ Append(p, 1) \in DOMAIN e /\ Append(p, 2) \in DOMAIN e
             /\ Len(Append(p, 1)) = Len(p) + 1 /\ Len(Append(p, 2)) = Len(p) + 1
  <2>1. Append(p, 1) \in DOMAIN e /\ Append(p, 2) \in DOMAIN e
    BY <1>5 DEF IsTree
  <2>2. 1 \in Turns /\ 2 \in Turns
    BY DEF Turns
  <2> QED BY <1>2, <2>1, <2>2, PathFacts
<1> DEFINE S == {n \in Nat : \A p \in DOMAIN e : Len(p) + n >= h + 1 => f[p] = g[p]}
<1>6. 0 \in S
  BY <1>1, <1>2
<1>7. ASSUME NEW n \in 0 .. h + 1 - 1, n \in S PROVE n + 1 \in S
  <2> SUFFICES ASSUME NEW p \in DOMAIN e, Len(p) + (n + 1) >= h + 1 PROVE f[p] = g[p]
    OBVIOUS
  <2>1. CASE e[p].kind = "nand"
    <3>1. Len(Append(p, 1)) + n >= h + 1 /\ Len(Append(p, 2)) + n >= h + 1
      BY <1>2, <1>5, <2>1
    <3>2. f[Append(p, 1)] = g[Append(p, 1)] /\ f[Append(p, 2)] = g[Append(p, 2)]
      BY <1>5, <1>7, <2>1, <3>1
    <3> QED BY <1>3, <1>4, <2>1, <3>2
  <2>2. CASE e[p].kind # "nand"
    BY <1>3, <1>4, <2>2
  <2> QED BY <2>1, <2>2
<1>8. h + 1 \in S
  <2> HIDE DEF S
  <2>1. h + 1 \in Nat /\ h + 1 \in 0 .. h + 1
    OBVIOUS
  <2> QED BY <1>6, <1>7, <2>1, UpTo
<1>9. <<>> \in DOMAIN e /\ Len(<<>>) + (h + 1) >= h + 1
  BY DEF IsTree
<1> QED BY <1>8, <1>9

\* A leaf has a result.
LEMMA LeafResult ==
  ASSUME NEW x, x.kind # "nand", NEW way, NEW s
  PROVE  Goes([p \in {<<>>} |-> AtLeaf(way, x, s)], way, [p \in {<<>>} |-> x], s)
<1> DEFINE e == [p \in {<<>>} |-> x]
           f == [p \in {<<>>} |-> AtLeaf(way, x, s)]
<1>1. f = [p \in DOMAIN e |-> IF e[p].kind = "nand" THEN AtNode(way, f[Append(p, 1)], f[Append(p, 2)])
                              ELSE AtLeaf(way, e[p], s)]
  <2>1. DOMAIN e = {<<>>} /\ \A p \in {<<>>} : e[p] = x
    OBVIOUS
  <2>2. [p \in DOMAIN e |-> IF e[p].kind = "nand" THEN AtNode(way, f[Append(p, 1)], f[Append(p, 2)])
                            ELSE AtLeaf(way, e[p], s)]
        = [p \in {<<>>} |-> AtLeaf(way, x, s)]
    <3> HIDE DEF e
    <3> QED BY <2>1
  <2> HIDE DEF e
  <2> QED BY <2>2
<1> QED BY <1>1 DEF Goes

\* A NAND has one when its operands have.
LEMMA NandResult ==
  ASSUME NEW a, IsTree(a), NEW b, IsTree(b), NEW way, NEW s,
         NEW f, Goes(f, way, a, s), NEW g, Goes(g, way, b, s)
  PROVE  \E k : Goes(k, way, Nand(a, b), s) /\ k[<<>>] = AtNode(way, f[<<>>], g[<<>>])
<1> DEFINE e == Nand(a, b)
           k == [p \in DOMAIN e |-> IF p = <<>> THEN AtNode(way, f[<<>>], g[<<>>])
                                    ELSE IF Head(p) = 1 THEN f[Tail(p)] ELSE g[Tail(p)]]
<1>1. Joins(e, a, b)
  BY NandNodes
<1> HIDE DEF e
<1>2. /\ <<>> \in DOMAIN e /\ e[<<>>] = [kind |-> "nand"]
      /\ \A q \in DOMAIN a : <<1>> \o q \in DOMAIN e /\ e[<<1>> \o q] = a[q]
      /\ \A q \in DOMAIN b : <<2>> \o q \in DOMAIN e /\ e[<<2>> \o q] = b[q]
      /\ \A p \in DOMAIN e :
           \/ p = <<>>
           \/ \E q \in DOMAIN a : p = <<1>> \o q
           \/ \E q \in DOMAIN b : p = <<2>> \o q
  BY <1>1 DEF Joins
<1>3. 1 \in Turns /\ 2 \in Turns /\ DOMAIN a \subseteq Paths /\ DOMAIN b \subseteq Paths /\ <<>> \in Paths
      /\ <<>> \in DOMAIN a /\ <<>> \in DOMAIN b
  BY DEF Turns, IsTree
<1>4. k[<<>>] = AtNode(way, f[<<>>], g[<<>>]) /\ DOMAIN k = DOMAIN e /\ k = [p \in DOMAIN e |-> k[p]]
  BY <1>2
<1>5. ASSUME NEW q \in DOMAIN a PROVE k[<< 1 >> \o q] = f[q]
  <2> DEFINE p == <<1>> \o q
  <2>1. p # <<>> /\ Head(p) = 1 /\ Tail(p) = q /\ p \in DOMAIN e
    BY <1>2, <1>3, PathFacts
  <2> HIDE DEF p
  <2>2. k[p] = f[q]
    BY <2>1
  <2> QED BY <2>2 DEF p
<1>6. ASSUME NEW q \in DOMAIN b PROVE k[<< 2 >> \o q] = g[q]
  <2> DEFINE p == <<2>> \o q
  <2>1. p # <<>> /\ Head(p) # 1 /\ Tail(p) = q /\ p \in DOMAIN e
    <3>1. p # <<>> /\ Head(p) = 2 /\ Tail(p) = q /\ p \in DOMAIN e
      BY <1>2, <1>3, PathFacts
    <3> QED BY <3>1
  <2> HIDE DEF p
  <2>2. k[p] = g[q]
    BY <2>1
  <2> QED BY <2>2 DEF p
<1> HIDE DEF k
<1> DEFINE Here(t, r, p) == r[p] = IF t[p].kind = "nand" THEN AtNode(way, r[Append(p, 1)], r[Append(p, 2)])
                                   ELSE AtLeaf(way, t[p], s)
<1>7. \A p \in DOMAIN a : Here(a, f, p)
  BY DEF Goes
<1>8. \A p \in DOMAIN b : Here(b, g, p)
  BY DEF Goes
<1>9. ASSUME NEW p \in DOMAIN e PROVE Here(e, k, p)
  <2>1. CASE p = <<>>
    <3>1. Append(p, 1) = <<1>> \o <<>> /\ Append(p, 2) = <<2>> \o <<>>
      BY <1>3, <2>1, PathFacts
    <3>2. k[Append(p, 1)] = f[<<>>] /\ k[Append(p, 2)] = g[<<>>]
      BY <1>3, <1>5, <1>6, <3>1
    <3>3. e[p].kind = "nand"
      BY <1>2, <2>1
    <3> QED BY <1>4, <2>1, <3>2, <3>3
  <2>2. ASSUME NEW q \in DOMAIN a, p = << 1 >> \o q PROVE Here(e, k, p)
    <3>1. e[p] = a[q] /\ k[p] = f[q]
      BY <1>2, <1>5, <2>2
    <3>2. Here(a, f, q)
      BY <1>7
    <3>3. CASE a[q].kind = "nand"
      <4>1. Append(q, 1) \in DOMAIN a /\ Append(q, 2) \in DOMAIN a
        BY <3>3 DEF IsTree
      <4>2. Append(p, 1) = <<1>> \o Append(q, 1) /\ Append(p, 2) = <<1>> \o Append(q, 2)
        BY <1>3, <2>2, PathFacts
      <4> DEFINE x == Append(q, 1)
                 y == Append(q, 2)
      <4>3. k[Append(p, 1)] = f[x] /\ k[Append(p, 2)] = f[y]
        <5>1. k[<<1>> \o x] = f[x]
          BY <1>5, <4>1
        <5>2. k[<<1>> \o y] = f[y]
          BY <1>5, <4>1
        <5>3. Append(p, 1) = <<1>> \o x /\ Append(p, 2) = <<1>> \o y
          BY <4>2
        <5> HIDE DEF x, y
        <5> QED BY <5>1, <5>2, <5>3
      <4> QED BY <3>1, <3>2, <3>3, <4>3
    <3>4. CASE a[q].kind # "nand"
      BY <3>1, <3>2, <3>4
    <3> QED BY <3>3, <3>4
  <2>3. ASSUME NEW q \in DOMAIN b, p = << 2 >> \o q PROVE Here(e, k, p)
    <3>1. e[p] = b[q] /\ k[p] = g[q]
      BY <1>2, <1>6, <2>3
    <3>2. Here(b, g, q)
      BY <1>8
    <3>3. CASE b[q].kind = "nand"
      <4>1. Append(q, 1) \in DOMAIN b /\ Append(q, 2) \in DOMAIN b
        BY <3>3 DEF IsTree
      <4>2. Append(p, 1) = <<2>> \o Append(q, 1) /\ Append(p, 2) = <<2>> \o Append(q, 2)
        BY <1>3, <2>3, PathFacts
      <4> DEFINE x == Append(q, 1)
                 y == Append(q, 2)
      <4>3. k[Append(p, 1)] = g[x] /\ k[Append(p, 2)] = g[y]
        <5>1. k[<<2>> \o x] = g[x]
          BY <1>6, <4>1
        <5>2. k[<<2>> \o y] = g[y]
          BY <1>6, <4>1
        <5>3. Append(p, 1) = <<2>> \o x /\ Append(p, 2) = <<2>> \o y
          BY <4>2
        <5> HIDE DEF x, y
        <5> QED BY <5>1, <5>2, <5>3
      <4> QED BY <3>1, <3>2, <3>3, <4>3
    <3>4. CASE b[q].kind # "nand"
      BY <3>1, <3>2, <3>4
    <3> QED BY <3>3, <3>4
  <2> HIDE DEF Here
  <2> QED BY <1>2, <2>1, <2>2, <2>3
<1>10. Goes(k, way, e, s)
  <2>1. k = [p \in DOMAIN e |-> IF e[p].kind = "nand" THEN AtNode(way, k[Append(p, 1)], k[Append(p, 2)])
                                ELSE AtLeaf(way, e[p], s)]
    <3>1. \A p \in DOMAIN e : k[p] = IF e[p].kind = "nand" THEN AtNode(way, k[Append(p, 1)], k[Append(p, 2)])
                                     ELSE AtLeaf(way, e[p], s)
      BY <1>9
    <3> QED BY <1>4, <3>1
  <2> QED BY <2>1 DEF Goes
<1> QED BY <1>4, <1>10 DEF e

\* What is built of leaves and NANDs can be gone through.
Built(e) == IsTree(e) /\ \A way, s : \E f : Goes(f, way, e, s)

\* Evaluating gives the result of the one way,
LEMMA EvalIs ==
  ASSUME NEW e, IsTree(e), NEW s, NEW f, Goes(f, "eval", e, s)
  PROVE  eval(e, s) = f[<<>>]
<1> DEFINE V(v) == v = [p \in DOMAIN e |-> IF e[p].kind = "nand" THEN nand(v[Append(p, 1)], v[Append(p, 2)])
                                           ELSE leaf_value(e[p], s)]
           value == CHOOSE v : V(v)
<1>1. \A v : V(v) <=> Goes(v, "eval", e, s)
  <2>1. \A x, y : AtNode("eval", x, y) = nand(x, y)
    BY DEF AtNode
  <2>2. \A x : AtLeaf("eval", x, s) = leaf_value(x, s)
    BY DEF AtLeaf
  <2> SUFFICES ASSUME NEW v
               PROVE [p \in DOMAIN e |-> IF e[p].kind = "nand" THEN nand(v[Append(p, 1)], v[Append(p, 2)])
                                         ELSE leaf_value(e[p], s)]
                     = [p \in DOMAIN e |-> IF e[p].kind = "nand"
                          THEN AtNode("eval", v[Append(p, 1)], v[Append(p, 2)])
                          ELSE AtLeaf("eval", e[p], s)]
    BY Zenon DEF Goes
  <2> SUFFICES ASSUME NEW p \in DOMAIN e
               PROVE (IF e[p].kind = "nand" THEN nand(v[Append(p, 1)], v[Append(p, 2)])
                      ELSE leaf_value(e[p], s))
                     = IF e[p].kind = "nand"
                          THEN AtNode("eval", v[Append(p, 1)], v[Append(p, 2)])
                          ELSE AtLeaf("eval", e[p], s)
    BY Zenon
  <2> QED BY <2>1, <2>2, Zenon
<1>2. eval(e, s) = value[<<>>]
  BY Zenon DEF eval
<1>3. V(value)
  <2> HIDE DEF V
  <2>1. \E v : V(v)
    BY <1>1
  <2> QED BY <2>1
<1> HIDE DEF value, V
<1>4. Goes(value, "eval", e, s)
  BY <1>1, <1>3
<1>5. value[<<>>] = f[<<>>]
  BY <1>4, OneResult
<1> QED BY <1>2, <1>5

\* lowering that of the other.
LEMMA LowerIs ==
  ASSUME NEW e, IsTree(e), NEW s, NEW f, Goes(f, "lower", e, s)
  PROVE  lower_to_nand(e) = f[<<>>]
<1> DEFINE V(v) == v = [p \in DOMAIN e |-> IF e[p].kind = "nand" THEN Nand(v[Append(p, 1)], v[Append(p, 2)])
                                           ELSE [q \in {<<>>} |-> e[p]]]
           lowered == CHOOSE v : V(v)
<1>1. \A v : V(v) <=> Goes(v, "lower", e, s)
  <2>1. \A x, y : AtNode("lower", x, y) = Nand(x, y)
    BY DEF AtNode
  <2>2. \A x : AtLeaf("lower", x, s) = [q \in {<<>>} |-> x]
    BY DEF AtLeaf
  <2> SUFFICES ASSUME NEW v
               PROVE [p \in DOMAIN e |-> IF e[p].kind = "nand" THEN Nand(v[Append(p, 1)], v[Append(p, 2)])
                                         ELSE [q \in {<<>>} |-> e[p]]]
                     = [p \in DOMAIN e |-> IF e[p].kind = "nand"
                          THEN AtNode("lower", v[Append(p, 1)], v[Append(p, 2)])
                          ELSE AtLeaf("lower", e[p], s)]
    BY Zenon DEF Goes
  <2> SUFFICES ASSUME NEW p \in DOMAIN e
               PROVE (IF e[p].kind = "nand" THEN Nand(v[Append(p, 1)], v[Append(p, 2)])
                      ELSE [q \in {<<>>} |-> e[p]])
                     = IF e[p].kind = "nand"
                          THEN AtNode("lower", v[Append(p, 1)], v[Append(p, 2)])
                          ELSE AtLeaf("lower", e[p], s)
    BY Zenon
  <2> QED BY <2>1, <2>2, Zenon
<1>2. lower_to_nand(e) = lowered[<<>>]
  BY Zenon DEF lower_to_nand
<1>3. V(lowered)
  <2> HIDE DEF V
  <2>1. \E v : V(v)
    BY <1>1
  <2> QED BY <2>1
<1> HIDE DEF lowered, V
<1>4. Goes(lowered, "lower", e, s)
  BY <1>1, <1>3
<1>5. lowered[<<>>] = f[<<>>]
  BY <1>4, OneResult
<1> QED BY <1>2, <1>5

\* A leaf, and a NAND of two trees, evaluate and lower as one expects.
LeafAt(x) == [p \in {<<>>} |-> x]
IsLeaf(x) ==
  /\ x.kind \in {"var", "const"}
  /\ x.kind = "var" => x.idx \in 1 .. NVars
  /\ x.kind = "const" => x.val \in BOOLEAN

\* A leaf is built, and lowers to itself; its value is its own.
LEMMA LeafBuilt ==
  ASSUME NEW x, IsLeaf(x)
  PROVE  /\ Built(LeafAt(x)) /\ lower_to_nand(LeafAt(x)) = LeafAt(x)
         /\ \A s : eval(LeafAt(x), s) = leaf_value(x, s)
<1> DEFINE e == LeafAt(x)
<1>1. DOMAIN e = {<<>>} /\ e[<<>>] = x /\ e = [p \in DOMAIN e |-> e[p]]
  BY DEF LeafAt
<1>2. x.kind # "nand" /\ x.kind \in Kinds
  BY DEF IsLeaf, Kinds
<1>3. IsTree(e)
  <2>1. <<>> \in Paths /\ Len(<<>>) <= 0 /\ 0 \in Nat
    BY DEF Paths
  <2>2. \E h \in Nat : \A p \in DOMAIN e : Len(p) <= h
    <3> HIDE DEF e
    <3> QED BY <1>1, <2>1
  <2>3. \A p \in DOMAIN e :
          /\ e[p].kind \in Kinds
          /\ e[p].kind = "var" => e[p].idx \in 1 .. NVars
          /\ e[p].kind = "const" => e[p].val \in BOOLEAN
          /\ e[p].kind = "nand" => Append(p, 1) \in DOMAIN e /\ Append(p, 2) \in DOMAIN e
    <3> SUFFICES ASSUME NEW p \in DOMAIN e
                 PROVE  /\ e[p].kind \in Kinds
                        /\ e[p].kind = "var" => e[p].idx \in 1 .. NVars
                        /\ e[p].kind = "const" => e[p].val \in BOOLEAN
                        /\ e[p].kind = "nand" => Append(p, 1) \in DOMAIN e /\ Append(p, 2) \in DOMAIN e
      OBVIOUS
    <3>1. e[p] = x
      BY <1>1
    <3> HIDE DEF e
    <3> QED BY <1>2, <3>1 DEF IsLeaf
  <2> HIDE DEF e
  <2> QED BY <1>1, <2>1, <2>2, <2>3 DEF IsTree
<1>4. \A way, s : Goes([p \in {<<>>} |-> AtLeaf(way, x, s)], way, e, s)
  BY <1>2, LeafResult DEF LeafAt
<1>5. Built(e)
  <2> HIDE DEF e
  <2> QED BY <1>3, <1>4 DEF Built
<1>6. lower_to_nand(e) = e
  <2> DEFINE f == [p \in {<<>>} |-> AtLeaf("lower", x, 0)]
  <2>1. Goes(f, "lower", e, 0) /\ f[<<>>] = AtLeaf("lower", x, 0)
    BY <1>4
  <2>2. AtLeaf("lower", x, 0) = e
    BY DEF AtLeaf, LeafAt
  <2> HIDE DEF e, f
  <2> QED BY <1>3, <2>1, <2>2, LowerIs
<1>7. ASSUME NEW s PROVE eval(e, s) = leaf_value(x, s)
  <2> DEFINE f == [p \in {<<>>} |-> AtLeaf("eval", x, s)]
  <2>1. Goes(f, "eval", e, s) /\ f[<<>>] = AtLeaf("eval", x, s)
    BY <1>4
  <2>2. AtLeaf("eval", x, s) = leaf_value(x, s)
    BY DEF AtLeaf
  <2> HIDE DEF e, f
  <2> QED BY <1>3, <2>1, <2>2, EvalIs
<1> QED BY <1>5, <1>6, <1>7

\* Built of NANDs, and lowered to itself.
Whole(e) == Built(e) /\ lower_to_nand(e) = e

NandSays(e, a, b) ==
  Whole(e) /\ \A s : eval(e, s) = nand(eval(a, s), eval(b, s))

\* A NAND of what is built of NANDs is, and evaluates to the NAND of its operands.
LEMMA NandBuilt ==
  ASSUME NEW a, Whole(a), NEW b, Whole(b)
  PROVE  NandSays(Nand(a, b), a, b)
<1> DEFINE e == Nand(a, b)
<1>1. /\ IsTree(a) /\ IsTree(b)
      /\ \A way, s : \E f : Goes(f, way, a, s)
      /\ \A way, s : \E f : Goes(f, way, b, s)
      /\ lower_to_nand(a) = a /\ lower_to_nand(b) = b
  BY DEF Built, Whole
<1>2. IsTree(e)
  BY <1>1, NandIsTree
<1>3. ASSUME NEW way, NEW s, NEW f, Goes(f, way, a, s), NEW g, Goes(g, way, b, s)
      PROVE  \E k : Goes(k, way, e, s) /\ k[<<>>] = AtNode(way, f[<<>>], g[<<>>])
  BY <1>1, <1>3, NandResult
<1> HIDE DEF e
<1>4. ASSUME NEW way, NEW s PROVE \E f : Goes(f, way, e, s)
  <2>1. PICK f : Goes(f, way, a, s)
    BY <1>1
  <2>2. PICK g : Goes(g, way, b, s)
    BY <1>1
  <2> QED BY <1>3, <2>1, <2>2
<1>5. Built(e)
  BY <1>2, <1>4 DEF Built
<1>6. lower_to_nand(e) = e
  <2>1. PICK f : Goes(f, "lower", a, 0)
    BY <1>1
  <2>2. PICK g : Goes(g, "lower", b, 0)
    BY <1>1
  <2>3. PICK k : Goes(k, "lower", e, 0) /\ k[<<>>] = AtNode("lower", f[<<>>], g[<<>>])
    BY <1>3, <2>1, <2>2
  <2>4. f[<<>>] = a /\ g[<<>>] = b
    BY <1>1, <2>1, <2>2, LowerIs
  <2>5. lower_to_nand(e) = k[<<>>]
    BY <1>2, <2>3, LowerIs
  <2>6. AtNode("lower", a, b) = e
    BY DEF AtNode, e
  <2> QED BY <2>3, <2>4, <2>5, <2>6
<1>7. ASSUME NEW s PROVE eval(e, s) = nand(eval(a, s), eval(b, s))
  <2>1. PICK f : Goes(f, "eval", a, s)
    BY <1>1
  <2>2. PICK g : Goes(g, "eval", b, s)
    BY <1>1
  <2>3. PICK k : Goes(k, "eval", e, s) /\ k[<<>>] = AtNode("eval", f[<<>>], g[<<>>])
    BY <1>3, <2>1, <2>2
  <2>4. f[<<>>] = eval(a, s) /\ g[<<>>] = eval(b, s)
    BY <1>1, <2>1, <2>2, EvalIs
  <2>5. eval(e, s) = k[<<>>]
    BY <1>2, <2>3, EvalIs
  <2>6. AtNode("eval", f[<<>>], g[<<>>]) = nand(f[<<>>], g[<<>>])
    BY DEF AtNode
  <2> QED BY <2>3, <2>4, <2>5, <2>6
<1> QED BY <1>5, <1>6, <1>7 DEF Whole, NandSays, e

\* The session's leaves are built so, and are true or false.
LEMMA LeavesAreWhole ==
  ASSUME NEW e \in Leaves
  PROVE  Whole(e) /\ \A s \in Assignments : eval(e, s) \in BOOLEAN
<1>1. PICK x : e = LeafAt(x) /\ IsLeaf(x)
  <2>1. CASE \E k \in 1 .. NVars : e = Var(k)
    <3>1. PICK k \in 1 .. NVars : e = Var(k)
      BY <2>1
    <3> DEFINE x == [kind |-> "var", idx |-> k]
    <3>2. e = LeafAt(x) /\ IsLeaf(x)
      BY <3>1 DEF Var, LeafAt, IsLeaf
    <3> QED BY <3>2
  <2>2. CASE \E b \in BOOLEAN : e = Const(b)
    <3>1. PICK b \in BOOLEAN : e = Const(b)
      BY <2>2
    <3> DEFINE x == [kind |-> "const", val |-> b]
    <3>2. e = LeafAt(x) /\ IsLeaf(x)
      BY <3>1 DEF Const, LeafAt, IsLeaf
    <3> QED BY <3>2
  <2> QED BY <2>1, <2>2 DEF Leaves
<1>2. Whole(e) /\ \A s : eval(e, s) = leaf_value(x, s)
  BY <1>1, LeafBuilt DEF Whole
<1>3. ASSUME NEW s \in Assignments PROVE leaf_value(x, s) \in BOOLEAN
  BY <1>1 DEF IsLeaf, leaf_value, Assignments
<1> QED BY <1>2, <1>3

\* The expressions of the session's gates are whole, and mean what the gates say.
GateMeanings(e, leaf) ==
  /\ Whole(from_not(e)) /\ \A s : eval(from_not(e), s) = not(eval(e, s))
  /\ Whole(from_and(e, leaf)) /\ \A s : eval(from_and(e, leaf), s) = and(eval(e, s), eval(leaf, s))
  /\ Whole(from_or(leaf, e)) /\ \A s : eval(from_or(leaf, e), s) = or(eval(leaf, s), eval(e, s))
  /\ Whole(from_xor(e, leaf)) /\ \A s : eval(from_xor(e, leaf), s) = xor(eval(e, s), eval(leaf, s))
  /\ Whole(from_implies(e, leaf))
  /\ \A s : eval(from_implies(e, leaf), s) = implies(eval(e, s), eval(leaf, s))

\* The constructors give trees of that kind.
LEMMA GatesSay ==
  ASSUME NEW e, Whole(e), NEW leaf, Whole(leaf)
  PROVE  GateMeanings(e, leaf)
<1> DEFINE ee == Nand(e, e)
           ll == Nand(leaf, leaf)
           el == Nand(e, leaf)
           a1 == Nand(el, el)
           o1 == Nand(ll, ee)
           xl == Nand(ee, leaf)
           xr == Nand(e, ll)
           x1 == Nand(xl, xr)
<1>1. NandSays(ee, e, e)
  BY NandBuilt
<1>2. NandSays(ll, leaf, leaf)
  BY NandBuilt
<1>3. NandSays(el, e, leaf)
  BY NandBuilt
<1>4. Whole(ee) /\ Whole(ll) /\ Whole(el)
  BY <1>1, <1>2, <1>3 DEF NandSays
<1> HIDE DEF ee, ll, el
<1>5. NandSays(a1, el, el)
  BY <1>4, NandBuilt
<1>6. NandSays(o1, ll, ee)
  BY <1>4, NandBuilt
<1>7. NandSays(xl, ee, leaf)
  BY <1>4, NandBuilt
<1>8. NandSays(xr, e, ll)
  BY <1>4, NandBuilt
<1>9. Whole(xl) /\ Whole(xr)
  BY <1>7, <1>8 DEF NandSays
<1> HIDE DEF a1, o1, xl, xr
<1>10. NandSays(x1, xl, xr)
  BY <1>9, NandBuilt
<1> HIDE DEF x1
<1>11. from_not(e) = ee /\ from_and(e, leaf) = a1 /\ from_or(leaf, e) = o1
  BY DEF from_not, from_and, from_or, ee, a1, el, o1, ll
<1>12. from_xor(e, leaf) = x1 /\ from_implies(e, leaf) = xr
  BY DEF from_xor, from_implies, x1, xl, xr, ee, ll
<1>13. Whole(ee) /\ \A s : eval(ee, s) = not(eval(e, s))
  BY <1>1, Zenon DEF NandSays, not
<1>14. Whole(a1) /\ \A s : eval(a1, s) = and(eval(e, s), eval(leaf, s))
  BY <1>3, <1>5 DEF NandSays, and
<1>15. Whole(o1) /\ \A s : eval(o1, s) = or(eval(leaf, s), eval(e, s))
  BY <1>1, <1>2, <1>6 DEF NandSays, or
<1>16. Whole(x1) /\ \A s : eval(x1, s) = xor(eval(e, s), eval(leaf, s))
  BY <1>1, <1>2, <1>7, <1>8, <1>10 DEF NandSays, xor
<1>17. Whole(xr) /\ \A s : eval(xr, s) = implies(eval(e, s), eval(leaf, s))
  BY <1>2, <1>8 DEF NandSays, implies
<1> QED BY <1>11, <1>12, <1>13, <1>14, <1>15, <1>16, <1>17 DEF GateMeanings

(***************************************************************************)
(* The session keeps an expression that is whole, with its meaning.        *)
(***************************************************************************)

MeaningInv ==
  /\ Whole(expr)
  /\ meaning \in [Assignments -> BOOLEAN]
  /\ \A s \in Assignments : meaning[s] = eval(expr, s)

\* A session starts with a leaf and what it says.
LEMMA MeaningInit == GatesInit => MeaningInv
<1> SUFFICES ASSUME GatesInit PROVE MeaningInv
  OBVIOUS
<1>1. expr \in Leaves /\ meaning = [s \in Assignments |-> eval(expr, s)]
  BY DEF GatesInit
<1>2. Whole(expr) /\ \A s \in Assignments : eval(expr, s) \in BOOLEAN
  BY <1>1, LeavesAreWhole
<1> QED BY <1>1, <1>2 DEF MeaningInv

\* Putting a gate on top keeps the invariant.
LEMMA CombineKeeps ==
  ASSUME NEW tree, Whole(tree), NEW says, says \in [Assignments -> BOOLEAN],
         \A s \in Assignments : eval(tree, s) = says[s],
         Combine(tree, says)
  PROVE  MeaningInv'
<1>1. expr' = tree /\ meaning' = says
  BY DEF Combine
<1>2. Whole(expr')
  BY <1>1
<1>3. meaning' \in [Assignments -> BOOLEAN]
  BY <1>1
<1>4. \A s \in Assignments : meaning'[s] = eval(expr', s)
  BY <1>1
<1> QED BY <1>2, <1>3, <1>4 DEF MeaningInv

\* So does every step.
LEMMA MeaningNext == MeaningInv /\ [GatesNext]_gateVars => MeaningInv'
<1> SUFFICES ASSUME MeaningInv, [GatesNext]_gateVars PROVE MeaningInv'
  OBVIOUS
<1>1. CASE UNCHANGED gateVars
  BY <1>1 DEF gateVars, MeaningInv
<1>2. CASE GatesNext
  <2> DEFINE gn == [s \in Assignments |-> not(meaning[s])]
             ga(leaf) == [s \in Assignments |-> and(meaning[s], eval(leaf, s))]
             go(leaf) == [s \in Assignments |-> or(eval(leaf, s), meaning[s])]
             gx(leaf) == [s \in Assignments |-> xor(meaning[s], eval(leaf, s))]
             gi(leaf) == [s \in Assignments |-> implies(meaning[s], eval(leaf, s))]
             F == [Assignments -> BOOLEAN]
  <2>1. PICK leaf \in Leaves :
          \/ Combine(from_not(expr), gn)
          \/ Combine(from_and(expr, leaf), ga(leaf))
          \/ Combine(from_or(leaf, expr), go(leaf))
          \/ Combine(from_xor(expr, leaf), gx(leaf))
          \/ Combine(from_implies(expr, leaf), gi(leaf))
    BY <1>2 DEF GatesNext
  <2>2. Whole(leaf) /\ Whole(expr) /\ \A s \in Assignments : meaning[s] = eval(expr, s)
    BY LeavesAreWhole DEF MeaningInv
  <2>9. GateMeanings(expr, leaf)
    BY <2>2, GatesSay
  <2> DEFINE Right(tree, says) ==
        Whole(tree) /\ says \in F /\ \A s \in Assignments : eval(tree, s) = says[s]
  <2>3. Right(from_not(expr), gn)
    <3>1. Whole(from_not(expr)) /\ \A s : eval(from_not(expr), s) = not(eval(expr, s))
      BY <2>9 DEF GateMeanings
    <3>2. gn \in F
      BY DEF not, nand
    <3> QED BY <2>2, <3>1, <3>2
  <2>4. Right(from_and(expr, leaf), ga(leaf))
    <3>1. Whole(from_and(expr, leaf)) /\ \A s : eval(from_and(expr, leaf), s) = and(eval(expr, s), eval(leaf, s))
      BY <2>9 DEF GateMeanings
    <3>2. ga(leaf) \in F
      BY DEF and, nand
    <3> QED BY <2>2, <3>1, <3>2
  <2>5. Right(from_or(leaf, expr), go(leaf))
    <3>1. Whole(from_or(leaf, expr)) /\ \A s : eval(from_or(leaf, expr), s) = or(eval(leaf, s), eval(expr, s))
      BY <2>9 DEF GateMeanings
    <3>2. go(leaf) \in F
      BY DEF or, nand
    <3> QED BY <2>2, <3>1, <3>2
  <2>6. Right(from_xor(expr, leaf), gx(leaf))
    <3>1. Whole(from_xor(expr, leaf)) /\ \A s : eval(from_xor(expr, leaf), s) = xor(eval(expr, s), eval(leaf, s))
      BY <2>9 DEF GateMeanings
    <3>2. gx(leaf) \in F
      BY DEF xor, nand
    <3> QED BY <2>2, <3>1, <3>2
  <2>7. Right(from_implies(expr, leaf), gi(leaf))
    <3>1. /\ Whole(from_implies(expr, leaf))
          /\ \A s : eval(from_implies(expr, leaf), s) = implies(eval(expr, s), eval(leaf, s))
      BY <2>9 DEF GateMeanings
    <3>2. gi(leaf) \in F
      BY DEF implies, nand
    <3> QED BY <2>2, <3>1, <3>2
  <2> HIDE DEF gn, ga, go, gx, gi
  <2>8. ASSUME NEW tree, NEW says, Right(tree, says), Combine(tree, says) PROVE MeaningInv'
    BY <2>8, CombineKeeps
  <2> HIDE DEF Right
  <2> QED BY <2>1, <2>3, <2>4, <2>5, <2>6, <2>7, <2>8
<1> QED BY <1>1, <1>2

(***************************************************************************)
(* The rows of a truth table.                                              *)
(***************************************************************************)

Iterates(f, N, b, G) == f = [n \in 0 .. N |-> IF n = 0 THEN b ELSE G[f[n - 1]]]

\* What is done over and over from a start: there is a function that does it.
LEMMA IterateExists ==
  ASSUME NEW N \in Nat, NEW D, NEW b \in D, NEW G \in [D -> D]
  PROVE  \E f \in [0 .. N -> D] : Iterates(f, N, b, G)
<1> DEFINE S == {m \in 0 .. N : \E f \in [0 .. m -> D] : Iterates(f, m, b, G)}
<1>1. 0 \in S
  <2> DEFINE f == [n \in 0 .. 0 |-> b]
  <2>1. f \in [0 .. 0 -> D] /\ Iterates(f, 0, b, G)
    BY DEF Iterates
  <2> QED BY <2>1
<1>2. ASSUME NEW m \in 0 .. N - 1, m \in S PROVE m + 1 \in S
  <2>1. PICK f \in [0 .. m -> D] : Iterates(f, m, b, G)
    BY <1>2
  <2> DEFINE h == [n \in 0 .. m + 1 |-> IF n = m + 1 THEN G[f[m]] ELSE f[n]]
  <2>2. h \in [0 .. m + 1 -> D]
    OBVIOUS
  <2>3. \A n \in 0 .. m + 1 : h[n] = IF n = 0 THEN b ELSE G[h[n - 1]]
    <3> SUFFICES ASSUME NEW n \in 0 .. m + 1 PROVE h[n] = IF n = 0 THEN b ELSE G[h[n - 1]]
      OBVIOUS
    <3>1. CASE n = m + 1
      BY <3>1
    <3>2. CASE n # m + 1
      <4>1. n \in 0 .. m /\ h[n] = f[n] /\ (n # 0 => n - 1 \in 0 .. m /\ h[n - 1] = f[n - 1])
        BY <3>2
      <4>2. f[n] = IF n = 0 THEN b ELSE G[f[n - 1]]
        BY <2>1, <4>1 DEF Iterates
      <4> QED BY <4>1, <4>2
    <3> QED BY <3>1, <3>2
  <2> HIDE DEF h
  <2>4. Iterates(h, m + 1, b, G)
    BY <2>2, <2>3 DEF Iterates
  <2> QED BY <2>2, <2>4
<1>3. \A n \in 0 .. N : n \in S
  <2> HIDE DEF S
  <2> QED BY <1>1, <1>2, UpTo
<1> QED BY <1>3

\* 1 << n doubles with n.
LEMMA Shifts ==
  /\ \A n \in 0 .. NVars : Shl[n] \in Nat
  /\ Shl[0] = 1 /\ \A n \in 1 .. NVars : Shl[n] = 2 * Shl[n - 1]
<1>0. NVars \in Nat
  BY TreeBounds
<1> DEFINE V(v) == v = [n \in 0 .. NVars |-> IF n = 0 THEN 1 ELSE 2 * v[n - 1]]
<1>1. \E v : V(v)
  <2> DEFINE G == [x \in Nat |-> 2 * x]
  <2>1. G \in [Nat -> Nat]
    OBVIOUS
  <2>2. PICK f \in [0 .. NVars -> Nat] : Iterates(f, NVars, 1, G)
    <3> HIDE DEF G
    <3> QED BY <1>0, <2>1, IterateExists
  <2>3. \A n \in 0 .. NVars : n # 0 => n - 1 \in 0 .. NVars /\ f[n - 1] \in Nat
    BY <1>0
  <2>4. V(f)
    BY <2>2, <2>3 DEF Iterates
  <2> QED BY <2>4
<1>2. Shl = CHOOSE v : V(v)
  BY Zenon DEF Shl
<1>3. V(Shl)
  <2> HIDE DEF V
  <2> QED BY <1>1, <1>2
<1>4. \A n \in 0 .. NVars : Shl[n] = IF n = 0 THEN 1 ELSE 2 * Shl[n - 1]
  BY <1>3
<1> HIDE DEF V
<1> DEFINE S == {n \in 0 .. NVars : Shl[n] \in Nat}
<1>5. 0 \in S
  BY <1>0, <1>4
<1>6. ASSUME NEW n \in 0 .. NVars - 1, n \in S PROVE n + 1 \in S
  BY <1>0, <1>4, <1>6
<1>7. \A n \in 0 .. NVars : n \in S
  <2> HIDE DEF S
  <2> QED BY <1>0, <1>5, <1>6, UpTo
<1> QED BY <1>0, <1>4, <1>7

\* row >> n halves with n.
LEMMA RowShifts ==
  ASSUME NEW row \in Nat
  PROVE  /\ \A n \in 0 .. NVars : Shr(row)[n] \in Nat
         /\ Shr(row)[0] = row /\ \A n \in 1 .. NVars : Shr(row)[n] = Shr(row)[n - 1] \div 2
<1>0. NVars \in Nat
  BY TreeBounds
<1> DEFINE V(v) == v = [n \in 0 .. NVars |-> IF n = 0 THEN row ELSE v[n - 1] \div 2]
           r == Shr(row)
<1>1. \E v : V(v)
  <2> DEFINE G == [x \in Nat |-> x \div 2]
  <2>1. G \in [Nat -> Nat]
    OBVIOUS
  <2>2. PICK f \in [0 .. NVars -> Nat] : Iterates(f, NVars, row, G)
    <3> HIDE DEF G
    <3> QED BY <1>0, <2>1, IterateExists
  <2>3. \A n \in 0 .. NVars : n # 0 => n - 1 \in 0 .. NVars /\ f[n - 1] \in Nat
    BY <1>0
  <2>4. V(f)
    BY <2>2, <2>3 DEF Iterates
  <2> QED BY <2>4
<1>2. r = CHOOSE v : V(v)
  BY Zenon DEF Shr
<1>3. V(r)
  <2> HIDE DEF V, r
  <2> QED BY <1>1, <1>2
<1> HIDE DEF r
<1>4. \A n \in 0 .. NVars : r[n] = IF n = 0 THEN row ELSE r[n - 1] \div 2
  BY <1>3
<1> HIDE DEF V
<1> DEFINE S == {n \in 0 .. NVars : r[n] \in Nat}
<1>5. 0 \in S
  BY <1>0, <1>4
<1>6. ASSUME NEW n \in 0 .. NVars - 1, n \in S PROVE n + 1 \in S
  BY <1>0, <1>4, <1>6
<1>7. \A n \in 0 .. NVars : n \in S
  <2> HIDE DEF S
  <2> QED BY <1>0, <1>5, <1>6, UpTo
<1>8. /\ \A n \in 0 .. NVars : r[n] \in Nat
      /\ r[0] = row /\ \A n \in 1 .. NVars : r[n] = r[n - 1] \div 2
  BY <1>0, <1>4, <1>7
<1> QED BY <1>8 DEF r

\* One digit more at the end moves the others up.
LEMMA RowDoubled ==
  ASSUME NEW row \in Nat, NEW b \in {0, 1}
  PROVE  \A n \in 0 .. NVars - 1 : Shr(2 * row + b)[n + 1] = Shr(row)[n]
<1>0. NVars \in Nat /\ NVars # 0
  BY TreeBounds
<1> DEFINE more == 2 * row + b
           u == Shr(row)
           v == Shr(more)
<1>1. more \in Nat /\ more \div 2 = row
  OBVIOUS
<1>2. u[0] = row /\ \A n \in 1 .. NVars : u[n] = u[n - 1] \div 2
  BY RowShifts
<1>3. v[0] = more /\ \A n \in 1 .. NVars : v[n] = v[n - 1] \div 2
  <2> HIDE DEF more
  <2> QED BY <1>1, RowShifts
<1> HIDE DEF u, v, more
<1> DEFINE S == {n \in 0 .. NVars - 1 : v[n + 1] = u[n]}
<1>4. 0 \in S
  <2>1. v[1] = v[1 - 1] \div 2
    BY <1>0, <1>3
  <2> QED BY <1>0, <1>1, <1>2, <1>3, <2>1
<1>5. ASSUME NEW n \in 0 .. NVars - 1 - 1, n \in S PROVE n + 1 \in S
  <2>1. n + 1 \in 1 .. NVars /\ n + 2 \in 1 .. NVars /\ n + 2 - 1 = n + 1 /\ n + 1 - 1 = n
        /\ n + 1 \in 0 .. NVars - 1 /\ n + 1 + 1 = n + 2
    BY <1>0
  <2>2. v[n + 1] = u[n]
    BY <1>5
  <2>3. u[n + 1] = u[n] \div 2
    BY <1>2, <2>1
  <2>4. v[n + 2] = v[n + 1] \div 2
    BY <1>3, <2>1
  <2> QED BY <2>1, <2>2, <2>3, <2>4
<1>6. \A n \in 0 .. NVars - 1 : n \in S
  <2>1. NVars - 1 \in Nat
    BY <1>0
  <2> HIDE DEF S
  <2> QED BY <1>4, <1>5, <2>1, UpTo
<1>7. \A n \in 0 .. NVars - 1 : v[n + 1] = u[n]
  BY <1>6
<1> QED BY <1>7 DEF u, v, more

\* Each row is an assignment,
LEMMA RowsAreAssignments ==
  ASSUME NEW row \in Rows
  PROVE  RowBindings(row) \in Assignments
BY DEF RowBindings, Assignments

\* and each assignment has its row.
LEMMA AssignmentsAreRows ==
  ASSUME NEW s \in Assignments
  PROVE  \E row \in Rows : RowBindings(row) = s
<1>0. NVars \in Nat /\ NVars # 0
  BY TreeBounds
<1>s. s = [k \in 1 .. NVars |-> s[k]] /\ \A k \in 1 .. NVars : s[k] \in BOOLEAN
  BY DEF Assignments
<1> DEFINE Digits(r, n) == \A k \in 1 .. n : (Shr(r)[n - k] % 2 = 1) = s[k]
           S == {n \in 0 .. NVars : \E r \in Nat : r < Shl[n] /\ Digits(r, n)}
<1>1. 0 \in S
  <2>1. 0 < Shl[0] /\ Digits(0, 0) /\ 0 \in Nat
    BY Shifts
  <2>2. 0 \in 0 .. NVars
    BY <1>0
  <2> HIDE DEF Digits
  <2> QED BY <2>1, <2>2
<1>2. ASSUME NEW n \in 0 .. NVars - 1, n \in S PROVE n + 1 \in S
  <2>1. PICK r \in Nat : r < Shl[n] /\ Digits(r, n)
    BY <1>2
  <2> DEFINE b == IF s[n + 1] THEN 1 ELSE 0
             more == 2 * r + b
  <2>2. b \in {0, 1} /\ more \in Nat /\ (more % 2 = 1) = s[n + 1]
    <3>1. n + 1 \in 1 .. NVars /\ s[n + 1] \in BOOLEAN
      BY <1>0, <1>s
    <3>2. CASE s[n + 1] = TRUE
      <4>1. b = 1
        BY <3>2
      <4> HIDE DEF b
      <4>2. more % 2 = 1 /\ more \in Nat
        BY <4>1
      <4> QED BY <3>2, <4>1, <4>2
    <3>3. CASE s[n + 1] = FALSE
      <4>1. b = 0
        BY <3>3
      <4> HIDE DEF b
      <4>2. more % 2 = 0 /\ more \in Nat
        BY <4>1
      <4> HIDE DEF more
      <4>3. more % 2 # 1
        BY <4>2
      <4> QED BY <3>3, <4>1, <4>2, <4>3
    <3> HIDE DEF b, more
    <3> QED BY <3>1, <3>2, <3>3
  <2>3. more < Shl[n + 1]
    <3>1. Shl[n + 1] = 2 * Shl[n] /\ Shl[n] \in Nat
      <4>1. n + 1 \in 1 .. NVars /\ n \in 0 .. NVars /\ n + 1 - 1 = n
        BY <1>0
      <4> QED BY <4>1, Shifts
    <3> DEFINE x == Shl[n]
    <3>2. more < 2 * x
      <4> HIDE DEF x, b
      <4>1. x \in Nat /\ r < x
        BY <2>1, <3>1 DEF x
      <4> QED BY <2>2, <4>1
    <3> HIDE DEF more
    <3> QED BY <3>1, <3>2
  <2>4. \A j \in 0 .. NVars - 1 : Shr(more)[j + 1] = Shr(r)[j]
    <3> HIDE DEF b
    <3> QED BY <2>2, RowDoubled
  <2>5. Shr(more)[0] = more
    <3> HIDE DEF more
    <3> QED BY <2>2, RowShifts
  <2> HIDE DEF more, b
  <2>6. ASSUME NEW k \in 1 .. n + 1 PROVE (Shr(more)[n + 1 - k] % 2 = 1) = s[k]
    <3>1. CASE k = n + 1
      <4>1. n + 1 - k = 0
        BY <3>1
      <4> QED BY <2>2, <2>5, <3>1, <4>1
    <3>2. CASE k # n + 1
      <4>1. k \in 1 .. n /\ n - k \in 0 .. NVars - 1 /\ n + 1 - k = (n - k) + 1
        BY <1>0, <3>2
      <4>2. Shr(more)[n + 1 - k] = Shr(r)[n - k]
        BY <2>4, <4>1
      <4>3. (Shr(r)[n - k] % 2 = 1) = s[k]
        BY <2>1, <4>1
      <4> QED BY <4>2, <4>3
    <3> QED BY <3>1, <3>2
  <2>7. Digits(more, n + 1)
    BY <2>6
  <2>8. n + 1 \in 0 .. NVars
    BY <1>0
  <2> HIDE DEF Digits
  <2> QED BY <2>2, <2>3, <2>7, <2>8
<1>3. \A n \in 0 .. NVars : n \in S
  <2> HIDE DEF S
  <2> QED BY <1>0, <1>1, <1>2, UpTo
<1>4. PICK r \in Nat : r < Shl[NVars] /\ Digits(r, NVars)
  <2>1. NVars \in S
    BY <1>0, <1>3
  <2> HIDE DEF Digits
  <2> QED BY <2>1
<1>5. r \in Rows
  <2>1. Shl[NVars] \in Nat
    BY <1>0, Shifts
  <2> QED BY <1>4, <2>1 DEF Rows
<1>6. RowBindings(r) = s
  <2>1. RowBindings(r) = [k \in 1 .. NVars |-> Shr(r)[NVars - k] % 2 = 1]
    BY DEF RowBindings
  <2>2. \A k \in 1 .. NVars : (Shr(r)[NVars - k] % 2 = 1) = s[k]
    BY <1>4
  <2> DEFINE d(k) == Shr(r)[NVars - k] % 2 = 1
  <2>3. [k \in 1 .. NVars |-> d(k)] = [k \in 1 .. NVars |-> s[k]]
    <3>1. \A k \in 1 .. NVars : d(k) = s[k]
      BY <2>2
    <3> HIDE DEF d
    <3> QED BY <3>1, Zenon
  <2> HIDE DEF d
  <2> QED BY <1>s, <2>1, <2>3, Zenon DEF d
<1> QED BY <1>5, <1>6

(***************************************************************************)
(* Truth tables.                                                           *)
(***************************************************************************)

\* The gates are the Boolean functions of their names, in both languages.
LEMMA GatesAreBoolean ==
  ASSUME NEW a \in BOOLEAN, NEW b \in BOOLEAN
  PROVE  /\ not(a) = ~a /\ and(a, b) = (a /\ b) /\ or(a, b) = (a \/ b) /\ nor(a, b) = ~(a \/ b)
         /\ xor(a, b) = (a # b) /\ xnor(a, b) = (a = b) /\ c_xor(a, b) = (a # b)
         /\ implies(a, b) = (a => b) /\ c_implies(a, b) = (a => b)
<1>1. a = TRUE \/ a = FALSE
  OBVIOUS
<1>2. b = TRUE \/ b = FALSE
  OBVIOUS
<1> QED BY <1>1, <1>2 DEF not, and, or, nor, xor, xnor, c_xor, implies, c_implies, nand

\* The invariant says what the tables say.
LEMMA MeaningImplied == MeaningInv => TableIsMeaning
<1> SUFFICES ASSUME MeaningInv PROVE TableIsMeaning
  OBVIOUS
<1> DEFINE table == truth_table(expr)
<1>1. /\ lower_to_nand(expr) = expr /\ meaning \in [Assignments -> BOOLEAN]
      /\ \A s \in Assignments : meaning[s] = eval(expr, s)
  BY DEF MeaningInv, Whole
<1>2. table = [row \in Rows |-> <<RowBindings(row), eval(expr, RowBindings(row))>>]
  BY DEF truth_table
<1>3. /\ DOMAIN table = Rows
      /\ \A row \in Rows : table[row][1] = RowBindings(row) /\ table[row][2] = eval(expr, RowBindings(row))
  <2> HIDE DEF table
  <2> QED BY <1>2
<1> HIDE DEF table
<1> DEFINE Agree(a, b) ==
      /\ <<not(a), and(a, b), or(a, b), nor(a, b)>> = <<~a, a /\ b, a \/ b, ~(a \/ b)>>
      /\ <<xor(a, b), xnor(a, b), c_xor(a, b)>> = <<a # b, a = b, a # b>>
      /\ <<implies(a, b), c_implies(a, b)>> = <<a => b, a => b>>
<1>4. ASSUME NEW a \in BOOLEAN, NEW b \in BOOLEAN PROVE Agree(a, b)
  <2>1. not(a) = ~a /\ and(a, b) = (a /\ b) /\ or(a, b) = (a \/ b) /\ nor(a, b) = ~(a \/ b)
    BY GatesAreBoolean
  <2>2. xor(a, b) = (a # b) /\ xnor(a, b) = (a = b) /\ c_xor(a, b) = (a # b)
    BY GatesAreBoolean
  <2>3. implies(a, b) = (a => b) /\ c_implies(a, b) = (a => b)
    BY GatesAreBoolean
  <2> QED BY <2>1, <2>2, <2>3, Zenon
<1>5. \A r \in DOMAIN table : table[r][2] = meaning[table[r][1]]
  <2> SUFFICES ASSUME NEW r \in Rows PROVE table[r][2] = meaning[table[r][1]]
    BY <1>3
  <2>1. RowBindings(r) \in Assignments
    BY RowsAreAssignments
  <2> QED BY <1>1, <1>3, <2>1
<1>6. \A s \in Assignments : \E r \in DOMAIN table : table[r][1] = s
  <2> SUFFICES ASSUME NEW s \in Assignments PROVE \E r \in Rows : table[r][1] = s
    BY <1>3
  <2>1. PICK r \in Rows : RowBindings(r) = s
    BY AssignmentsAreRows
  <2> QED BY <1>3, <2>1
<1>7. functionally_equivalent(expr, lower_to_nand(expr))
  BY <1>1 DEF functionally_equivalent
<1>8. \A s \in Assignments, b \in BOOLEAN : Agree(meaning[s], b)
  <2> HIDE DEF Agree
  <2> QED BY <1>1, <1>4
<1> QED BY <1>5, <1>6, <1>7, <1>8, Zenon DEF TableIsMeaning, table

\* However an expression is put together out of the constructors of
\* hyperkitty-nand, of however many variables, the rows of its truth table are
\* all the assignments, each with the value the primitive gates compute for the
\* formula, which are the Boolean functions of their names; and lowering it
\* changes no row.
THEOREM TablesAreMeanings == GatesSpec => []TableIsMeaning
<1>1. GatesInit => MeaningInv
  BY MeaningInit
<1>2. MeaningInv /\ [GatesNext]_gateVars => MeaningInv'
  BY MeaningNext
<1>3. MeaningInv => TableIsMeaning
  BY MeaningImplied
<1> QED BY <1>1, <1>2, <1>3, PTL DEF GatesSpec
=============================================================================
