----------------------------- MODULE NandFilter -----------------------------
(***************************************************************************)
(* Which of the active experts are admitted: NANDFilter::filter of         *)
(* hyperkitty-nand, one conflict of its loop per step, and the mask        *)
(* version of nand_filter.c, where experts are bits, lower bits weigh more *)
(* and experts of different parity conflict.                               *)
(***************************************************************************)
EXTENDS Integers, Sequences

CONSTANTS Experts,    \* expert ids
          Weights,    \* routing weights; not above 0 is inactive
          Registries, \* conflict registries, sets of declared pairs
          MaxActive   \* bound on the activations given to the filter
ASSUME FilterBounds == /\ Experts \subseteq Nat /\ Weights \subseteq Int /\ MaxActive \in Nat
                       /\ Registries \subseteq SUBSET (Experts \X Experts)

VARIABLES activations, \* the input, in its order; ids may repeat
          conflicts,   \* what register_conflict has stored
          pending,     \* conflicting pairs not yet looked at
          suppressed   \* ids taken out so far
nandVars == <<activations, conflicts, pending, suppressed>>

\* Stored pairs have the lower id first; an expert does not conflict with itself.
canonical(a, b) == IF a <= b THEN <<a, b>> ELSE <<b, a>>
register(declared) == {canonical(d[1], d[2]) : d \in {e \in declared : e[1] # e[2]}}
are_conflicting(a, b) == a # b /\ canonical(a, b) \in conflicts

Active(acts) == {acts[i].id : i \in {j \in DOMAIN acts : acts[j].weight > 0}}
find_conflicts(ids, stored) == {p \in stored : p[1] \in ids /\ p[2] \in ids}

Before(p, q)   == p[1] < q[1] \/ (p[1] = q[1] /\ p[2] < q[2])
\* Mutant: the order backwards.
X_IsNext(p)    == p \in pending /\ \A q \in pending : q = p \/ Before(q, p)
IsNext(p)      == p \in pending /\ \A q \in pending : q = p \/ Before(p, q)
\* The weight of an id is that of its first active entry.
IsFirst(i, id) == /\ activations[i].id = id /\ activations[i].weight > 0
                  /\ \A j \in 1 .. i - 1 : activations[j].id = id => activations[j].weight <= 0
WeightOf(id)   == activations[CHOOSE i \in DOMAIN activations : IsFirst(i, id)].weight
\* The lower weight loses, and at equal weights the lower id.
Loser(p) == IF WeightOf(p[2]) < WeightOf(p[1]) THEN p[2] ELSE p[1]

NandInit ==
  /\ activations \in UNION {[1 .. n -> [id : Experts, weight : Weights]] : n \in 0 .. MaxActive}
  /\ conflicts \in {register(r) : r \in Registries}
  /\ pending = find_conflicts(Active(activations), conflicts)
  /\ suppressed = {}

Suppress(p) == suppressed' = IF {p[1], p[2]} \cap suppressed # {} THEN suppressed
                             ELSE suppressed \cup {Loser(p)}
Resolve(p) == /\ IsNext(p) /\ Suppress(p)
              /\ pending' = pending \ {p}
              /\ UNCHANGED <<activations, conflicts>>
NandNext == \E p \in pending : Resolve(p)
NandSpec == NandInit /\ [][NandNext]_nandVars

Admitted == SelectSeq(activations, LAMBDA a : a.weight > 0 /\ a.id \notin suppressed)

\* The C filter: every active bit takes out the active bits above it of the
\* other parity, whether it is itself taken out or not.
\* Mutant: either of the two goes.
X_hk_nand_filter(mask) == {j \in mask : \A i \in mask : i # j => i % 2 = j % 2}
hk_nand_filter(mask) == {j \in mask : \A i \in mask : i < j => i % 2 = j % 2}
\* Again until nothing changes, ten times at most.
Cascade[n \in 0 .. 10] ==
  [mask \in SUBSET Experts |-> IF n = 0 \/ hk_nand_filter(mask) = mask THEN mask
                              ELSE Cascade[n - 1][hk_nand_filter(mask)]]
hk_nand_filter_cascading(mask) == Cascade[10][mask]

(***************************************************************************)
(* Properties                                                              *)
(***************************************************************************)

\* "At most one may be active in any valid route configuration": when all
\* conflicts are resolved, no two admitted experts conflict, though a pair is
\* skipped as soon as one of its experts is out.
ConflictFree ==
  pending = {} =>
    \A a, b \in Active(activations) \ suppressed : ~are_conflicting(a, b)

\* No expert is taken out without cause, at any time of the loop: an active
\* expert it conflicts with outweighs it, or weighs the same and has the
\* higher id.  So the strongest active expert is always admitted.
Beats(a, b) == WeightOf(b) < WeightOf(a) \/ (WeightOf(b) = WeightOf(a) /\ b < a)
SuppressedForCause ==
  \A b \in suppressed :
    \E a \in Active(activations) : are_conflicting(a, b) /\ Beats(a, b)

\* The order of the conflicts, lowest ids first, decides who goes, and nothing
\* else does: of the conflicts looked at so far exactly those have taken out
\* their loser of which no earlier one had taken out a side.
Done == find_conflicts(Active(activations), conflicts) \ pending
Fires(p, fired) == \A q \in fired : Before(q, p) => Loser(q) \notin {p[1], p[2]}
OrderDecides ==
  \E fired \in SUBSET Done :
    /\ \A p \in Done : p \in fired <=> Fires(p, fired)
    /\ suppressed = {Loser(p) : p \in fired}

\* What the loop guarantees of the experts it leaves and of those it takes out,
\* and of the way it chooses them.
FilterIsSound == ConflictFree /\ SuppressedForCause /\ OrderDecides

\* The two filters on the same experts, weights falling with the index and
\* conflicts by parity: the cascade of the C filter is stable after the first
\* round, leaves no conflict, and admits nothing the Rust filter would not.
Falling == \A i, j \in DOMAIN activations :
             activations[i].id < activations[j].id => activations[i].weight > activations[j].weight
ParityPairs == {p \in Experts \X Experts : p[1] < p[2] /\ p[1] % 2 # p[2] % 2}
CFilterIsStricter ==
  LET mask == Active(activations)
      left == hk_nand_filter_cascading(mask)
  IN /\ left = hk_nand_filter(mask)
     /\ \A i, j \in left : i % 2 = j % 2
     /\ mask # {} => \E i \in left : \A j \in mask : i <= j
     /\ Falling /\ conflicts = ParityPairs /\ pending = {} => left \subseteq mask \ suppressed
=============================================================================
