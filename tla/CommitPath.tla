----------------------------- MODULE CommitPath -----------------------------
(***************************************************************************)
(* The way of a state transition to the two places that commit it: the     *)
(* ReconciliationProtocol of hyperkitty-runtime, and, over the fixed-width *)
(* record of cminus_bridge.rs, the kernel of hyperkitty_kernel.c.          *)
(*                                                                         *)
(* The repository has both ends and no program that joins them.  The       *)
(* callers here do what the two interfaces let them do: keep a decision as *)
(* long as they like, commit it late, twice or never, and hand its record  *)
(* to the kernel at any time.                                              *)
(***************************************************************************)
EXTENDS QRA

CONSTANTS
  Callers,     \* the owners of the protocol, each with a decision in hand
  Inputs,      \* the glyphs callers reconcile with
  HandMade,    \* records a caller fills in itself: every field is public
  MaxCalls,    \* bound of the model: commits and deliveries in a behaviour
  None,        \* no decision, no record, no failed gate, no next glyph
  NaN, Inf     \* the entropies that are not finite

ValidityGate == {"Balance", "Invariant", "Entropy", "Proof", "Reconciliation", "Route"}

\* What reconcile is asked about.
Asks == [current : Inputs, previous : Inputs, proof_exists : BOOLEAN, invariant_ok : BOOLEAN]

\* The record of the ABI.  Every field is public, and each flag is a whole u32
\* at both ends: from_reconciliation fills it from a bool, a caller may put any
\* number there.  An entropy is a number of hundredths of a nat or one of the
\* two that are not finite.
RouteDecision ==
  LET Byte == 0 .. 255
      Flag == Nat   \* a u32, which nothing computes with
  IN  [abi_version : Nat, current_state : Byte, previous_state : Byte, next_state : Byte,
       accepted : Flag, failed_gate : Nat, entropy : Int \cup {NaN, Inf}, entropy_ok : Flag,
       reconciliation_ok : Flag, route_valid : Flag, invariant_preserved : Flag, proof_ok : Flag]

ASSUME CommitAssumption ==
  /\ Inputs \subseteq Glyph
  /\ HandMade \subseteq RouteDecision
  /\ MaxCalls \in Nat
  /\ None \notin Nat \cup ValidityGate \cup Asks \cup HandMade
  /\ NaN \notin Int /\ Inf \notin Int /\ NaN # Inf

MAX_ENTROPY == 20

VARIABLES
  committed, committed_at, acceptance_count, rejection_count, \* ReconciliationState
  decision,   \* the ReconciliationDecision each caller holds
  asked,      \* history: the arguments of reconcile that decision answers
  wire,       \* the RouteDecision last made
  bridged,    \* history: wire was made by from_reconciliation
  kernel      \* the static kernel_state_t, and the status it last returned

rustVars == <<committed, committed_at, acceptance_count, rejection_count>>
vars     == <<rustVars, decision, asked, wire, bridged, kernel>>

----------------------------------------------------------------------------
\* ValidityPredicate::check: the first gate that fails, or None.
check_IgnoresProof(entropy, proof_exists, invariant_ok) ==   \* Mutant
  IF entropy > MAX_ENTROPY THEN "Entropy"
  ELSE IF ~invariant_ok THEN "Invariant"
  ELSE None

check(entropy, proof_exists, invariant_ok) ==
  IF entropy < 0 \/ entropy > MAX_ENTROPY THEN "Entropy"
  ELSE IF ~proof_exists THEN "Proof"
  ELSE IF ~invariant_ok THEN "Invariant"
  ELSE None

\* ReconciliationDecision::accept and ::reject, with the flags of the
\* ValidityDecision inside: accept sets all of them, reject none.
Decide(a) ==
  LET entropy == 0
      gate    == check(entropy, a.proof_exists, a.invariant_ok)
      next    == next_glyph(a.current, a.previous)
  IN  [accepted |-> gate = None, current |-> a.current, previous |-> a.previous,
       next |-> IF gate = None THEN next ELSE None,
       entropy |-> entropy, gates_ok |-> gate = None, failed_gate |-> gate]

GateCode(g) ==
  CASE g = None -> 0 [] g = "Balance" -> 1 [] g = "Invariant" -> 2 [] g = "Entropy" -> 3
    [] g = "Proof" -> 4 [] g = "Reconciliation" -> 5 [] g = "Route" -> 6

Bit(b) == IF b THEN 1 ELSE 0

\* RouteDecision::from_reconciliation.
from_reconciliation(d) ==
  [abi_version |-> 1,
   current_state |-> to_byte(d.current),
   previous_state |-> to_byte(d.previous),
   next_state |-> to_byte(IF d.next = None THEN Lambda ELSE d.next),
   accepted |-> Bit(d.accepted),
   failed_gate |-> GateCode(d.failed_gate),
   entropy |-> d.entropy,
   entropy_ok |-> Bit(d.entropy <= MAX_ENTROPY),
   reconciliation_ok |-> Bit(d.gates_ok),
   route_valid |-> Bit(d.accepted),
   invariant_preserved |-> Bit(d.gates_ok),
   proof_ok |-> Bit(d.gates_ok)]

\* IEEE comparisons: false for NaN.
Finite(e)   == e \notin {NaN, Inf}
NonNeg(e)   == IF Finite(e) THEN e >= 0 ELSE e = Inf
InBound(e)  == Finite(e) /\ e <= MAX_ENTROPY

FlagsOk(r) == 0 \notin {r.entropy_ok, r.reconciliation_ok, r.route_valid, r.proof_ok}

Glyphs(r) == {r.current_state, r.previous_state, r.next_state}

\* RouteDecision::validate_all.
validate_all(r) ==
  /\ r.abi_version = 1
  /\ \A b \in Glyphs(r) : b <= 5
  /\ Finite(r.entropy) /\ NonNeg(r.entropy) /\ InBound(r.entropy)
  /\ r.accepted = 1 => FlagsOk(r)

----------------------------------------------------------------------------
\* Mutant: the consistency gate is not asked.
Status_NoConsistency(r) ==
  IF r.abi_version # 1 THEN -1
  ELSE IF \E b \in Glyphs(r) : b > 5 THEN -2
  ELSE IF ~(NonNeg(r.entropy) /\ InBound(r.entropy)) THEN -3
  ELSE IF r.accepted = 0 THEN -4
  ELSE 0

\* Mutant: the glyph gate is not asked.
Status_NoGlyphs(r) ==
  IF r.abi_version # 1 THEN -1
  ELSE IF ~(NonNeg(r.entropy) /\ InBound(r.entropy)) THEN -3
  ELSE IF r.accepted = 0 THEN -4
  ELSE IF r.accepted = 1 /\ ~FlagsOk(r) THEN -5
  ELSE 0

\* The five gates of hk_kernel_decide: 0, or the status of the first that fails.
Status(r) ==
  IF r.abi_version # 1 THEN -1
  ELSE IF \E b \in Glyphs(r) : b > 5 THEN -2
  ELSE IF ~(NonNeg(r.entropy) /\ InBound(r.entropy)) THEN -3
  ELSE IF r.accepted = 0 THEN -4
  ELSE IF r.accepted = 1 /\ ~FlagsOk(r) THEN -5
  ELSE 0

----------------------------------------------------------------------------
Init ==
  /\ committed \in Inputs   \* the initial_state of ReconciliationProtocol::new
  /\ committed_at = 0 /\ acceptance_count = 0 /\ rejection_count = 0
  /\ decision = [u \in Callers |-> None]
  /\ asked = [u \in Callers |-> None]
  /\ wire = None
  /\ bridged = FALSE
  /\ kernel = [committed_state |-> 255, committed_at |-> 0, acceptance_count |-> 0,
               rejection_count |-> 0, status |-> 0]

\* Commits and deliveries so far: what MaxCalls bounds.
Calls == acceptance_count + rejection_count
           + kernel.acceptance_count + kernel.rejection_count

\* ReconciliationProtocol::reconcile decides and commits nothing.
Reconcile(u, a) ==
  /\ decision' = [decision EXCEPT ![u] = Decide(a)]
  /\ asked' = [asked EXCEPT ![u] = a]
  /\ UNCHANGED <<rustVars, wire, bridged, kernel>>

\* Mutant: advances before it looks at the flag.
Commit_NoTest(u) ==
  /\ decision[u] # None
  /\ Calls < MaxCalls
  /\ committed' = decision[u].next
  /\ committed_at' = committed_at + 1
  /\ acceptance_count' = acceptance_count + 1
  /\ UNCHANGED <<rejection_count, decision, asked, wire, bridged, kernel>>

\* ReconciliationProtocol::commit of a decision, which it does not consume.
Commit(u) ==
  /\ decision[u] # None
  /\ Calls < MaxCalls
  /\ \/ /\ ~decision[u].accepted
        /\ rejection_count' = rejection_count + 1
        /\ UNCHANGED <<committed, committed_at, acceptance_count>>
     \/ /\ decision[u].accepted
        /\ committed' = decision[u].next
        /\ committed_at' = committed_at + 1
        /\ acceptance_count' = acceptance_count + 1
        /\ UNCHANGED rejection_count
  /\ UNCHANGED <<decision, asked, wire, bridged, kernel>>

Bridge(u) ==
  /\ decision[u] # None
  /\ wire' = from_reconciliation(decision[u])
  /\ bridged' = TRUE
  /\ UNCHANGED <<rustVars, decision, asked, kernel>>

Build(r) ==
  /\ wire' = r
  /\ bridged' = FALSE
  /\ UNCHANGED <<rustVars, decision, asked, kernel>>

\* hk_kernel_decide on the record; the caller keeps it and may send it again.
KernelDecide ==
  /\ wire # None
  /\ Calls < MaxCalls
  /\ \/ /\ Status(wire) # 0
        /\ kernel' = [kernel EXCEPT !.rejection_count = @ + 1, !.status = Status(wire)]
     \/ /\ Status(wire) = 0
        /\ kernel' = [kernel EXCEPT !.committed_state = wire.next_state,
                                    !.committed_at = @ + 1,
                                    !.acceptance_count = @ + 1,
                                    !.status = 0]
  /\ UNCHANGED <<rustVars, decision, asked, wire, bridged>>

Next ==
  \/ \E u \in Callers, a \in Asks : Reconcile(u, a)
  \/ \E u \in Callers : Commit(u) \/ Bridge(u)
  \/ \E r \in HandMade : Build(r)
  \/ KernelDecide

Spec == Init /\ [][Next]_vars

----------------------------------------------------------------------------
Decisions == {Decide(a) : a \in Asks}
Records   == {from_reconciliation(d) : d \in Decisions} \cup HandMade

TypeOK ==
  /\ committed \in Glyph
  /\ committed_at \in Nat /\ acceptance_count \in Nat /\ rejection_count \in Nat
  /\ asked \in [Callers -> Asks \cup {None}]
  /\ decision = [u \in Callers |-> IF asked[u] = None THEN None ELSE Decide(asked[u])]
  /\ wire \in Records \cup {None}
  /\ bridged \in BOOLEAN
  /\ kernel.committed_state \in 0 .. 255
  /\ kernel.status \in -5 .. 0

\* Whatever a caller held, for however long, the protocol commits only the
\* glyph that the routing table gives for inputs that came with a proof and a
\* preserved invariant (ReconciliationProtocol::commit trusts the flag alone).
OnlyProvedCommits ==
  [][acceptance_count' # acceptance_count =>
       \E u \in Callers :
         /\ asked[u] # None /\ asked[u].proof_exists /\ asked[u].invariant_ok
         /\ committed' = next_glyph(asked[u].current, asked[u].previous)]_vars

\* The two ends of the ABI give one verdict: the kernel commits a record
\* exactly when RouteDecision::validate_all passes it and its accepted is not 0
\* (validate_all asks nothing of that).  What they share is a gap: the flags
\* count at both ends only when accepted is the number 1, so a record without
\* them is committed exactly when a caller wrote another number there.
EndsAgree ==
  wire # None =>
    /\ Status(wire) = 0 <=> validate_all(wire) /\ wire.accepted # 0
    /\ Status(wire) = 0 /\ ~FlagsOk(wire) => wire.accepted > 1 /\ ~bridged

\* What the kernel can make of a decision of the protocol: it commits Delta, or
\* it refuses at the glyph gate.  No other gate ever answers, because a byte
\* above 5 stands for each of Omega, Lambda and Psi and for "no next state".
BridgedVerdict ==
  wire # None /\ bridged =>
    \/ Status(wire) = 0 /\ wire.next_state = to_byte(Delta)
    \/ Status(wire) = -2

\* cminus_bridge.rs:10, "State representation (0-5 = valid glyphs)": the record
\* of an accepted decision holds glyphs in that range.
GlyphsFitTheABI ==
  wire # None /\ bridged /\ wire.accepted = 1 => \A b \in Glyphs(wire) : b <= 5

\* hyperkitty_kernel.c:111, "If accepted, all gates must be OK": a record whose
\* flags are not all set is never committed, whoever filled it in.
CommittedAreOk ==
  [][kernel'.acceptance_count # kernel.acceptance_count => FlagsOk(wire)]_vars
============================================================================
