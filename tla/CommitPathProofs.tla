-------------------------- MODULE CommitPathProofs --------------------------
(***************************************************************************)
(* Proofs about the commit path: for any callers, any glyphs, any hand-made *)
(* records and any number of calls.                                        *)
(***************************************************************************)
EXTENDS CommitPath, TLAPS

\* The routing table stays inside the six glyphs.
LEMMA NextIsGlyph ==
  \A c, p \in Glyph : next_glyph(c, p) \in Glyph
<1> SUFFICES ASSUME NEW c \in Glyph, NEW p \in Glyph PROVE next_glyph(c, p) \in Glyph
  OBVIOUS
<1>1. c \in {0, 1, 2, 3, 4, 5} /\ p \in {0, 1, 2, 3, 4, 5}
  BY DEF Glyph
<1>2. Q[c + 1][p + 1] \in 0 .. 5
  BY <1>1 DEF Q
<1> QED
  BY <1>2 DEF Glyph, next_glyph

\* Between Pi, Gamma and Delta the table leads to Delta or to Omega: these
\* are the only inputs whose bytes pass the kernel's glyph gate.
LEMMA LowGlyphs ==
  \A c, p \in {Pi, Gamma, Delta} : next_glyph(c, p) \in {Delta, Omega}
<1> SUFFICES ASSUME NEW c \in {0, 1, 2}, NEW p \in {0, 1, 2}
             PROVE  Q[c + 1][p + 1] \in {2, 3}
  BY DEF next_glyph, Pi, Gamma, Delta, Omega
<1> QED
  BY DEF Q

LEMMA Bytes ==
  ASSUME NEW g \in Glyph
  PROVE  /\ to_byte(g) \in 0 .. 255
         /\ to_byte(g) <= 5 <=> g \in {Pi, Gamma, Delta}
BY DEF to_byte, Glyph, Pi, Gamma, Delta, Omega, Lambda, Psi

\* What reconcile answers.
LEMMA DecideFacts ==
  ASSUME NEW a \in Asks
  PROVE  /\ Decide(a).accepted <=> a.proof_exists /\ a.invariant_ok
         /\ Decide(a).accepted => Decide(a).next = next_glyph(a.current, a.previous)
         /\ ~Decide(a).accepted => Decide(a).next = None
         /\ Decide(a).failed_gate \in {None, "Proof", "Invariant"}
         /\ Decide(a).gates_ok = Decide(a).accepted
         /\ Decide(a).accepted \in BOOLEAN
         /\ Decide(a).entropy = 0
         /\ Decide(a).current = a.current /\ Decide(a).previous = a.previous
<1>1. a.proof_exists \in BOOLEAN /\ a.invariant_ok \in BOOLEAN
  BY DEF Asks
<1>2. None \notin {"Proof", "Invariant"}
  BY CommitAssumption DEF ValidityGate
<1> QED
  BY <1>1, <1>2 DEF Decide, check, MAX_ENTROPY

\* A decision of the protocol crosses the ABI as a well-formed record, and the
\* kernel makes of it what BridgedVerdict says.
LEMMA RecordFacts ==
  ASSUME NEW a \in Asks
  PROVE  LET r == from_reconciliation(Decide(a)) IN
         /\ r \in RouteDecision
         /\ r.accepted = 1 => FlagsOk(r)
         /\ \/ Status(r) = 0 /\ r.next_state = to_byte(Delta)
            \/ Status(r) = -2
<1> DEFINE d == Decide(a)
           r == from_reconciliation(d)
           n == IF d.next = None THEN Lambda ELSE d.next
<1> HIDE DEF d
<1>1. /\ a.current \in Glyph /\ a.previous \in Glyph
      /\ Delta \in Glyph /\ Lambda \in Glyph
  <2>1. a.current \in Inputs /\ a.previous \in Inputs
    BY DEF Asks
  <2>2. Delta \in Glyph /\ Lambda \in Glyph
    BY DEF Glyph, Delta, Lambda
  <2> QED
    BY <2>1, <2>2, CommitAssumption
<1>2. None \notin Glyph
  BY CommitAssumption DEF Glyph
<1>3. /\ d.accepted \in BOOLEAN /\ d.gates_ok = d.accepted /\ d.entropy = 0
      /\ d.current = a.current /\ d.previous = a.previous
      /\ d.failed_gate \in {None, "Proof", "Invariant"}
  BY DecideFacts DEF d
<1>4. IF d.accepted THEN n = next_glyph(a.current, a.previous) ELSE n = Lambda
  BY <1>1, <1>2, DecideFacts, NextIsGlyph DEF d
<1>5. n \in Glyph
  BY <1>1, <1>4, NextIsGlyph
<1>6. GateCode(d.failed_gate) \in Nat
  BY <1>3 DEF GateCode
<1>7. /\ Bit(TRUE) = 1 /\ Bit(FALSE) = 0
      /\ Bit(d.accepted) \in {0, 1}
      /\ Bit(d.entropy <= MAX_ENTROPY) = 1
  BY <1>3 DEF Bit, MAX_ENTROPY
<1>8. /\ r.abi_version = 1 /\ r.entropy = 0 /\ r.entropy_ok = 1
      /\ r.current_state = to_byte(a.current) /\ r.previous_state = to_byte(a.previous)
      /\ r.next_state = to_byte(n) /\ r.failed_gate = GateCode(d.failed_gate)
      /\ r.accepted = Bit(d.accepted) /\ r.reconciliation_ok = r.accepted
      /\ r.route_valid = r.accepted /\ r.proof_ok = r.accepted
  BY <1>3, <1>7 DEF from_reconciliation
<1>9. r \in RouteDecision
  BY <1>1, <1>3, <1>5, <1>6, <1>7, Bytes DEF from_reconciliation, RouteDecision
<1>10. r.accepted = 1 => FlagsOk(r)
  BY <1>8 DEF FlagsOk
<1> DEFINE Verdict == \/ Status(r) = 0 /\ r.next_state = to_byte(Delta)
                      \/ Status(r) = -2
<1>11. ASSUME \E b \in Glyphs(r) : b > 5 PROVE Verdict
  <2> HIDE DEF r
  <2> QED
    BY <1>8, <1>11 DEF Status
<1>12. ASSUME ~\E b \in Glyphs(r) : b > 5 PROVE Verdict
  <2>1. /\ to_byte(a.current) <= 5 /\ to_byte(a.previous) <= 5 /\ to_byte(n) <= 5
    BY <1>1, <1>5, <1>8, <1>12, Bytes DEF Glyphs
  <2>2. /\ a.current \in {Pi, Gamma, Delta} /\ a.previous \in {Pi, Gamma, Delta}
        /\ n \in {Pi, Gamma, Delta}
    BY <2>1, <1>1, <1>5, Bytes
  <2>3. d.accepted
    BY <2>2, <1>4 DEF Pi, Gamma, Delta, Lambda
  <2>4. n = Delta
    BY <2>2, <2>3, <1>4, LowGlyphs DEF Pi, Gamma, Delta, Omega
  <2>5. NonNeg(r.entropy) /\ InBound(r.entropy)
    BY <1>8, CommitAssumption DEF NonNeg, InBound, Finite, MAX_ENTROPY
  <2>6. r.accepted = 1
    BY <2>3, <1>7, <1>8
  <2>7. Status(r) = 0
    <3> HIDE DEF r
    <3> QED
      BY <2>5, <2>6, <1>8, <1>10, <1>12 DEF Status
  <2> QED
    BY <2>4, <2>7, <1>8
<1> QED
  BY <1>9, <1>10, <1>11, <1>12 DEF d

----------------------------------------------------------------------------
\* The inductive invariant: what a caller holds answers what it asked, and a
\* record is hand-made or made of such an answer.
Held ==
  /\ asked \in [Callers -> Asks \cup {None}]
  /\ decision = [u \in Callers |-> IF asked[u] = None THEN None ELSE Decide(asked[u])]

Made ==
  /\ bridged \in BOOLEAN
  /\ wire # None =>
       IF bridged THEN \E a \in Asks : wire = from_reconciliation(Decide(a))
       ELSE wire \in HandMade

Committed ==
  /\ committed \in Glyph
  /\ committed_at \in Nat /\ acceptance_count \in Nat /\ rejection_count \in Nat
  /\ kernel \in [committed_state : 0 .. 255, committed_at : Nat, acceptance_count : Nat,
                 rejection_count : Nat, status : -5 .. 0]

PathInv == Held /\ Made /\ Committed

LEMMA WireIsRecord ==
  ASSUME Made
  PROVE  wire # None => wire \in RouteDecision
BY RecordFacts, CommitAssumption DEF Made

LEMMA StatusRange ==
  ASSUME NEW r
  PROVE  Status(r) \in -5 .. 0
BY DEF Status

LEMMA InitInv == Init => PathInv
<1> SUFFICES ASSUME Init PROVE PathInv
  OBVIOUS
<1> USE DEF Init
<1>1. Held
  BY DEF Held
<1>2. Made
  BY DEF Made
<1>3. Committed
  BY CommitAssumption DEF Committed
<1> QED
  BY <1>1, <1>2, <1>3 DEF PathInv

LEMMA ReconcileInv ==
  ASSUME PathInv, NEW u \in Callers, NEW a \in Asks, Reconcile(u, a)
  PROVE  PathInv'
<1>1. a # None
  BY CommitAssumption
<1>2. Held'
  BY <1>1 DEF PathInv, Held, Reconcile
<1>3. Made' /\ Committed'
  BY DEF PathInv, Made, Committed, Reconcile, rustVars
<1> QED
  BY <1>2, <1>3 DEF PathInv

\* What a caller holds answers what it asked.
LEMMA HeldDecision ==
  ASSUME Held, NEW u \in Callers, decision[u] # None
  PROVE  asked[u] \in Asks /\ decision[u] = Decide(asked[u])
BY DEF Held

LEMMA CommitInv ==
  ASSUME PathInv, NEW u \in Callers, Commit(u)
  PROVE  PathInv'
<1>1. Held' /\ Made'
  BY DEF PathInv, Held, Made, Commit
<1>2. asked[u] \in Asks /\ decision[u] = Decide(asked[u])
  BY HeldDecision DEF PathInv, Commit
<1>3. decision[u].accepted => decision[u].next \in Glyph
  BY <1>2, DecideFacts, NextIsGlyph, CommitAssumption DEF Asks
<1>4. Committed'
  BY <1>3 DEF PathInv, Committed, Commit
<1> QED
  BY <1>1, <1>4 DEF PathInv

LEMMA BridgeInv ==
  ASSUME PathInv, NEW u \in Callers, Bridge(u)
  PROVE  PathInv'
<1>1. Held' /\ Committed'
  BY DEF PathInv, Held, Committed, Bridge, rustVars
<1>2. asked[u] \in Asks /\ decision[u] = Decide(asked[u])
  BY HeldDecision DEF PathInv, Bridge
<1>3. Made'
  BY <1>2 DEF Made, Bridge
<1> QED
  BY <1>1, <1>3 DEF PathInv

LEMMA BuildInv ==
  ASSUME PathInv, NEW r \in HandMade, Build(r)
  PROVE  PathInv'
<1>1. Held' /\ Committed'
  BY DEF PathInv, Held, Committed, Build, rustVars
<1>2. Made'
  BY DEF Made, Build
<1> QED
  BY <1>1, <1>2 DEF PathInv

LEMMA KernelInv ==
  ASSUME PathInv, KernelDecide
  PROVE  PathInv'
<1>1. Held' /\ Made'
  BY DEF PathInv, Held, Made, KernelDecide, rustVars
<1>2. wire.next_state \in 0 .. 255
  BY WireIsRecord DEF PathInv, KernelDecide, RouteDecision
<1>3. Status(wire) \in -5 .. 0
  BY StatusRange
<1>4. kernel' \in [committed_state : 0 .. 255, committed_at : Nat, acceptance_count : Nat,
                   rejection_count : Nat, status : -5 .. 0]
  <2> DEFINE K == [committed_state : 0 .. 255, committed_at : Nat, acceptance_count : Nat,
                   rejection_count : Nat, status : -5 .. 0]
  <2>1. kernel \in K
    BY DEF PathInv, Committed
  <2>2. /\ kernel.committed_state \in 0 .. 255 /\ kernel.committed_at + 1 \in Nat
        /\ kernel.acceptance_count + 1 \in Nat /\ kernel.rejection_count + 1 \in Nat
    BY <2>1
  <2>3. CASE Status(wire) # 0
    <3>1. kernel' = [kernel EXCEPT !.rejection_count = kernel.rejection_count + 1,
                                   !.status = Status(wire)]
      BY <2>3 DEF KernelDecide
    <3> QED
      BY <3>1, <2>1, <2>2, <1>3
  <2>4. CASE Status(wire) = 0
    <3>1. kernel' = [kernel EXCEPT !.committed_state = wire.next_state,
                                   !.committed_at = kernel.committed_at + 1,
                                   !.acceptance_count = kernel.acceptance_count + 1,
                                   !.status = 0]
      BY <2>4 DEF KernelDecide
    <3>2. 0 \in -5 .. 0
      OBVIOUS
    <3> QED
      BY <3>1, <3>2, <2>1, <2>2, <1>2
  <2> QED
    BY <2>3, <2>4
<1>5. Committed'
  BY <1>4 DEF PathInv, Committed, KernelDecide, rustVars
<1> QED
  BY <1>1, <1>5 DEF PathInv

LEMMA StepInv == PathInv /\ [Next]_vars => PathInv'
<1> SUFFICES ASSUME PathInv, [Next]_vars PROVE PathInv'
  OBVIOUS
<1>1. ASSUME UNCHANGED vars PROVE PathInv'
  BY <1>1 DEF PathInv, Held, Made, Committed, vars, rustVars
<1> QED
  BY <1>1, ReconcileInv, CommitInv, BridgeInv, BuildInv, KernelInv DEF Next

\* What the callers, the protocol and the kernel hold fits together at all times.
THEOREM CommitPathInvariant == Spec => []PathInv
BY InitInv, StepInv, PTL DEF Spec

----------------------------------------------------------------------------
\* Type correctness of the commit path, for any number of calls: only a glyph
\* is ever committed by the protocol, only a byte by the kernel.
THEOREM CommitPathTypes == Spec => []TypeOK
<1>1. PathInv => TypeOK
  <2> SUFFICES ASSUME PathInv PROVE TypeOK
    OBVIOUS
  <2>1. wire \in Records \cup {None}
    <3>1. ASSUME wire # None, bridged PROVE wire \in Records
      <4>1. PICK a \in Asks : wire = from_reconciliation(Decide(a))
        BY <3>1 DEF PathInv, Made
      <4> QED
        BY <4>1 DEF Records, Decisions
    <3> QED
      BY <3>1 DEF PathInv, Made, Records
  <2> QED
    BY <2>1 DEF PathInv, Held, Made, Committed, TypeOK
<1> QED
  BY <1>1, CommitPathInvariant, PTL

\* On every record of the ABI, whatever number each of its flags holds: the
\* kernel's five gates commit it exactly when RouteDecision::validate_all passes
\* it and accepted is not 0, and neither end looks at the flags of a record
\* whose accepted is neither 0 nor 1.
LEMMA OneVerdict ==
  \A r \in RouteDecision :
    /\ Status(r) = 0 <=> validate_all(r) /\ r.accepted # 0
    /\ Status(r) = 0 /\ ~FlagsOk(r) => r.accepted > 1
<1> SUFFICES ASSUME NEW r \in RouteDecision
             PROVE  /\ Status(r) = 0 <=> validate_all(r) /\ r.accepted # 0
                    /\ Status(r) = 0 /\ ~FlagsOk(r) => r.accepted > 1
  OBVIOUS
<1>1. r.accepted \in Nat
  BY DEF RouteDecision
<1>2. (\E b \in Glyphs(r) : b > 5) <=> ~(\A b \in Glyphs(r) : b <= 5)
  BY DEF Glyphs, RouteDecision
<1>3. InBound(r.entropy) => Finite(r.entropy)
  BY DEF InBound
<1> QED
  BY <1>1, <1>2, <1>3 DEF Status, validate_all

\* Rust's check of a record before it is sent and C's check of it on arrival
\* never disagree, whoever filled the record in and with whatever numbers; and a
\* record without its flags is committed only where a caller wrote accepted as
\* a number above 1, never when it came from a decision of the protocol.
THEOREM VerdictsAgree == Spec => []EndsAgree
<1>1. PathInv => EndsAgree
  <2> SUFFICES ASSUME PathInv, wire # None
               PROVE  /\ Status(wire) = 0 <=> validate_all(wire) /\ wire.accepted # 0
                      /\ Status(wire) = 0 /\ ~FlagsOk(wire) => wire.accepted > 1 /\ ~bridged
    BY DEF EndsAgree
  <2>1. wire \in RouteDecision
    BY WireIsRecord DEF PathInv
  <2>2. ASSUME bridged PROVE wire.accepted \in {0, 1}
    <3>1. PICK a \in Asks : wire = from_reconciliation(Decide(a))
      BY <2>2 DEF PathInv, Made
    <3> QED
      BY <3>1 DEF from_reconciliation, Bit
  <2> QED
    BY <2>1, <2>2, OneVerdict
<1> QED
  BY <1>1, CommitPathInvariant, PTL

\* A decision of the protocol that reaches the kernel commits Delta or is
\* refused at the glyph gate, for any inputs of reconcile.
THEOREM KernelCommitsOnlyDelta == Spec => []BridgedVerdict
<1>1. PathInv => BridgedVerdict
  BY RecordFacts DEF PathInv, Made, BridgedVerdict
<1> QED
  BY <1>1, CommitPathInvariant, PTL

\* The protocol commits only what the routing table gives for inputs that came
\* with a proof and a preserved invariant, however late the caller commits.
THEOREM CommitsAreProved == Spec => OnlyProvedCommits
<1> DEFINE A == acceptance_count' # acceptance_count =>
                  \E u \in Callers :
                    /\ asked[u] # None /\ asked[u].proof_exists /\ asked[u].invariant_ok
                    /\ committed' = next_glyph(asked[u].current, asked[u].previous)
<1>1. PathInv /\ [Next]_vars => [A]_vars
  <2> SUFFICES ASSUME PathInv, Next, acceptance_count' # acceptance_count PROVE A
    OBVIOUS
  <2>1. PICK u \in Callers : Commit(u) /\ decision[u].accepted
    BY DEF Next, Reconcile, Bridge, Build, KernelDecide, Commit, rustVars
  <2>2. asked[u] \in Asks /\ decision[u] = Decide(asked[u])
    BY <2>1, HeldDecision DEF PathInv, Commit
  <2>3. committed' = decision[u].next
    BY <2>1 DEF Commit
  <2>4. asked[u] # None
    BY <2>2, CommitAssumption
  <2> QED
    BY <2>1, <2>2, <2>3, <2>4, DecideFacts
<1> QED
  BY <1>1, CommitPathInvariant, PTL DEF Spec, OnlyProvedCommits
=============================================================================
