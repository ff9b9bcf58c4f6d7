--------------------------- MODULE LedgerAlgebra ---------------------------
(***************************************************************************)
(* Symbolic ledgers (hyperkitty-sla), the six-point sphere (hyperkitty-    *)
(* qlg) and the isomorphism between both and the glyphs (hyperkitty-       *)
(* isomorphism).  Integers have a width: a release build wraps round, a    *)
(* debug build panics in the middle of the statement that overflows, and   *)
(* what was assigned before it stays assigned.                             *)
(***************************************************************************)
EXTENDS Integers, Sequences, SequencesExt, QRA

CONSTANTS Modulus,   \* 2^64 in the code
          Omegas,    \* values of the conserved component
          Amounts,   \* debits that callers enter
          MaxPushes  \* bound on the points pushed
ASSUME LedgerBounds == Modulus \in Nat /\ Modulus >= 16 /\ Modulus % 2 = 0
                       /\ Omegas \subseteq Int /\ Amounts \subseteq Int

VARIABLES ledger,   \* the ledger that evolves
          sum,      \* the LedgerSum
          accepted, \* the points it has taken, which the code forgets
          panicked  \* an overflow has ended the program
ledgerVars == <<ledger, sum, accepted, panicked>>

Wrap(x)   == ((x + Modulus \div 2) % Modulus) - Modulus \div 2   \* i64
WrapU(x)  == x % Modulus                                         \* u64
Fits(x)   == Wrap(x) = x

NewLedger(s, delta, omega) ==
  [s |-> WrapU(s), delta |-> delta, iota |-> Wrap(-delta), omega |-> omega]
reconciliation(l) == Wrap(l.delta + l.iota)
is_balanced(l)    == reconciliation(l) = 0
encode(l)         == <<l.s, l.delta, l.omega>>
decode(bytes)     == NewLedger(bytes[1], bytes[2], bytes[3])
\* A certificate takes it for granted that omega was preserved.
SLACertificate(l) == [is_balanced |-> is_balanced(l), balance_value |-> reconciliation(l),
                      omega_preserved |-> TRUE, omega |-> l.omega, ledger |-> l]
sla_validate(c)   == c.is_balanced /\ c.omega_preserved
NewSum == [s_acc |-> 0, delta_acc |-> 0, iota_acc |-> 0, omega |-> 0, count |-> 0]

LedgerInit == /\ ledger \in {NewLedger(0, 0, o) : o \in Omegas}
              /\ sum = NewSum /\ accepted = <<>> /\ panicked = FALSE

\* Anyone may write a ledger down, for the fields are public; compose, which
\* does not look at the balance, is given ledgers that were constructed.
Symbols   == {0, Modulus \div 2}
AnyLedger == [s : Symbols, delta : Amounts, iota : Amounts, omega : Omegas]
Built     == {NewLedger(s, d, o) : s \in Symbols, d \in Amounts, o \in Omegas}
Overflow  == panicked' = TRUE /\ UNCHANGED <<ledger, accepted>>
BalancePanics(l) == ~Fits(l.delta + l.iota) /\ Overflow /\ UNCHANGED sum

\* None changes nothing.
compose(o) ==
  /\ ledger.omega = o.omega /\ UNCHANGED sum
  /\ \/ /\ ledger' = [s |-> WrapU(ledger.s + o.s), delta |-> Wrap(ledger.delta + o.delta),
                       iota |-> Wrap(ledger.iota + o.iota), omega |-> ledger.omega]
        /\ UNCHANGED <<accepted, panicked>>
     \/ ~(Fits(ledger.delta + o.delta) /\ Fits(ledger.iota + o.iota)) /\ Overflow
Increments(inc) == is_balanced(inc) /\ inc.omega = 0
evolve(inc) ==
  /\ Increments(inc)
  /\ \/ /\ ledger' = NewLedger(ledger.s + inc.s, Wrap(ledger.delta + inc.delta), ledger.omega)
        /\ UNCHANGED <<sum, accepted, panicked>>
     \/ /\ ~(Fits(ledger.delta + inc.delta) /\ Fits(-(ledger.delta + inc.delta)))
        /\ Overflow /\ UNCHANGED sum
Store == ledger' = decode(encode(ledger)) /\ UNCHANGED <<sum, accepted, panicked>>

\* Mutant: every point may have an omega of its own.
X_Admits(p) == is_balanced(p)
\* The first point sets omega; every later one has to match it.
Admits(p) == is_balanced(p) /\ (sum.count > 0 => p.omega = sum.omega)
sum_is_balanced == Wrap(sum.delta_acc + sum.iota_acc) = 0
push(p) ==
  LET begun == [sum EXCEPT !.omega = p.omega, !.s_acc = WrapU(@ + p.s)]
      total == sum.delta_acc + p.delta
  IN
  /\ Len(accepted) < MaxPushes /\ Admits(p)
  /\ \/ /\ sum' = [begun EXCEPT !.delta_acc = Wrap(total), !.iota_acc = Wrap(-Wrap(total)),
                                !.count = @ + 1]
        /\ accepted' = Append(accepted, p) /\ UNCHANGED <<ledger, panicked>>
     \/ ~Fits(total) /\ sum' = begun /\ Overflow
     \/ /\ Fits(total) /\ ~Fits(-total)
        /\ sum' = [begun EXCEPT !.delta_acc = total] /\ Overflow

LedgerNext ==
  /\ ~panicked
  /\ \/ \E l \in Built : compose(l)
     \/ \E l \in AnyLedger : evolve(l) \/ push(l) \/ BalancePanics(l)
     \/ Store

LedgerSpec == LedgerInit /\ [][LedgerNext]_ledgerVars

(***************************************************************************)
(* The sphere and the isomorphism.  Glyphs are their indices.              *)
(***************************************************************************)
K_QLG == 1
norm_sq(v) == v[1] * v[1] + v[2] * v[2] + v[3] * v[3]
vec3_from_glyph(g) ==
  CASE g = Pi -> <<1, 0, 0>> [] g = Gamma -> <<-1, 0, 0>> [] g = Delta -> <<0, 1, 0>>
    [] g = Psi -> <<0, -1, 0>> [] g = Lambda -> <<0, 0, 1>> [] g = Omega -> <<0, 0, -1>>
\* An Option is a set of at most one element.
glyph_from_vec3(v) == {g \in Glyph : vec3_from_glyph(g) = v}
qlg_to_sla(v) ==
  IF norm_sq(v) # K_QLG THEN {} ELSE {NewLedger(g, g + 1, K_QLG) : g \in glyph_from_vec3(v)}
\* Mutant: the debit is taken for the index.
X_sla_to_qra(l) ==
  {g \in Glyph : is_balanced(l) /\ l.omega = K_QLG /\ WrapU(l.delta) = g}
\* A delta below 1 becomes a huge index.
sla_to_qra(l) ==
  {g \in Glyph : is_balanced(l) /\ l.omega = K_QLG /\ WrapU(l.delta - 1) = g}
qra_to_sla(g) == NewLedger(g, vec3_from_glyph(g)[1], K_QLG)
round_trip_qlg(v) == {vec3_from_glyph(g) : g \in UNION {sla_to_qra(l) : l \in qlg_to_sla(v)}}
canonical_points == {vec3_from_glyph(g) : g \in Glyph}
validate_central_isomorphism == \A v \in canonical_points : round_trip_qlg(v) = {v}

Certificate(g, l, target) ==
  LET norm == norm_sq(vec3_from_glyph(g)) IN
  [glyph |-> g, qlg_norm_sq |-> norm, sla_balanced |-> is_balanced(l), sla_omega |-> l.omega,
   qra_target |-> target,
   isomorphism_holds |-> target = g /\ norm = K_QLG /\ l.omega = K_QLG]
certificate_is_valid(c) ==
  c.isomorphism_holds /\ c.sla_balanced /\ c.qlg_norm_sq = K_QLG /\ c.sla_omega = K_QLG
reconcile(g) == UNION {{Certificate(g, l, target) : target \in sla_to_qra(l)} :
                         l \in qlg_to_sla(vec3_from_glyph(g))}
\* reconcile_all, and with it the validation, panics when one has none.
validate_full_reconciliation ==
  \A g \in Glyph : \E c \in reconcile(g) : certificate_is_valid(c)
reconcile_transition(current, previous) == reconcile(next_glyph(current, previous))

(***************************************************************************)
(* Properties                                                              *)
(***************************************************************************)

Total(points, field) == FoldLeft(LAMBDA total, p : total + p[field], 0, points)

\* Whatever is composed, evolved, stored and read back, a ledger balances and
\* its credit is the opposite of its debit, even past the largest integer; and
\* the accumulator is the total of the points it took, all of one omega.  A
\* panic in the middle of a push does not make its books unbalanced by more
\* than the one credit it was about to write.
BooksBalance ==
  /\ is_balanced(ledger) /\ ledger.iota = Wrap(-ledger.delta) /\ ledger.omega \in Omegas
  /\ decode(encode(ledger)) = ledger
  /\ sum.count = Len(accepted)
  /\ \A i \in DOMAIN accepted : accepted[i].omega = sum.omega
  /\ ~panicked => /\ sum.s_acc = WrapU(Total(accepted, "s"))
                  /\ sum.delta_acc = Wrap(Total(accepted, "delta"))
                  /\ sum.iota_acc = Wrap(Total(accepted, "iota"))
  /\ sla_validate(SLACertificate(ledger)) /\ SLACertificate(ledger).balance_value = 0
  /\ ~sum_is_balanced =>
       panicked /\ sum.delta_acc = -(Modulus \div 2)

\* Every vector either has norm 1 and comes back as itself from the ledger and
\* the glyph it becomes, or is refused; a glyph that any transition leads to
\* has a valid certificate; and a ledger that classifies as a glyph is that
\* glyph's own up to its symbol, so two glyphs share none.
SphereReturns == \A v \in (-1 .. 1) \X (-1 .. 1) \X (-1 .. 1) :
                   round_trip_qlg(v) = IF norm_sq(v) = K_QLG THEN {v} ELSE {}
TransitionsReconcile ==
  \A c, p \in Glyph : \E cert \in reconcile_transition(c, p) :
    certificate_is_valid(cert) /\ cert.qra_target = next_glyph(c, p)
IsomorphismHolds ==
  /\ SphereReturns /\ TransitionsReconcile
  /\ validate_central_isomorphism /\ validate_full_reconciliation
  /\ \A g \in sla_to_qra(ledger) :
       \E l \in qlg_to_sla(vec3_from_glyph(g)) : [ledger EXCEPT !.s = l.s] = l
=============================================================================
