----------------------------- MODULE WasmCalls -----------------------------
(***************************************************************************)
(* What a web page can call (hyperkitty-wasm): the glyph table with range  *)
(* checks, ledgers that only travel as 24 bytes, and the routing of        *)
(* messages between sixteen agents.  The page passes a message on from     *)
(* agent to agent with the glyph it was given, and collects the bytes of   *)
(* ledgers.  A wasm build wraps round and never panics on overflow.        *)
(***************************************************************************)
EXTENDS LedgerAlgebra

CONSTANTS Agents,     \* agents a page starts from, 0 .. 255 in the code
          MaxHops,    \* bound on the hops of a message
          MaxLedgers  \* bound on the ledgers of a page
\* The debits a page enters are i64.
ASSUME WasmBounds == Agents \subseteq 0 .. 255 /\ MaxHops \in Nat /\ MaxLedgers \in Nat
                     /\ \A a \in Amounts : Fits(a)

VARIABLES hop,  \* what agent_route answered last, and how many hops it took
          flat  \* the ledgers collected, each 24 bytes
wasmVars == <<hop, flat>>

\* 255 and 0 stand for a glyph that does not exist.
qra_next(c, p) == IF {c, p} \subseteq Glyph THEN next_glyph(c, p) ELSE 255
glyph_wire_byte(g) == IF g \in Glyph THEN to_byte(g) ELSE 0
qra_evolve_witness(w) ==
  IF ToSet(w) \subseteq Glyph
  THEN <<next_glyph(w[1], w[2]), next_glyph(w[2], w[3]), next_glyph(w[3], w[1])>> ELSE <<>>
qra_validate_exhaustion ==
  qra_evolve_witness(qra_evolve_witness(<<Pi, Gamma, Delta>>)) = <<Omega, Omega, Omega>>

\* Mutant: absorbed messages are passed on too.
X_agent_route(from, prev) ==
  LET next == qra_next(from % 6, prev % 6) IN
  [next_agent |-> (next * 3) % 16, glyph_next |-> next, wire_byte |-> glyph_wire_byte(next),
   absorbed |-> next = Omega]
\* An agent has the glyph of its number modulo 6, a glyph the agent of three
\* times its index modulo 16: the two are not inverse to each other.
agent_route(from, prev) ==
  LET next == qra_next(from % 6, prev % 6) IN
  [next_agent |-> IF next = Omega THEN 0 ELSE (next * 3) % 16,
   glyph_next |-> next, wire_byte |-> glyph_wire_byte(next), absorbed |-> next = Omega]

qra_tensor == [k \in 0 .. 35 |-> next_glyph(k \div 6, k % 6)]

\* An index that is no glyph is answered with nothing, or -1, or an error.
OrNothing(i, answer, nothing) == IF i \in Glyph THEN answer[i] ELSE nothing
glyph_name(g)           == CASE g = Pi -> "Pi" [] g = Gamma -> "Gamma" [] g = Delta -> "Delta"
                             [] g = Omega -> "Omega" [] g = Lambda -> "Lambda" [] g = Psi -> "Psi"
glyph_name_for(i)       == OrNothing(i, [g \in Glyph |-> glyph_name(g)], "Unknown")
qlg_point_for_glyph(i)  == OrNothing(i, [g \in Glyph |-> vec3_from_glyph(g)], <<>>)
qlg_norm_sq(i)          == OrNothing(i, [g \in Glyph |-> norm_sq(vec3_from_glyph(g))], -1)
sla_ledger_for_glyph(i) == OrNothing(i, [g \in Glyph |-> encode(qra_to_sla(g))], <<>>)
reconcile_glyph(i)      == OrNothing(i, [g \in Glyph |-> reconcile(g)], {})
\* A glyph that does not reconcile is left out.
reconcile_all_json      == UNION {reconcile(g) : g \in Glyph}
validate_isomorphism    == validate_full_reconciliation

\* Fewer than 24 bytes are answered with none.  Decoding makes the credit up
\* from the debit, so that any 24 bytes are a balanced ledger.
Ledgers == {encode(l) : l \in Built}
sla_is_balanced(bytes) == bytes # <<>> /\ is_balanced(decode(bytes))
sla_compose(a, b) ==
  IF <<>> \in {a, b} \/ a[3] # b[3] THEN <<>>
  ELSE <<WrapU(a[1] + b[1]), Wrap(a[2] + b[2]), a[3]>>
sla_evolve(base, increment) ==
  IF <<>> \in {base, increment} \/ ~Increments(decode(increment)) THEN <<>>
  ELSE encode(NewLedger(base[1] + increment[1], Wrap(base[2] + increment[2]), base[3]))

\* The four bytes: the low half of the debit and the high half of its
\* opposite, two constants, and the low half of omega before 0x0A.
encode_wire_frame(delta, omega) ==
  <<(delta % 16) + 16 * (((-delta) % 256) \div 16), 15, 255, 10 + 16 * (omega % 16)>>
Accumulated(chunks) ==
  FoldLeft(LAMBDA acc, c : [delta |-> Wrap(acc.delta + c[2]), omega |-> c[3],
                            ok |-> acc.ok /\ (acc.count > 0 => acc.omega = c[3]),
                            count |-> acc.count + 1],
           [delta |-> 0, omega |-> 0, ok |-> TRUE, count |-> 0], chunks)
sla_accumulate(chunks) ==
  LET acc == Accumulated(chunks) IN
  IF acc.ok THEN encode_wire_frame(acc.delta, acc.omega) ELSE <<>>

WasmInit == hop = [n |-> 0] /\ flat = <<>>
Route(from, prev) ==
  /\ hop.n < MaxHops
  /\ hop' = [n |-> hop.n + 1, answer |-> agent_route(from, prev)]
  /\ UNCHANGED flat
Collect(bytes) == Len(flat) < MaxLedgers /\ flat' = Append(flat, bytes) /\ UNCHANGED hop
\* The two are independent: a page is modelled doing one or the other.
WasmNext ==
  \/ hop.n = 0 /\ flat = <<>> /\ \E from \in Agents, prev \in Glyph \cup {255} : Route(from, prev)
  \/ hop.n > 0 /\ Route(hop.answer.next_agent, hop.answer.glyph_next)
  \/ hop.n = 0 /\ \E bytes \in Ledgers : Collect(bytes)

WasmSpec == WasmInit /\ [][WasmNext]_wasmVars

(***************************************************************************)
(* Property                                                                *)
(***************************************************************************)

\* A message passed on from any agent with any glyph is absorbed after four
\* hops at most and stays with agent 0 from then on, although agent 0 has the
\* glyph Pi and not the absorber: no cycle of agents escapes the table.
AbsorbedForGood ==
  hop.n >= 4 => hop.answer = [next_agent |-> 0, glyph_next |-> Omega, wire_byte |-> 10,
                              absorbed |-> TRUE]

\* A frame is answered exactly when all ledgers agree on omega, whatever their
\* order, and it is the frame of the ledger they compose to; evolving by what
\* is no increment, or composing across omegas, gives no bytes, and whatever
\* bytes come back count as balanced.
FramesAreOrderFree ==
  LET composed == IF flat = <<>> THEN <<0, 0, 0>>
                  ELSE FoldLeft(sla_compose, Head(flat), Tail(flat))
  IN /\ sla_accumulate(flat) =
          IF composed = <<>> THEN <<>> ELSE encode_wire_frame(composed[2], composed[3])
     /\ sla_accumulate(Reverse(flat)) = sla_accumulate(flat)
     /\ composed # <<>> => sla_is_balanced(composed)
     /\ \A l \in ToSet(flat) : composed # <<>> /\ sla_evolve(composed, l) # <<>> =>
          l[3] = 0 /\ sla_is_balanced(sla_evolve(composed, l))

\* An index is answered by all of them or by none, with a point of norm 1, a
\* valid certificate among those of all glyphs and the row and column of the
\* table it has; but the ledger a page is given for a glyph stands, in the
\* isomorphism, for that glyph only if it is Pi, and for none of the others.
IndexesAreGlyphs ==
  \A i \in Agents \cup Glyph :
    /\ LET refused == {glyph_name_for(i) = "Unknown", qlg_norm_sq(i) = -1, qlg_point_for_glyph(i) = <<>>, reconcile_glyph(i) = {},
                       sla_ledger_for_glyph(i) = <<>>, qra_next(i, Pi) = 255, qra_next(Pi, i) = 255}
       IN refused = {i \notin Glyph}
    /\ i \in Glyph =>
         /\ qlg_norm_sq(i) = K_QLG /\ \A p \in Glyph : qra_next(i, p) = qra_tensor[6 * i + p]
         /\ \E c \in reconcile_glyph(i) : c \in reconcile_all_json /\ certificate_is_valid(c)
         /\ sla_to_qra(decode(sla_ledger_for_glyph(i))) = {i} \cap {Pi}

\* What the page is told agrees with the crates behind it.
WasmAgreesWithTheCrates ==
  AbsorbedForGood /\ FramesAreOrderFree /\ IndexesAreGlyphs /\ qra_validate_exhaustion
  /\ validate_isomorphism
=============================================================================
