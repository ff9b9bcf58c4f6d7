# HyperKitty in TLA+

TLA+ modules, TLC runs and TLAPS proofs about the running code of the
HyperKitty constraint DSL: the C programs under `src/reasoning/` and the Rust
crates under `src/rust/crates/`. `PROJECT.json` maps every definition to the
lines it stands for, and lists the runs, the mutants that show that each
property can fail, the hazards and the theorems. This file says what is
modelled, what the checks show, and what is left.

    tlc -workers 2 -config bus_wakeup.cfg MCHKBus.tla
    tlapm HKBusProofs.tla

## 1. Inventory of the system

The repository is a set of libraries. Almost nothing in it starts another
part: components meet where a function of one takes a value another made.
`src/rust/runtime/`, `src/rust/routing/` and `src/wasm/lib.rs` hold copies of
files of the crates, and several crates keep files their `lib.rs` does not list
(see `PROJECT.json`); neither is mapped.

| Component | State it keeps | Operations | What makes it correct |
|---|---|---|---|
| Message bus (`hyperkitty_bus.c`) | table of connections, per connection a ring of messages, subscriptions, an `active` flag; totals | init, destroy, connect, disconnect, subscribe, unsubscribe, publish, route, recv; encode/decode | FIFO per connection, no message lost but on a full queue, none to somebody who left, no receiver asleep beside a message, no lock cycle |
| QRA tensor, witnesses (`hyperkitty-qra`, `-witness`, `routing/qra_dispatch.rs`, `routing_tensor.c`) | two constant 6x6 tables; the witness of a loop | next_glyph, evolve, exhaust, route_to_convergence, hk_qra_token_lifetime | the loops end, where they should, as soon as they say |
| Reconciliation protocol (`hyperkitty-runtime`) | committed glyph, counters | reconcile (decides), commit (applies) | commits only what was proved and routed |
| C-- bridge and kernel (`cminus_bridge.rs`, `hyperkitty_kernel.c`) | a fixed-width record; a static committed state and counters | from_reconciliation, validate_all; hk_kernel_decide | both ends judge a record alike; nothing unproved is committed |
| Runtime ticks (`hyperkitty-runtime`) | world facts, tick history, index | advance_tick, verify_all_ticks | the history alone gives the world back |
| WORM chain (`hyperkitty-worm`) | records in memory | append, verify, encode, decode | appended chains verify; the last record seals the others; decode undoes encode |
| WORM store (`worm_storage.c`) | entries in memory, a file | serialize, deserialize, write_file, read_file, verify_chain | what is read is what was saved; saved ledgers verify |
| SLA ledger, isomorphism (`hyperkitty-sla`, `-isomorphism`, `-qlg`) | a ledger, an accumulator | compose, evolve, push, encode, the conversions | books balance at every width; conversions lose nothing |
| NAND filter (`hyperkitty-nand`, `nand_filter.c`) | registered conflicts, experts suppressed so far | gates, lowering to NAND, filter, cascade | no two admitted experts conflict; nobody goes without cause; lowering keeps the meaning |
| Pipelines (`hyperkitty-routing`, `master_pipeline.c`) | the state the stages hand on; a counter of executions | run the stages in order; dispatch | one answer per route; the receipt owns what is left; executions are counted |
| Constraint language (`hyperkitty-constraints`, `constraint_dsl.c`) | tokens, a program; a context of ledgers, invariants and entropy | lex, parse, evaluate; check, propagate | a program is its text; invariants drift no further than allowed |
| Formalization machine (`xslt_processor.rs`) | invariants, artifacts, obligations | register, emit, record, validate, to_constraint_program | what is marked as checked was checked |
| Inverted AST (`inverted_ast.c`, `hyperkitty-ast`) | nodes and their children | alloc, add_child, to_graph, validate | nothing below a payload has authority; the graph is the tree |
| ERE gates (`hyperkitty-ere`) | none | five gates, receipt | the gates of a text follow from those of its parts |
| Lexers, tokenizer (`hyperkitty-parser`, `regex_parser.c`) | place and tokens | lex, tokenize, detect_danger | tokens tile the text |
| Jordan, Jacobian, graph (Rust and C) | the trace of a convergence | products, idempotents, evolve, converge, transform, lens | algebraic identities, on exact numbers |
| Art and WASM (`hyperkitty-art`, `-wasm`) | a scene and the last receipt; none | render, verify; what a page calls | a receipt seals its picture; a page is told what the crates say |
| Continuity, Magma (`hyperkitty-continuity`, `-magma`) | a bit mask, a versioned memory, a seed chain, seen nonces | set_bit, write, advance, check_and_register | each remembers exactly its own calls |
| CLI, API, web pages; Lean/Agda/HOL/OCaml texts | none | | not modelled |

How they interact. Threads of an application share a bus through its API: the
only concurrency in the code, with one mutex for the table, one mutex and one
condition variable per connection, and one flag (`active`) read and written
outside its mutex. The protocol's decision is a value its caller keeps, and so
is the record made of it for the kernel: the coupling is by what callers may do
with values that have grown old. The routing table is shared by the protocol,
the witnesses and the dispatcher; the C code has a table of its own. The WORM
store meets the outside through a file.

What is hard: interleavings on the bus (decisions made under one lock and acted
on under another, wakeups, timeouts, disconnect against everything); decisions
that are committed late or twice; two encodings and two validators on the two
sides of an ABI; loops whose end depends on a table; saves that are cut short;
allocations that fail between two stages; integers at their widest; calls in an
order nobody wrote down (an artifact emitted twice, an obligation created after
the others were validated, a chain changed and rehashed from the middle).
`PROJECT.json` lists each hazard at its line.

## 2. Modules

### The message bus

* `HKQueue`: the ring buffer of a connection as functions on a record
  (`q_push`, `q_pop`), and `Contents`, the FIFO it stands for.
* `HKBus`: the bus. Every thread has a program counter. A critical section
  under a `q_lock` is one step; `hk_bus_publish` and `hk_bus_route` hold
  `bus->lock` over many steps, of which a turn of publish's loop takes two (it
  drops the `q_lock` between matching and pushing); `hk_bus_recv` keeps its
  `q_lock` from the loop test to the wait, and the wait is entered, left by a
  signal, by its deadline or for no reason, in steps of their own;
  `hk_bus_disconnect` clears `active` and broadcasts after it has released the
  lock, in two more steps.
* `Mailboxes`: what the bus promises, without threads, locks or rings.
  `HKBus` refines it: `open` is the table, `box[c]` the contents of `c`'s ring,
  `refused` its drop counter.
* `HKBusReach`: `HKBus` with two history variables, whom the publish in progress
  has offered its message to and whose subscriptions have not changed since it
  began. What it adds to a step is determined by the step.
* `MCHKBus`, `MCHKBusReach`: instances. `HKBusProofs`, `HKBusRaces`: proofs.

Abstractions. A message is an address, a topic and a serial number. Topics are
model strings with a constant prefix relation; a pattern is a stem and a flag
for its star. `Stored` says how a pattern is cut when it is stored (127
characters), so that the duplicate test, which compares whole strings, can
miss. `active` is read and written by threads that hold different locks or
none: a data race in C, modelled as an atomic boolean, the outcome every build
of a one-byte flag gives. `msgs_sent` and `msgs_recv` are never updated by the
code and left out, like `hk_bus_get_stats`, which only reads.
`hk_bus_destroy` has the contract that no thread is inside the bus: it frees
what they would be using. The repository has no caller that breaks it. The
socket mode only binds a descriptor nobody accepts on. The text form of a
message has a module of its own among the engines, `WireCodec`: nothing in the
bus calls it.

### The commit path

* `QRA`: glyphs, bytes, both tables.
* `CommitPath`: `ReconciliationProtocol` (reconcile decides, commit applies),
  `RouteDecision` (`from_reconciliation`, `validate_all`) and
  `hk_kernel_decide`. The repository has no program that joins the three, so
  the callers do whatever the interfaces allow: each keeps one decision as long
  as it likes, commits it late, twice or never, turns it into a record, fills in
  records by hand, and delivers the record in hand any number of times.
* `MCCommitPath`: instances. `CommitPathProofs`: proofs.

Entropies are whole hundredths, with NaN and infinity as values of their own;
`reconcile` always computes 0, hand-made records carry the others. `trace_id`
and `last_entropy` are left out: the code stores them and decides nothing by
them. `asked` and `bridged` are history variables. The flags of a record are any
numbers, as its public 32-bit fields are; `from_reconciliation` writes 0 and 1.
A decision is what `reconcile` returned: its fields are public too, and a caller
that builds one by hand and commits it is outside the model. A u64 counter does not wrap
in the bounds of the model. Two things met on the way that no property states:
`invariant_preserved` crosses the ABI and neither end reads it; the branch of
`commit` for "accepted but no next_state" cannot be reached from `reconcile`.

### Witness loops

`WitnessRuns`: `Witness::exhaust`, `QRADispatcher::route_to_convergence` and
`hk_qra_token_lifetime`, a turn of the loop to a step, from every start. It is
checked with the engines below.

### The WORM store

`WormStore`: an application appends entries the way `worm.h` describes their
fields, saves them with `hk_worm_write_file` (an fopen, an fwrite per entry, an
fclose), reads them back, and may crash anywhere. What reaches the disk of what
was given to fwrite is any beginning of it, cut inside an entry or not: after a
crash, after a failed fwrite or allocation, and after an fclose whose result the
code ignores. A read goes on after a failed allocation: each entry of the file
comes back whole, without its event type, payload or metadata ("stripped"), or
not at all ("skipped"), in any combination. A part longer than its length field
(an event type of 65,536 characters) comes back cut. The chain hash is the XOR
the code computes, on sets of bits, not the SHA-256 of the header. The file keeps
neither sequence nor chain hash. `MCWormStore` is its instance, `RecordProofs`
has its proofs. Not modelled: the byte layout, timestamps (a save overwrites them
with its own time), files the code did not write, and entries whose header
lengths add up to 2^32 - 152 or more, for which `hk_worm_entry_serialize` adds
up the size of its buffer modulo 2^32.

### The engines

Twenty-one parts that share no state with each other while they run. Each has a
module, with its own `Init` and `Next`; `MCEngines` picks one per behaviour (its
`part`) and leaves the others where they are, so that one run explores all of
them without multiplying their states.

* `ConstraintProgram`: programs and the evaluator's questions (`evaluate`,
  `count_passing`, `evaluate_constraint`, `report`). `ConstraintParser`: the
  recursive-descent parser as a machine whose state is what it wants next; every
  token it does not accept is a syntax error. `ConstraintLexers`: the lexers of
  `hyperkitty-constraints` and `hyperkitty-parser` on what a user has typed so
  far, character classes standing for characters.
* `FormalizationMachine`: registry, artifacts, obligations and derivations, with
  the public operations in any order; the schedule of twelve phases is a list in
  the code, and nothing follows it. `to_constraint_program` builds a
  `ConstraintProgram`.
* `EREGates`: lines of text of which only the marks the gates look for are kept,
  and the first address, which the telemetry gate cuts out by hand.
* `NandFilter`: one conflict of the loop of `NANDFilter::filter` per step, in the
  order of the sorted pairs, and the C filter on masks. `NandGates`: formulas,
  their lowering to NAND, the truth tables, and the two predicates that
  `nand_filter.c` builds of gates.
* `InvertedAst`: a heap of nodes; attachment, weights in tenths, the graph, and
  `hyperkitty-ast`'s own types, weights and validation on the same nodes.
* `MasterPipeline`: one stage of `hk_routing_pipeline_execute` per step over one
  heap-allocated state, with the blocks that are live; any allocation may fail.
  `RoutingPipeline`: the eleven Rust stages over the number of tokens, and the
  `Dispatcher`.
* `ConstraintGate`: the context of `constraint_dsl.c`, whose fields a caller
  writes, and a message that propagates when all four checks pass. A vector
  counts in units of the tolerance, a component may be NaN.
* `LedgerAlgebra`: `Ledger`, `LedgerSum`, sphere and isomorphism. Integers have a
  width (`Modulus`, 2^64 in the code): a release build wraps, a debug build
  panics in the middle of the statement, and both are taken. `WasmCalls` extends
  it with what a page can call, which only sees ledgers as 24 bytes.
* `WormChain`: records with SHA-256 as an injective term, and an environment that
  edits, drops and rehashes. `RuntimeTicks`: worlds as partial functions.
* `Kernels`, `DensityLoop`: the algebra over whole numbers, where the code's
  floating point is exact, and over `a + b g` for the golden ratio that
  `evolve` mixes with. Any distance but zero may or may not be below the
  tolerance of the convergence loop. A sum is the recursive function that
  `.iter().sum()` is, coordinate by coordinate. `AlgebraSpec` runs both modules,
  each on its own variables.
* `RegexParser`: one token per step, with which of the 17 patterns match left to
  the environment. `ArtReceipts`: scenes, what each renderer draws of them and
  in what order, and receipts over the hash of that.
* `WitnessRuns`, see above. `WireCodec`: a message is written into a buffer that
  may be too small, values as they are, and searched for its keys by whoever has
  the text and some length of it. A word that is a key counts as one character.
* `Continuity`: the four small objects of `hyperkitty-continuity` and
  `hyperkitty-magma` that keep state between calls, with a log of the calls. A
  mask is the set of its bits.

The theorems about them are gathered by what they are about, in four modules:
`GateProofs` (filters, gates and formulas, formalization machine, constraint
parser), `PipelineProofs` (both pipelines, the tokenizers and the inverted tree),
`RecordProofs` (WORM store and chain, ticks, receipts, continuity, wire texts) and
`AlgebraProofs` (tables and loops, ledgers, sphere, pages, numeric stages). Each engine has a specification of its own for them
(`RegexSpec`, `ChainSpec`, ...): its `Init`, and steps of its `Next`, which is
what `MCEngines` does while that engine is the `part` at work.
`InductionLemmas` holds what they all need: least places of sets of numbers,
functions defined by recursion, folds.

## 3. Runs

| Run | Question | Bounds |
|---|---|---|
| `bus_wakeup` | are rings and types kept, and does no receiver sleep beside a message? | 1 sender, 2 receivers, 1 client, 1 connection, queue of 2, 3 sends, 3 patterns |
| `bus_delivery` | does what is decided under one lock and done under the next stay right, does a publish reach everybody it is for, and does the bus refine mailboxes? | 2 senders, 1 receiver, 1 client, 2 connections, queue of 1, 2 sends |
| `bus_returns` | does every timed recv and every send return? | 1 sender, 2 receivers, 1 client, 1 connection, fair |
| `commit_path` | what can be committed, and do both ends agree? | 2 callers, glyphs Pi and Omega, 32 hand-made records, 2 commits or deliveries |
| `commit_flags_doc` (violation) | does a record the kernel commits have its flags set? | as above |
| `commit_abi_doc` (violation) | do the state bytes of accepted decisions fit the range 0-5? | as above |
| `worm_store` | what can be read back, and which ledgers verify? | 3 appends, 2 hashes that share a bit, read cap 2 |
| `worm_reload_doc` (violation) | does a ledger verify after a reload? | as above |
| `worm_success_doc` (violation) | is the ledger on file when a save returns 1? | as above |
| `engines` | does each engine keep the promise below? | see below; 400,434 states |
| `formalization_agda_doc` (violation) | is a Lean-to-Agda correspondence ever validated? | 1 invariant, 5 records |
| `nand_header_doc` (violation) | do the NAND predicates compute what their header states? | formulas of 2 variables and 2 operators |

Why these bounds are enough for the cases that matter.

* `bus_wakeup`. Two receivers on one connection are what it takes to lose a
  wakeup (one signal spent on a receiver that has timed out while the other
  sleeps); a queue of two with three sends wraps the ring, fills it and drops.
  The three patterns are an exact one, a prefix, and one whose stored form is
  not itself.
* `bus_delivery`. Two connections are needed for the swap in disconnect to
  reorder the table under a scan, and for route to choose; two senders for one
  to wait for `bus->lock` while the other is between two critical sections; a
  queue of one to be full at once. The run has the memory of `HKBusReach`; with
  more connections, where a hole may also be in the middle of the table, it is
  the theorem `PublishReachesAll` that speaks.
* `commit_path`. The byte of Pi passes the glyph gate and the byte of Omega does
  not; two callers and two commits give the late and the double commit. The
  hand-made records are what the unit tests of both ends change in a good
  record, with 0, 1 and 2 in `accepted`, and records with no flag at all. The
  proofs lift the choice of glyphs and records.
* `worm_store`. A cap of two with three appends reaches a ledger longer than a
  read returns, a reload of it, one with the entry in the middle skipped, and an
  append to what was reloaded.
* `engines`. The filter gets every list of up to three activations of three
  experts (ids may repeat) with weights 0 to 3 and three registries: chains and
  triangles of conflicts, a pair given backwards and a pair of one expert. Three
  lines of an artifact put an opening, its way out and a comment in every order.
  The parser takes every sequence of tokens that leads to two constraints of one
  requirement. Formulas have two variables and two operators; trees three nodes
  of up to two children, enough for a node attached twice. Both pipelines have
  the code's own number of stages and 32 experts; six tokens are more than the
  five routes a message may have. Integers are four bits wide, and two pushes
  reach -8, whose negation does not fit. Chains have two records, with length
  fields of one bit and an event type, data and metadata too long for them. All 16 agents of a page
  and an index that is no agent start a message, and six hops are more than the
  four it needs. Matrices and vectors are 2 by 2 over -1 to 2. A text has four
  characters of eight kinds and an array of three tokens, so that it fills. The
  three loops leave nothing out: the tables are constant, and all 216 witnesses
  and six glyphs start with budgets 0 to 4. Lengths are bounded by an invariant,
  which is why no liveness property is needed for their ends: every state of a
  running call has a step, and none has more than three moves (101 states from
  Lambda). Wire texts come from buffers that cut them in a head field, in the
  number and not at all, every length of the text is tried for decoding, and
  bodies are all texts of up to three plain characters, backslashes and quotes.
  Four calls of the continuity objects set, clear and set a bit again, reach a
  position past a mask of two bits, and bring a nonce back twice.

What the properties say.

* `RingsConsistent`, `NoLostWakeup`, `OneStaleDelivery`, `ChoiceStillSafe`:
  see the comments in `HKBus`. `NoLostWakeup` counts: while anybody sleeps on a
  connection there are at least as many receivers on their way to the queue as
  messages in it. `OneStaleDelivery` bounds a real race: publish matches under
  one hold of the `q_lock` and pushes under another, so an unsubscribe in
  between still gets the message; that is one message and never two, because
  `bus->lock` admits one send. `ChoiceStillSafe` is why route may use counts
  that are old: they can only have fallen.
* `NobodyIsSkipped`. A publish walks the table by index, and a disconnect moves
  the last entry into a hole. Whoever is in a place the walk has passed and should
  have the message was offered it, and nobody in a place still to come. The
  message of a broadcast is for those whose subscription is as old as the publish;
  who subscribes or leaves while it runs may get it or not. Were `bus->lock` given
  back between two turns, a connection moved forward would be skipped: that is the
  mutant. `ImplementsMailboxes` constrains the puts that happen and would not see
  one that is missing.
* `RecvReturns` needs the deadline. A disconnect clears `active` and broadcasts
  without the `q_lock`; a receiver that tested `active` before and waits after
  misses the only broadcast there will be, and sleeps until its deadline. The
  code has no recv without a deadline, so it returns, late.
* `BridgedVerdict`. Bytes and indices are mixed up at the ABI: `to_byte` writes
  0x0A, 0xFF and 0x0B for Omega, Lambda and Psi, and both validators want at
  most 5. So whatever `reconcile` accepts, the kernel commits Delta or answers
  -2; it never answers -4 to a rejected decision of the protocol, whose missing
  next state is sent as Lambda. The unit tests build their records from Pi,
  Gamma and Delta, and never see it.
* `EndsAgree`: the kernel commits a record exactly when `validate_all` passes it
  and its `accepted` is not 0, whatever numbers are in the flags. Neither end looks
  at `invariant_preserved`, and both look at the other flags only if `accepted` is
  1: a record with another number there is committed with all its flags zero
  (`CommittedAreOk`, which `commit_flags_doc` refutes). The second part of
  `EndsAgree` says that this is the only way to be committed without them, and
  that the bridge does not lead there.
* `OnlyProvedCommits`. `commit` trusts a flag, and takes decisions by
  reference: the property says that a commit, however late, applies the table's
  glyph for inputs that had a proof. It does not say that the decision's current
  state is still the committed one. The code does not compare them, and says
  nowhere that it does.
* `LoopsEnd`, `LifetimeAgrees`. The tables of Rust and C are
  different functions: with the Rust table every witness but three Lambdas
  is exhausted within three evolutions, with the C table only 8 of 216 ever
  are. `LifetimeAgrees` says that where C gives a token a lifetime, Rust has
  exhausted it by then. From Lambda, `route_to_convergence` turns 100 times
  and returns Ok with 101 Lambdas, though its comment says that it evolves
  "until absorber state reached".
* `ReadsWhatWasSaved`, `EntriesAreGenuine`, `VerifyTells`. A read gives entries of
  the last ledger saved and of no older one, in order and none twice, with the
  hashes and links they were saved with; where its own allocations succeed, the
  first of them up to the cap, with all they had. It need not give all of them:
  the older save is gone from the moment of fopen, a failed fclose is not noticed
  (`worm_success_doc` refutes `SuccessMeansSaved`), entries beyond the cap
  are dropped, and an entry for which there is no memory is left out or loses its
  parts without a word. Over any number of saves and reads the ledger holds
  entries that were appended, in that order; that some may be missing is what the
  prev_hash of the next one would show, and nothing looks. A ledger verifies
  exactly when none of it came from a file.

Of the engines, where the comment in the module says more:

* `ParsedIsTheText`: an accepted text is the program written out again, and the
  four ways to ask about it have one answer. `LinesReadAlone`: what a lexer reads
  of a line does not depend on the lines before it, and the two lexers agree
  where their languages meet, for numbers of 64 bits: larger ones
  (`Int64Numbers` leaves them out) the second lexer drops. `TokensTileTheText`: no gap, no overlap, nothing
  past the end, and the rest dropped only when the array is full.
* `MarksGoToTheOldest`: "Validated" and the provers' statuses rest on what was
  created first, however often something is created again. `ProgramRejectsNegatives`:
  the program made of the registry rejects for a negative invariant and for no
  other. `EmittedIsValid` is what phase 12 describes and the code does not do.
* `GatesCompose`: secrets and evaluations of a text are those of its parts, and
  loops with a way out keep it. The telemetry gate promises nothing of the kind.
* `FilterIsSound`: no conflict is left although the loop skips pairs, nobody goes
  without a rival that beats it, and who goes is decided by the conflicts in the
  order of their ids: a conflict counts exactly when both sides are still in after
  those before it. In another order other experts may go. `CFilterIsStricter`: the C cascade is done
  after one round and admits nothing the Rust filter would not, on equal terms.
  `TableIsMeaning`: lowering to NAND keeps the meaning of every formula.
* `GraphIsTheTree`: nothing structural ever gets below a payload, the graph has
  the tree's edges, passes the Rust validation, and carries weight where the Rust
  edges do.
* `ReceiptOwnsTheOutput`, `EveryRouteAnswersOnce`, `DispatchesAreCounted`: a
  rejected message goes through all stages and owns nothing, the answer has one
  result per route in the map's order, and execution numbers are new, distinct
  and all counted, whatever fails in between.
* `DriftIsBounded`: n passing messages move a component by n tolerances at most,
  as long as it has been a number; once NaN it may be anything.
* `BooksBalance`, `IsomorphismHolds`: wrapping and panicking leave the books off
  by one credit at most; each layer gives back what it was given.
  `WasmAgreesWithTheCrates`: a message of any agent is absorbed within four hops,
  a frame does not depend on the order of the ledgers, and every call of a page
  answers for the same six indices. The ledger a page is given for a glyph reads
  back as that glyph only for Pi.
* `LastRecordSealsTheChain`: a verified chain that ends in the original last
  record is the original; and a record survives encoding exactly when its event
  type, data and metadata fit their length fields, of
  16, 32 and 32 bits. `ReceiptsSealPictures`: the receipt a pipeline makes verifies what
  its own call rendered, and nothing drawn of another scene; the name and the
  steps of a theorem of a known kind are not drawn, so they are not sealed. It
  says nothing of a receipt a caller makes with the public
  `receipt_from_artifact`, which hashes whatever bytes it is given under whatever
  name and format: that one verifies those bytes, whoever drew them.
* `FieldsKeepApart`: the encoder escapes nothing and the decoder takes the first
  place where a key stands. While no head field holds a quote, no text moves from
  one field to another, cut or not, and a head field arrives whole or not at all;
  a body comes back as it was exactly if each of its quotes has a backslash
  before it and it does not end in one.
* `HistoryReplays` and `UsesAreRemembered` are plain and left to their theorems: the
  run drives ticks and objects, and does not ask for them. Running the actions again
  gives every world; whatever the order of calls, a bit is the last value set at
  its place, a nonce is taken once, a read gives the last write, a version names
  one state of the memory; and `SeedChain::advance` hands out the genesis seed.
* `AlgebraHolds`: the spin factor is a Jordan algebra and not associative, the
  idempotent search ends with an idempotent, density matrices keep their trace
  under orthogonal matrices and their symmetry under any, idempotents split,
  degrees agree. That the gap is the whole radius when all eigenvalues have one
  size is said from dimension two on: for one eigenvalue the code returns zero.

Fairness (`FairSpec`, only used by `bus_returns`). Strong fairness of a
thread's steps inside publish and route and inside recv: they stop for mutexes
that others take and release, and a pthread mutex that is released again and
again is had in the end. Weak fairness of the two unlocked steps of disconnect,
which nothing blocks, and of deadlines: clocks run. No fairness of calls
beginning, of spurious wakeups or of clients. `commit_path` and `worm_store`
have none: they state no liveness.

Deadlock is checked in all runs but those of the engines, where a call that has
returned, a parser that has accepted, a filter that has looked at all conflicts
or a list at its bound is the end.

## 4. Proofs

Each theorem holds for every value of the constants that satisfies the named
assumptions of its module, which TLC also evaluates, in the
module's run. Most say that a constant is
a number or a set of them. Those that say more:

* `QueueAssumption`: a queue holds at least one message. `BusAssumption`: cutting
  a pattern gives a pattern, and messages are the requests with a number.
  `ThreadsAssumption`: finitely many threads.
* `WormAssumption`: no content hash is all zero, which SHA-256 may be taken for.
  The chain of the crates (`ChainBounds`) only needs that contents are sequences of
  bytes: its SHA-256 is an injective term in the model, and that is all the seal
  rests on.
* `WireAssumption`: the fields of a message are texts that fit the struct, and the
  correlation id is written in digits. Only 0, 7 and 8 are digits in the model.
* `TableAssumption`: texts are sequences, and the danger patterns that compile are
  the first ones, as on a system whose POSIX library refuses the last.
* `LedgerBounds`: integers have an even number of values, 16 at least: the numbers
  of glyphs have to fit. `WasmBounds`: what a page passes as an amount is an i64.

### What runs through them

The provers have no induction scheme with a predicate. Induction is done on a
*set* of numbers instead: `UpTo` says that a set with 0 and with n+1 for each of
its n below N has all of 0..N, and it follows from the least element of the rest
(`LeastPlace`). With it, `InductionLemmas` shows that a function defined by
recursion over the places of a sequence exists (`FoldExists`, `SearchExists`)
and what it returns at each place, and each fold of a model gets one lemma, what
one element more does to it (`FoldLeft` of `apply`, `compose`, `Record`, of
sums, of `FlattenSeq`). So what a recursive *function* computes is proved for
sequences of any length.

### The bus (`HKBusProofs`, `HKBusRaces`)

* `PushIsAppend`, `PopIsTail`. The ring is the FIFO, by the arithmetic of its
  indices.
* `Invariant`: `IInv /\ OnInv`. `TypeOK` and `RingsConsistent` alone are not
  inductive: that a push goes to a connection of the table, and that no second
  send is under way, has to be known. `LockInv` says that `bus->lock` is owned
  exactly by the thread inside publish or route, `TableInv` that the table lists
  allocated connections once, `CallInv` that the locals of a send point into the
  table, `OnInv` that a recv or disconnect has its connection. One lemma per
  action shows that it keeps them. `TypeCorrect` and `RingsStayConsistent`
  follow. `BusRefinesMailboxes` adds `DownInv` (a stopped bus has an empty table)
  and shows that each action is a mailbox step or leaves the mailboxes alone.
* `ChoiceStaysSafe`, `AtMostOneStaleDelivery`. `ChoiceInv` and `DueInv` say what
  a send in progress still knows of the connection it chose; `Bystander` collects
  what steps of other threads can do in between (shorten queues, change
  subscriptions), and one lemma shows that this spoils neither. The senders
  exclude each other by `LockInv`.
* `PublishReachesAll` from `ReachInv` on top of that: between two publishes the
  memory is empty. Only the thread that holds `bus->lock` walks, the table and the
  ids do not change under it, and `active` can only fall, so of the other threads'
  steps none makes anybody more entitled (`WalkStands`); a place is in the table
  once, so the one just pushed to is not still to come.
* `WakeupsAreNotLost`. `NoLostWakeup` needs `BlockOK`, that a receiver between
  its test and its wait still holds the `q_lock` under which it found the queue
  empty; `WakeInv` joins the two. A push with a waiter adds one message and one
  awake receiver, a pop by an awake receiver takes one of each, timeouts and
  spurious wakeups add receivers only, a push without waiters and a broadcast
  leave nobody asleep. The counting needs finitely many threads.

### The commit path (`CommitPathProofs`)

`CommitPathInvariant` (what a caller holds answers what it asked; a record is
hand-made or made of such an answer), and from it `CommitPathTypes`,
`CommitsAreProved`, `VerdictsAgree` (through `OneVerdict`, for every record of
the ABI with any numbers in its flags; that a bridged record has 0 or 1 in
`accepted` is part of the invariant) and `KernelCommitsOnlyDelta` (through `LowGlyphs`: from Pi, Gamma and
Delta the table leads to Delta or Omega).

### Gates and texts (`GateProofs`)

* `FilterSound` from `NandInv`: every stored conflict between active experts is
  still pending or has lost one of its two, and the loser of a pair is beaten by
  the other. The conflicts done are the first in the order of the pairs
  (`PairsInOrder`), and each has fired or not as those before it say (`OrderStep`). `CFilterStricter`: a round of the C filter leaves no conflict, so the
  cascade is one round, and on equal terms whoever the Rust loop suppresses has an
  active rival of a lower index and the other parity, and the C round lets him go
  as well.
* `DriftBounded` from `ContextInv`, which is the bound and the types.
  `GatesComposeAlways`: three lemmas about a sequence and its two halves, for
  artifacts of any length.
* `FMTypeCorrect`, `MarksAreTheOldest`, from `FMInv`: the property is inductive
  beside the types, because artifacts are only added and never change their id.
  `NegativesReject` adds that only finitely many things are recorded
  (`FinitelyMany`), so that they can be counted and put in an order (`SomeOrder`);
  the program has a constraint for each invariant in whatever order that is.
* `TextsAreParsed` from `ParserInv`: the tokens read so far are a text of the
  constraints already parsed, followed by the part that `Doing` gives for the
  place of the descent. One lemma per move says how that part grows. At a `}` the
  part is a whole constraint (`TakesEnd`), and a program with one constraint more
  has its text (`TextOfMore`). `AnswersAgree`, about the evaluator, holds for every
  program and every binding.
* `TablesAreMeanings` from `MeaningInv`: the formula is a tree built by the
  constructors that lowering gives back as it is, and `meaning` is what `eval` says
  of it. Both walks over a tree are one recursive function with another value at
  the leaves and another step at a NAND; `OneResult` shows, by induction on the
  length of paths, that a tree has one such function, and `NandResult` builds it for
  a NAND from those of its operands. That rows and assignments are the same, in
  order, follows by building a row from its digits (`RowDoubled`).

### Pipelines and tokens (`PipelineProofs`)

* `ReceiptsOwnOutputs` from `MasterInv`: between two stages the mask is whole
  until the filter and the filtered one afterwards, the output is null until the
  dispatch and that mask's afterwards, a rejection has neither, and the live
  blocks are the state and, if there is one, the output. What the filter leaves
  has no conflict, by an induction over the experts looked at (`NoConflictIn`).
* `RoutesAnswered` from `RouteInv`, which gives the whole state of a route for
  each stage as a function of its number of tokens alone; the sort by id, which
  is a `CHOOSE`, is decided by ids that differ.
* `DispatchesCounted`: `execution_count` is what it was plus the nodes executed,
  also when nodes of a batch share an id or fail.
* `TextsAreTiled` from `RegexInv`: the place is the end of the last token, and
  tokens lie end to end. That a token is not empty and ends in the text is a fact
  about the searches for the end of a run and of a string (`RunEnds`,
  `StringEnds`), which are recursive functions.
* `LinesAlwaysReadAlone` needs of the invariant only that the text is a sequence;
  the rest is about what the lexers compute. A part of a text that ends with a line
  gives at each place what the text gives there, moved by where the part begins
  (`ReadInPart`): a run, a comment or a delimiter ends with the line, and a string
  that is closed in the part is read character by character as in the text
  (`StringInPart`, by induction from its end). Only a string that is open at the end
  of the part may go on in the text, and then the part has an error. The tokens
  follow by induction from the end of the text (`LowerTokens`, `UpperTokens`). For
  the second lexer, `BothRead` compares the two at one place and `SameTokens` along
  the text.
* `GraphsAreTrees` from `AstInv`: a node has a grade that falls from it to each
  child, so that the walks end (`Downwards`, an induction on grades); edges
  never lead from a payload to a structural node; and each attached node knows a
  place where it is attached. A new edge keeps such a grade: whatever is above the
  new parent is lifted over the child's. The graph of a tree is then shown by going
  down from the root; that siblings share nothing below, and so each place has one
  parent, needs `AttachedOnce`.

### Records (`RecordProofs`)

* `WormTypes`, `ReadsAreOfTheSave`, `LedgerIsGenuine`, `VerifyTellsReloads`, from
  `StoreInv`: `Saving` relates file, stream and the ledger being saved; what a read
  keeps of a file is a choice of its entries in order (`ReadFacts`, by induction
  along the file); `Chained` says that reloaded
  entries come first and have no chain hash and that the others have the computed
  one.
* `LastSeals` from `ChainInv`: the chain appended is well made, whatever has
  become of the other one. `Sealed` goes backwards from a common last record: a
  record holds the hash of the one before, equal hashes have equal bytes, equal
  bytes are of one record, and the genesis hash is the hash of no record, so both
  chains start at the same distance. That encoding loses a record exactly when one of
  its three parts does not fit (`ReadsBack`) is shown apart.
* `HistoryIsReplayed` from `HistoryInv`: running the actions of the first n ticks
  gives the worlds of tick n; a tick more is an action more.
* `ReceiptsSeal` from `ArtInv`: each receipt is that of a picture in the gallery.
  A hash tells bytes apart, and the first thing drawn tells the formats, and in
  the formats that draw it the scene.
* `UsesRemembered` from `ContinuityInv`: the property, with a seen nonce being
  one that has been used. One lemma per call says which is now the last call of
  its kind at its place (`Lasts`), and that no other has changed.
* `FieldsApart` from `WireInv`: the buffer holds a beginning of the text of the
  message sent. `TextLayout` says where each field lies in that text, character by
  character, and `KeysInPlace` that before the body no key stands anywhere but at
  its own field, whatever the values are made of: `KeyFound` then gives what strstr
  finds in any beginning of the text. `BodyEnds` says where the scan for the end of
  a body stops: at a quote that no backslash is before, all quotes passed having one.

### Tables and books (`AlgebraProofs`)

* `LoopsDoEnd`, `LifetimesAgree` from `RunsInv`, which says that a loop has taken
  the turns of its table and where it must have stopped. `ThreeTurns`: three turns
  of the Rust table absorb every witness but three Lambdas, which it keeps.
  `CAbsorbs`: what the C table absorbs in one turn or two, the Rust table absorbs in
  as many. The cases are those of a few glyphs, not of 216 witnesses, and budgets
  are any.
* `BooksBalanced`, `IsomorphismAlwaysHolds` from `Booked` and its parts. `WrapS` and
  `WrapU` are shown to be a function of the remainder, so that a sum may be
  wrapped at each step or once (`Total`). A panic leaves a credit without its
  debit, never two. The isomorphism needs that a ledger's delta fits
  the width, which the property does not say.
* `WasmAgrees`: from the second hop of a message on only Delta and Omega come back,
  and from the third only Omega. A frame is the wrapped sum
  of its ledgers (`ComposedIs`, `AccumulatedIs`), and a sum is the same backwards
  (`TotalTurnedRound`).
* `AlgebraAlwaysHolds`, in any dimension, from `AlgebraInv`: the matrix is one of
  integers, the elements are both zero or both given, and of the loop `LoopInv`
  says that each turn has kept what it should of the first (`KeptOf`). A sum over
  coordinates is the last of its partial sums, which exist (`SumExists`); by
  induction on them sums are linear, a sum over rows and columns may be taken in
  either order (`SumSwap`), and a sum of squares is zero for zeros only. With that:
    - products of matrices associate (`MultAssoc`) and distribute, the transpose turns them
      round, and a trace does not see their order;
    - a matrix of pairs a + b g is two matrices of integers, and a turn moves each
      half by u r u', before the two are mixed by g. An orthogonal u has u u' = 1;
      that then u' u = 1, which the trace needs, is no ring law: 1 - u' u
      is symmetric and its own square, so the sum of its squared entries is its
      trace, which is zero (`LeftIsRight`). A turn keeps symmetry, and with
      u u = 1 it keeps the sum of a matrix and its image;
    - products of two elements x and y of the spin factor stay of the form
      p + q x + r y in their vectors (`Combined`), so each law of the Jordan product is one
      between polynomials in p, q, r and three dot products;
    - powers of one matrix commute, so the idempotent the search finds commutes with the matrix;
      what is the first such power is the least place of a set;
    - a pair of idempotents that adds up to one and is orthogonal takes each coordinate
      from one of the two; in dimension two it decomposes every vector if neither is zero.

### What is only model-checked

* The liveness of `bus_returns`: liveness under fairness and `ENABLED` are out of
  the prover's reach.

Every other property of a run that passes is stated by a theorem.

## 5. Where the code and its texts differ

`PROJECT.json` lists under `findings` those a run shows: the state bytes of the
ABI; records with `accepted` above 1, which the kernel commits without their
flags; ledgers that do not verify after a reload; saves that return 1 and are not
on disk; Lean-to-Agda obligations, whose source is looked up among the HOL artifacts and never found;
the two predicates of `nand.h`, of which the first leaves out an inversion and
answers "approval and not both of the others", and the second inverts its last
flag once more than its header says.

Seen while reading, without a run of their own:

* `hk_bus_route` returns -1 also for a subscriber whose queue is full
  (`hyperkitty_bus.c:405`), where `hyperkitty_bus.h:90` has "-1 if no subscriber
  found".
* `hk_qra_token_lifetime` returns the index of the turn (`routing_tensor.c:184`),
  one less than the "number of evolution steps" of `qra.h:81`.
* The "append-only ledger" of `worm_storage.c:4` is a file that each save empties
  before it writes (`worm_storage.c:290`).
* `reconciliation.rs` uses `validity_decision` after moving it into the call and
  so does not compile as it stands; `validate_correspondence` of
  `xslt_processor.rs` borrows its obligations mutably and moves them after
  consuming them. The models follow their evident meaning. The ABI size constant
  says 88 bytes for a record of 64. Headers of the C part define types again.
* `hyperkitty-ast/src/weights.rs`: the two arms of `edge_weight` are exchanged
  with respect to their comments, and the test `structural_can_reach_payload`
  expects 0.1 where the code gives 0.5.
* `constraint_dsl.c`: a component that is NaN passes the comparison of invariants.
* `hyperkitty-constraints/src/lib.rs` says that `compile` looks for duplicates and
  valid names; it does not.
* `regex_parser.c`: the last danger pattern uses a look-ahead, which POSIX does
  not have, so it never compiles and never matches; keywords are cut by length;
  the 1025th token and all after it are dropped and the answer is OK.
* `hyperkitty-parser` accepts a string without its closing quote and drops
  characters it does not know.
* `jacobian_lens.c`: a column is dead unless a weight in it exceeds 1, so no graph
  made of a syntax tree is invertible. `jordan_transformer.c`: `qr_iterate` never
  changes its matrix; the Gershgorin radius is that of the rows alone; the gap is
  the whole radius when the largest eigenvalue is a double one.
* `Tick::verify` and `verify_all_ticks` say yes to anything, and a tick's receipt
  does not cover its worlds.
* `qra_to_sla` is not the inverse of `sla_to_qra`, and any 24 bytes decode to a
  balanced ledger. Agent 0, where absorbed messages end, has the glyph Pi.
* `hyperkitty-art`: groups are offset twice in SVG, the canvas leaves out points
  and labels, and verifying a receipt compares neither name nor format.
* `master_pipeline.c` hands a null output to `printf` when both allocations of
  the output fail.

## 6. Not modelled

* The socket mode of the bus and `hk_bus_get_stats`: a descriptor nobody accepts
  on, and reads.
* Signing, verifying, roles and inode flags of Magma and Continuity: functions
  that answer the same to anything.
* Rounding and square roots: the numeric code is modelled where it is exact. The
  norms, `v_hat`, the topology table and convergence rates are left out.
* `hk_ast_node_free`: the code has no caller that frees part of a tree, and a node
  attached twice would be freed twice.
* Byte layouts, formatting, printing and timestamps; web pages; crates of a
  version constant; files no `lib.rs` lists; the Lean, Agda, HOL, OCaml and XML
  texts, which are about the system and not part of it.
* Composition of the tick runtime with the chain, and of the pipelines with bus
  and kernel: no code joins them, so a model of it would be invented.
