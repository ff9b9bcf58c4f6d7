------------------------------ MODULE MCEngines ------------------------------
(***************************************************************************)
(* The engines beside the routing core, small enough for TLC.  They share  *)
(* no state and never call each other while they run, so a behaviour       *)
(* drives one of them, its "part", and the others stay as they are.        *)
(***************************************************************************)
EXTENDS ConstraintParser, FormalizationMachine, EREGates, NandFilter, NandGates,
        InvertedAst, MasterPipeline, RoutingPipeline, ConstraintGate, WasmCalls,
        WormChain, RuntimeTicks, DensityLoop, RegexParser, ConstraintLexers, ArtReceipts,
        WitnessRuns, WireCodec, Continuity

VARIABLE part

EnginesVars == <<part, parserVars, fmVars, ereVars, nandVars, gateVars, astVars, masterVars,
                 routeVars, ctxVars, ledgerVars, wasmVars, chainVars, tickVars, kernelVars,
                 densityVars, regexVars, lexVars, artVars, runVars, wireVars, continuityVars>>

Engines == {"parser", "formalization", "ere", "nand", "gates", "ast", "master", "routing",
            "context", "ledger", "wasm", "chain", "ticks", "kernels", "density", "regex",
            "lexers", "art", "witness", "wire", "continuity"}
Driven(p, init, idle) == IF part = p THEN init ELSE idle

\* An engine that starts in one of several states waits in one of them.
EnginesInit ==
  /\ part \in Engines
  /\ ParserInit /\ FMInit /\ EREInit /\ AstInit /\ MasterInit /\ RoutingInit /\ ContextInit
  /\ WasmInit /\ ChainInit /\ TicksInit /\ KernelInit /\ DensityInit /\ RegexInit /\ LexInit
  /\ WireInit /\ ContinuityInit
  /\ Driven("witness", RunsInit,
            fn = "exhaust" /\ budget = 0 /\ states = <<<<Omega, Omega, Omega>>>> /\ result = NoResult)
  /\ Driven("nand", NandInit, activations = <<>> /\ conflicts = {} /\ pending = {} /\ suppressed = {})
  /\ Driven("gates", GatesInit,
            expr = Const(TRUE) /\ ops = 0 /\ meaning = [s \in Assignments |-> TRUE])
  /\ Driven("ledger", LedgerInit,
            ledger = NewLedger(0, 0, 0) /\ sum = NewSum /\ accepted = <<>> /\ panicked = FALSE)
  /\ Driven("art", ArtInit,
            pipeline = NewPipeline([kind |-> "QLGSphere", name |-> "QLG Sphere"])
            /\ gallery = {} /\ kept = {})

Keep(p, v) == IF part = p THEN TRUE ELSE UNCHANGED v
OthersWait ==
  /\ UNCHANGED part
  /\ Keep("parser", parserVars) /\ Keep("formalization", fmVars) /\ Keep("ere", ereVars)
  /\ Keep("nand", nandVars) /\ Keep("gates", gateVars) /\ Keep("ast", astVars)
  /\ Keep("master", masterVars) /\ Keep("routing", routeVars) /\ Keep("context", ctxVars)
  /\ Keep("ledger", ledgerVars) /\ Keep("wasm", wasmVars) /\ Keep("chain", chainVars)
  /\ Keep("ticks", tickVars) /\ Keep("kernels", kernelVars) /\ Keep("density", densityVars)
  /\ Keep("regex", regexVars) /\ Keep("lexers", lexVars) /\ Keep("art", artVars)
  /\ Keep("witness", runVars) /\ Keep("wire", wireVars) /\ Keep("continuity", continuityVars)
EnginesNext ==
  /\ \/ part = "parser" /\ ParserNext
     \/ part = "formalization" /\ FMNext
     \/ part = "ere" /\ ERENext
     \/ part = "nand" /\ NandNext
     \/ part = "gates" /\ GatesNext
     \/ part = "ast" /\ AstNext
     \/ part = "master" /\ MasterNext
     \/ part = "routing" /\ RoutingNext
     \/ part = "context" /\ ContextNext
     \/ part = "ledger" /\ LedgerNext
     \/ part = "wasm" /\ WasmNext
     \/ part = "chain" /\ ChainNext
     \/ part = "ticks" /\ TicksNext
     \/ part = "kernels" /\ KernelNext
     \/ part = "density" /\ DensityNext
     \/ part = "regex" /\ RegexNext
     \/ part = "lexers" /\ LexNext
     \/ part = "art" /\ ArtNext
     \/ part = "witness" /\ RunsNext
     \/ part = "wire" /\ WireNext
     \/ part = "continuity" /\ ContinuityNext
  /\ OthersWait
EnginesSpec == EnginesInit /\ [][EnginesNext]_EnginesVars

(***************************************************************************)
(* Values of the constants                                                 *)
(***************************************************************************)
MCRegistries == {ParityPairs, {<<1, 0>>, <<1, 2>>, <<2, 2>>}, {<<0, 1>>, <<0, 2>>, <<1, 2>>}}

NoAddress == [scheme |-> "none", host |-> "other", ends |-> TRUE]
MCMarks == {{}, {"aws"}, {"comment", "js eval"}, {"js eval"}, {"comment"}, {"while(true)"},
            {"loop {"}, {"loop {", "break"}, {"return"}, {"1x1"}, {"gif"}, {"sendBeacon"}}
MCAddresses == {[scheme |-> "http", host |-> "allowed", ends |-> TRUE],
                [scheme |-> "http", host |-> "other", ends |-> TRUE],
                [scheme |-> "http", host |-> "other", ends |-> FALSE],
                [scheme |-> "https", host |-> "other", ends |-> TRUE]}
MCLines == {[marks |-> k, address |-> NoAddress] : k \in MCMarks}
           \cup {[marks |-> {}, address |-> a] : a \in MCAddresses}

MCInputs == {"clean", "bad", NULL}
MCAmounts == {-8, -3, 3}
MCEvents == {<<>>, <<0>>, <<1, 1>>}
MCParts  == {<<0>>, <<0, 0>>}
MCAgents == 0 .. 15 \cup {255}
MCScalars == {-1, 0, 1}
MCEntries == {-1, 0, 1, 2}
MCUnitaries == {<<<<0, 1>>, <<1, 0>>>>, <<<<0, -1>>, <<1, 0>>>>, <<<<1, 1>>, <<0, 1>>>>}

MCCompiles == 1 .. 16
MCTexts == {[text |-> t, matches |-> {}] :
              t \in UNION {[1 .. n -> {"i", "f", "7", " ", "\"", "\\", "+", "?"}] : n \in 0 .. 4}}
           \cup {[text |-> <<"x">>, matches |-> m] : m \in SUBSET {1, 5, 15, 16, 17}}
MCTyped == {"newline", " ", "#", "(", "=", ">", "\"", "\\", "n", "7", "@"}
MCKeywords == {<<"n">>}
MCInt64Numbers == {<<"7">>, <<"7", "7">>}
MCHeads    == {<<>>, <<"a">>, <<"from">>, <<"from", ":">>, <<",">>, <<"\\">>, <<"quote">>}
MCBodies   == UNION {[1 .. n -> {"a", "\\", "quote"}] : n \in 0 .. 3}
MCMessages ==
  {[type |-> t, from |-> f, to |-> x, topic |-> <<"to">>, corr |-> <<"7", "8">>, body |-> <<"a">>] :
     t \in MCHeads, f \in {<<"a">>, <<"topic">>}, x \in {<<>>, <<"topic">>}}
  \cup {[type |-> <<"a">>, from |-> <<>>, to |-> <<>>, topic |-> <<"body">>, corr |-> <<"7">>, body |-> b] :
          b \in MCBodies}
MCTheorems == {qlg_sphere, sla_balance, qra_identity, witness_exhaustion, jordan_commutativity,
               nand_completeness, TheoremAst("QLGSphere", "QLG Sphere", <<>>),
               TheoremAst("Custom", "SLA Balance", <<>>)}
=============================================================================
