-------------------------- MODULE RoutingPipeline --------------------------
(***************************************************************************)
(* The Rust routing pipeline (hyperkitty-routing): eleven stages, each of  *)
(* which hands the state on or ends the call with an error; and the        *)
(* Dispatcher, a counter of executions that outlives the calls.  Of an     *)
(* input only the number of its tokens matters.                            *)
(***************************************************************************)
EXTENDS Naturals, Sequences, FiniteSets, SequencesExt, Functions

CONSTANTS MaxTokens,   \* bound on the tokens of an input
          MaxExecuted  \* bound on the dispatcher's counter
ASSUME RoutingBounds == MaxTokens \in Nat /\ MaxExecuted \in Nat

VARIABLES route,           \* the PipelineState of the call that runs, or its result
          execution_count, \* of the Dispatcher
          batch            \* the answer of the last dispatch
routeVars == <<route, execution_count, batch>>

Ok(v)  == [ok |-> v, err |-> ""]
Err(e) == [ok |-> <<>>, err |-> e]
Min2(a, b) == IF a < b THEN a ELSE b

\* RoutingNode::new enables a node of positive weight; set_enabled may undo it.
\* A weight is a fraction, as numerator and denominator.
RoutingNode(id, name, num, den) ==
  [id |-> id, name |-> name, num |-> num, den |-> den, enabled |-> num > 0]
execute(node)  == IF node.enabled THEN Ok(<<node.name, node.num, node.den>>) ELSE Err("InvalidRoute")
is_valid(node) == node.enabled /\ node.num > 0 /\ node.name # ""

(***************************************************************************)
(* process                                                                 *)
(***************************************************************************)
At(n)    == route.stage = n
Go(next) == route' = [next EXCEPT !.stage = @ + 1] /\ UNCHANGED <<execution_count, batch>>
Fail(e)  == route' = [route EXCEPT !.stage = 12, !.merged = Err(e)]
            /\ UNCHANGED <<execution_count, batch>>
Empty == [stage |-> 12, tokens |-> 0, built |-> {}, activation |-> <<>>, nodes |-> <<>>,
          filtered |-> <<>>, results |-> <<>>, merged |-> Err("none yet")]

RoutingInit == route = Empty /\ execution_count = 0 /\ batch = Err("none yet")

\* route_message; route_with_dispatcher is the same call, the dispatcher unused.
Process == /\ At(12)
           /\ \E n \in 0 .. MaxTokens : Go([Empty EXCEPT !.stage = 0, !.tokens = n])
stage_regex_parser ==
  At(1) /\ IF route.tokens = 0 THEN Fail("empty_token_stream") ELSE Go(route)
\* ASTBuilder, SymbolicGraph, JordanTransformer, JacobianLens.
Builds == <<"ast", "graph", "jordan", "jacobian">>
stage_build == route.stage \in 2 .. 5 /\ Go([route EXCEPT !.built = @ \cup {Builds[route.stage - 1]}])
stage_constraint_eval ==
  At(6) /\ IF route.tokens > 0 /\ {"ast", "graph", "jordan"} \subseteq route.built
           THEN Go(route) ELSE Fail("constraint_violation")
stage_sparse_activation ==
  At(7) /\ LET ids == [k \in 1 .. Min2(route.tokens, 5) |-> (k - 1) * 1000 + route.tokens]
           IN IF ids = <<>> THEN Fail("NoValidRoutes") ELSE Go([route EXCEPT !.activation = ids])
stage_routing_nodes ==
  At(8) /\ LET nodes == [k \in DOMAIN route.activation |->
                          RoutingNode(route.activation[k], <<"route", k - 1>>, 1, k)]
           IN IF nodes = <<>> THEN Fail("NoValidRoutes") ELSE Go([route EXCEPT !.nodes = nodes])
\* Mutant: another threshold.
X_HeavyEnough(node) == 10 * node.num > 4 * node.den
HeavyEnough(node) == 10 * node.num > 3 * node.den  \* weight > 0.3
KeepHeavy(kept, node) == IF HeavyEnough(node) THEN Append(kept, node) ELSE kept
stage_nand_filter ==
  At(9) /\ LET kept == FoldLeft(KeepHeavy, <<>>, route.nodes)
           IN IF kept = <<>> THEN Fail("NoValidRoutes") ELSE Go([route EXCEPT !.filtered = kept])
\* Results are inserted in order: of two nodes with one id the later stays.
LastWith(nodes, id) == CHOOSE n \in ToSet(nodes) :
  \E k \in DOMAIN nodes : nodes[k] = n /\ n.id = id /\ \A j \in k + 1 .. Len(nodes) : nodes[j].id # id
ById(nodes) == [id \in {n.id : n \in ToSet(nodes)} |-> execute(LastWith(nodes, id))]
stage_agent_dispatch ==
  At(10) /\ LET results == ById(route.filtered)
            IN IF DOMAIN results = {} THEN Fail("no_dispatch_results")
               ELSE Go([route EXCEPT !.results = results])
\* The results are joined in the order of a HashMap, which is any order.
stage_merge_output ==
  At(11) /\ \E order \in SetToSeqs(DOMAIN route.results) :
              Go([route EXCEPT !.merged = Ok([k \in DOMAIN order |-> <<order[k], route.results[order[k]]>>])])

(***************************************************************************)
(* Dispatcher                                                              *)
(***************************************************************************)
dispatch(id, message) ==
  /\ execution_count < MaxExecuted
  /\ IF message = "" THEN batch' = Err("empty_message") /\ UNCHANGED execution_count
     ELSE /\ execution_count' = execution_count + 1
          /\ batch' = Ok([n \in {id} |-> execution_count + 1])
  /\ UNCHANGED route
\* Of two valid nodes with one id the later one's number stays.
Numbered(nodes, valid) ==
  LET last(id) == CHOOSE k \in valid : nodes[k].id = id /\ \A j \in valid : nodes[j].id = id => j <= k
  IN [id \in {nodes[k].id : k \in valid} |->
        execution_count + Cardinality({j \in valid : j <= last(id)})]
\* Mutant: nodes count that are not executed.
X_dispatch_batch(nodes, message) ==
  LET valid == {k \in DOMAIN nodes : is_valid(nodes[k])} IN
  /\ execution_count + Len(nodes) <= MaxExecuted
  /\ execution_count' = execution_count + Len(nodes)
  /\ batch' = IF valid = {} \/ message = "" THEN Err("NoValidRoutes") ELSE Ok(Numbered(nodes, valid))
  /\ UNCHANGED route
\* The valid nodes are executed in their order, each with the next number.
dispatch_batch(nodes, message) ==
  LET valid == {k \in DOMAIN nodes : is_valid(nodes[k])} IN
  /\ execution_count + Len(nodes) <= MaxExecuted
  /\ IF nodes = <<>> \/ message = ""
     THEN /\ batch' = Err(IF nodes = <<>> THEN "NoValidRoutes" ELSE "empty_message")
          /\ UNCHANGED execution_count
     ELSE /\ execution_count' = execution_count + Cardinality(valid)
          /\ batch' = IF valid = {} THEN Err("NoValidRoutes") ELSE Ok(Numbered(nodes, valid))
  /\ UNCHANGED route
reset == execution_count' = 0 /\ UNCHANGED <<route, batch>>

\* Nodes callers make: two ids, of positive weight or none, perhaps switched off.
SomeNodes == {[RoutingNode(id, name, num, 2) EXCEPT !.enabled = @ /\ on] :
                id \in {1, 2}, name \in {"", "n"}, num \in {0, 1}, on \in BOOLEAN}

RoutingNext ==
  \/ Process \/ stage_regex_parser \/ stage_build \/ stage_constraint_eval
  \/ stage_sparse_activation \/ stage_routing_nodes \/ stage_nand_filter
  \/ stage_agent_dispatch \/ stage_merge_output
  \/ At(12) /\ \E id \in {1, 2}, m \in {"", "m"} : dispatch(id, m)
  \/ At(12) /\ \E m \in {"", "m"}, nodes \in UNION {[1 .. k -> SomeNodes] : k \in 0 .. 2} :
                 dispatch_batch(nodes, m)
  \/ At(12) /\ reset
RoutingSpec == RoutingInit /\ [][RoutingNext]_routeVars

(***************************************************************************)
(* Property                                                                *)
(***************************************************************************)

\* Five later stages can fail a message, yet only an input without tokens
\* fails.  Any other is answered by the first three routes it has tokens for,
\* each once, under an id of its own and with a result, never an error; the
\* order they come in is the map's.
EveryRouteAnswersOnce ==
  At(12) /\ route # Empty =>
    IF route.tokens = 0 THEN route.merged = Err("empty_token_stream")
    ELSE LET answers == route.merged.ok IN
         /\ route.merged.err = "" /\ Len(answers) = Min2(route.tokens, 3)
         /\ ToSet(answers) = {<<(k - 1) * 1000 + route.tokens, Ok(<<<<"route", k - 1>>, 1, k>>)>> :
                                k \in 1 .. Min2(route.tokens, 3)}

\* However batches, single dispatches, failures and nodes that share an id mix,
\* the execution numbers of an answer are new, distinct and all counted, and
\* a call that fails has executed nothing.
DispatchesAreCounted ==
  [][batch' # batch =>
       LET numbers == batch'.ok IN
       /\ batch'.err # "" => execution_count' = execution_count
       /\ \A i \in DOMAIN numbers : numbers[i] \in execution_count + 1 .. execution_count'
       /\ \A i, j \in DOMAIN numbers : numbers[i] = numbers[j] => i = j
    ]_routeVars
=============================================================================
