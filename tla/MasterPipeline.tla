--------------------------- MODULE MasterPipeline ---------------------------
(***************************************************************************)
(* hk_routing_pipeline_execute of master_pipeline.c: ten stages over one   *)
(* heap-allocated PipelineState, then the receipt.  A rejected message     *)
(* still visits every stage; each stage looks for itself whether the state *)
(* is still valid.  Any allocation may fail.                               *)
(***************************************************************************)
EXTENDS Naturals, FiniteSets, SequencesExt

CONSTANTS Inputs,    \* the inputs, NULL among them
          Dangerous, \* those that hold one of the nine patterns
          NULL,
          NExperts   \* width of the mask, 32 in the code
ASSUME MasterBounds == Dangerous \subseteq Inputs \ {NULL} /\ NExperts \in Nat

VARIABLES ps,      \* the PipelineState, or NULL
          blocks,  \* the allocations that are live
          receipt  \* what the last call answered, or NULL before one has
masterVars == <<ps, blocks, receipt>>

Mask == 0 .. NExperts - 1

MasterInit == ps = NULL /\ blocks = {} /\ receipt = NULL

Refused(status, error) ==
  [status |-> status, error |-> error, output |-> NULL, mask |-> {}, hash |-> NULL]

pipeline_state_alloc(input) ==
  /\ ps = NULL /\ input # NULL
  /\ ps' = [stage |-> 0, input |-> input, valid |-> TRUE, ok |-> TRUE,
            output |-> NULL, mask |-> Mask]
  /\ blocks' = {"state"}  \* the caller has freed the output of an earlier call
  /\ receipt' = NULL
HK_PIPELINE_ERROR(input) ==
  /\ ps = NULL
  /\ receipt' = Refused("ERROR", IF input = NULL THEN "null_input" ELSE "alloc_failed")
  /\ blocks' = {} /\ UNCHANGED ps

\* What a stage makes of a valid state; it refuses an invalid one untouched.
Enter(n) == ps # NULL /\ ps.stage = n - 1
Stage(n, outcomes) ==
  /\ Enter(n)
  /\ \E s \in IF ps.valid THEN outcomes ELSE {[ps EXCEPT !.ok = FALSE]} :
       /\ ps' = [s EXCEPT !.stage = n]
       /\ blocks' = blocks \cup (IF s.output = NULL THEN {} ELSE {"output"})
  /\ UNCHANGED receipt

stage1_parser ==
  Stage(1, {IF ps.input \in Dangerous THEN [ps EXCEPT !.valid = FALSE, !.ok = FALSE] ELSE ps})
\* Syntax tree, graph, Jordan form, Jacobian and activation look at nothing else.
StubStage == \E n \in 2 .. 5 \cup {7} : Stage(n, {ps})
stage6_constraints == Stage(6, {[ps EXCEPT !.mask = Mask]})

\* Each expert still in the mask removes those above it that it conflicts with.
ConflictPair(i, j) == i % 3 = j % 3
SuppressAbove(mask, i) ==
  IF i \in mask THEN {j \in mask : j > i => ~ConflictPair(i, j)} ELSE mask
Filtered(mask) == FoldLeft(SuppressAbove, mask, [k \in 1 .. NExperts |-> k - 1])
stage8_nand == Stage(8, {[ps EXCEPT !.mask = Filtered(ps.mask)]})

\* malloc and strdup may fail; a state without output goes on all the same.
stage9_dispatch ==
  Stage(9, {[ps EXCEPT !.output = <<"executed", Cardinality(ps.mask)>>], ps})
stage10_merge ==
  Stage(10, IF ps.output = NULL THEN {[ps EXCEPT !.output = <<"merged">>], ps} ELSE {ps})

Reject ==
  /\ Enter(11) /\ ~(ps.ok /\ ps.valid)
  /\ receipt' = Refused("REJECTED", "stage_failed")
  /\ ps' = NULL /\ blocks' = {}       \* pipeline_state_free: the output goes too
\* Mutant: the output is freed with the state.
X_Accept ==
  /\ Enter(11) /\ ps.ok /\ ps.valid
  /\ receipt' = [status |-> "OK", error |-> NULL, output |-> ps.output,
                 mask |-> ps.mask, hash |-> <<"hash", ps.output>>]
  /\ ps' = NULL /\ blocks' = {}
Accept ==
  /\ Enter(11) /\ ps.ok /\ ps.valid
  /\ receipt' = [status |-> "OK", error |-> NULL, output |-> ps.output,
                 mask |-> ps.mask, hash |-> <<"hash", ps.output>>]
  /\ ps' = NULL /\ blocks' = blocks \ {"state"}  \* the output is now the caller's

MasterNext ==
  \/ \E input \in Inputs : pipeline_state_alloc(input) \/ HK_PIPELINE_ERROR(input)
  \/ stage1_parser \/ StubStage \/ stage6_constraints \/ stage8_nand
  \/ stage9_dispatch \/ stage10_merge \/ Reject \/ Accept
MasterSpec == MasterInit /\ [][MasterNext]_masterVars

(***************************************************************************)
(* Property                                                                *)
(***************************************************************************)

\* A message with a dangerous pattern goes through all ten stages without one
\* of them undoing the rejection or allocating for it.  A receipt holds the
\* one block that is left, OK names as many experts as were executed, no two
\* of them in conflict and none missing that could have stayed, and every
\* other receipt carries nothing.
ReceiptOwnsTheOutput ==
  /\ receipt # NULL =>
       /\ blocks = IF receipt.output = NULL THEN {} ELSE {"output"}
       /\ receipt.status # "OK" => receipt.output = NULL /\ receipt.mask = {}
       /\ receipt.status = "OK" =>
            /\ receipt.hash = <<"hash", receipt.output>>
            /\ receipt.output \in {NULL, <<"merged">>, <<"executed", Cardinality(receipt.mask)>>}
            /\ \A i \in Mask : i \in receipt.mask <=>
                 \A j \in receipt.mask \ {i} : j < i => ~ConflictPair(i, j)
  /\ ps # NULL =>
       /\ ps.stage > 0 => (ps.valid <=> ps.input \notin Dangerous) /\ (ps.ok <=> ps.valid)
       /\ ~ps.valid => blocks = {"state"}
=============================================================================
