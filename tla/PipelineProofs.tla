--------------------------- MODULE PipelineProofs ---------------------------
(***************************************************************************)
(* What the three pipelines keep, for every value of the constants: the    *)
(* twelve stages of the master pipeline, the twelve of a route with its    *)
(* dispatcher, the tokens the regex parser makes of a text and those the   *)
(* lexers of the constraint language make of its lines, and the inverted   *)
(* tree the second stage is meant to build.                                *)
(***************************************************************************)
EXTENDS MasterPipeline, RoutingPipeline, RegexParser, InvertedAst, ConstraintLexers,
        InductionLemmas

(***************************************************************************)
(* The master pipeline. The invariant says, stage by stage, what the state *)
(* already holds: the mask is the filtered one from the seventh stage on,  *)
(* the output is that mask's from the tenth, and a rejection never becomes *)
(* an execution.                                                           *)
(***************************************************************************)

NoConflictIn(kept, n) ==
  \A j \in Mask : j \in kept <=> \A i \in kept : i < j /\ i < n => ~ConflictPair(i, j)

\* Filtering is a fold over the experts, in their order.
LEMMA FilteredSteps ==
  \E g : /\ g[1 .. 0] = Mask /\ Filtered(Mask) = g[1 .. NExperts]
         /\ \A n \in 1 .. NExperts : g[1 .. n] = SuppressAbove(g[1 .. n - 1], n - 1)
<1> DEFINE ids == [k \in 1 .. NExperts |-> k - 1]
           G == [n \in 1 .. NExperts |-> [m \in SUBSET Mask |-> SuppressAbove(m, n - 1)]]
           IsFold(f) == f = [s \in SUBSET (1 .. NExperts) |->
                               IF s = {} THEN Mask ELSE SuppressAbove(f[s \ {Max(s)}], ids[Max(s)])]
<1>0. NExperts \in Nat /\ DOMAIN ids = 1 .. NExperts
  BY MasterBounds
<1>1. PICK g : Folds(g, NExperts, Mask, G)
  <2> HIDE DEF G
  <2> QED BY <1>0, FoldExists
<1>2. \A s \in SUBSET (1 .. NExperts) : g[s] \in SUBSET Mask
  <2>1. \A n \in 1 .. NExperts, x \in SUBSET Mask : G[n][x] \in SUBSET Mask
    BY DEF SuppressAbove
  <2> HIDE DEF G
  <2> QED BY <1>0, <1>1, <2>1, FoldTypes
<1>3. IsFold(g)
  <2>1. ASSUME NEW s \in SUBSET (1 .. NExperts), s # {}
        PROVE  G[Max(s)][g[s \ {Max(s)}]] = SuppressAbove(g[s \ {Max(s)}], ids[Max(s)])
    <3>1. Max(s) \in 1 .. NExperts
      BY <1>0, <2>1, LastOfPlaces
    <3> QED BY <3>1, <1>2
  <2> HIDE DEF G, ids
  <2> QED BY <1>1, <2>1 DEF Folds
<1>4. Filtered(Mask) = (CHOOSE f : IsFold(f))[1 .. NExperts]
  BY <1>0 DEF Filtered, FoldLeft, MapThenFoldSet
<1> DEFINE f == CHOOSE f : IsFold(f)
<1>5. IsFold(f)
  <2> HIDE DEF IsFold
  <2> QED BY <1>3
<1> HIDE DEF f
<1>6. f[1 .. 0] = Mask
  <2>1. 1 .. 0 = {} /\ {} \in SUBSET (1 .. NExperts)
    OBVIOUS
  <2> QED BY <1>5, <2>1
<1>7. ASSUME NEW n \in 1 .. NExperts
      PROVE  f[1 .. n] = SuppressAbove(f[1 .. n - 1], n - 1)
  <2>1. n \in Nat /\ n # 0 /\ 1 .. n \in SUBSET (1 .. NExperts) /\ ids[n] = n - 1
    BY <1>0
  <2>2. Max(1 .. n) = n /\ (1 .. n) \ {n} = 1 .. n - 1 /\ 1 .. n # {}
    BY <2>1, LastOfFirst
  <2> QED BY <1>5, <2>1, <2>2
<1>8. Filtered(Mask) = f[1 .. NExperts]
  BY <1>4 DEF f
<1> QED BY <1>6, <1>7, <1>8

\* The experts that are left are exactly those no expert left below them
\* conflicts with.
LEMMA FilteredIsExact ==
  Filtered(Mask) \subseteq Mask /\ NoConflictIn(Filtered(Mask), NExperts)
<1>1. PICK g : /\ g[1 .. 0] = Mask /\ Filtered(Mask) = g[1 .. NExperts]
               /\ \A n \in 1 .. NExperts : g[1 .. n] = SuppressAbove(g[1 .. n - 1], n - 1)
  BY FilteredSteps
<1>0. NExperts \in Nat /\ Mask = 0 .. NExperts - 1
  BY MasterBounds DEF Mask
<1> DEFINE S == {n \in 0 .. NExperts : g[1 .. n] \subseteq Mask /\ NoConflictIn(g[1 .. n], n)}
<1>2. 0 \in S
  BY <1>0, <1>1 DEF NoConflictIn
<1>3. ASSUME NEW n \in 0 .. NExperts - 1, n \in S PROVE n + 1 \in S
  <2> DEFINE A == g[1 .. n]
             B == g[1 .. n + 1]
  <2>1. n + 1 \in 1 .. NExperts /\ (n + 1) - 1 = n /\ n \in Mask
    BY <1>0
  <2>2. B = SuppressAbove(A, n)
    BY <1>1, <2>1
  <2>3. A \subseteq Mask /\ NoConflictIn(A, n)
    BY <1>3
  <2> HIDE DEF A, B
  <2>4. B \subseteq Mask
    BY <2>2, <2>3 DEF SuppressAbove
  <2>5. \A i \in Mask : i < n + 1 => (i \in B <=> i \in A)
    BY <1>0, <2>1, <2>2 DEF SuppressAbove
  <2>6. \A j \in Mask : j \in B <=> j \in A /\ (n \in A /\ n < j => ~ConflictPair(n, j))
    BY <1>0, <2>1, <2>2 DEF SuppressAbove
  <2>7. NoConflictIn(B, n + 1)
    <3> SUFFICES ASSUME NEW j \in Mask
                 PROVE  j \in B <=> \A i \in B : i < j /\ i < n + 1 => ~ConflictPair(i, j)
      BY DEF NoConflictIn
    <3>1. j \in A <=> \A i \in A : i < j /\ i < n => ~ConflictPair(i, j)
      BY <2>3 DEF NoConflictIn
    <3>2. \A i \in Mask : i < n + 1 <=> i < n \/ i = n
      BY <1>0, <2>1
    <3>3. (\A i \in B : i < j /\ i < n + 1 => ~ConflictPair(i, j))
            <=> /\ \A i \in A : i < j /\ i < n => ~ConflictPair(i, j)
                /\ n \in A /\ n < j => ~ConflictPair(n, j)
      <4> HIDE DEF ConflictPair
      <4> QED BY <2>1, <2>3, <2>4, <2>5, <3>2
    <3> QED BY <2>6, <3>1, <3>3
  <2> QED BY <2>1, <2>4, <2>7 DEF B
<1>4. \A n \in 0 .. NExperts : n \in S
  <2> HIDE DEF S
  <2> QED BY <1>0, <1>2, <1>3, UpTo
<1> QED BY <1>0, <1>1, <1>4

(***************************************************************************)
(* The invariant: what the state and the heap look like behind each stage. *)
(***************************************************************************)
Outputs == {NULL, <<"merged">>} \cup {<<"executed", Cardinality(m)>> : m \in SUBSET Mask}
PipelineStates == [stage : 0 .. 10, input : Inputs, valid : BOOLEAN, ok : BOOLEAN,
           output : Outputs, mask : SUBSET Mask]

\* A rejection stays, and nothing is allocated for it.
RejectionStays ==
  /\ ps.stage = 0 => ps.valid /\ ps.ok
  /\ ps.stage > 0 => (ps.valid <=> ps.input \notin Dangerous) /\ (ps.ok <=> ps.valid)
  /\ ~ps.valid => ps.output = NULL
\* The mask is whole until the filter, and what the filter leaves from then on.
MaskIsFiltered ==
  /\ ps.stage < 8 => ps.mask = Mask
  /\ ps.stage >= 8 /\ ps.valid => ps.mask = Filtered(Mask)
OutputIsDispatched ==
  /\ ps.stage < 9 => ps.output = NULL
  /\ ps.output \in {NULL, <<"merged">>, <<"executed", Cardinality(ps.mask)>>}
InTheStages ==
  /\ ps \in PipelineStates /\ receipt = NULL
  /\ blocks = {"state"} \cup (IF ps.output = NULL THEN {} ELSE {"output"})
  /\ RejectionStays /\ MaskIsFiltered /\ OutputIsDispatched
Answered ==
  /\ blocks = IF receipt.output = NULL THEN {} ELSE {"output"}
  /\ receipt.status # "OK" => receipt.output = NULL /\ receipt.mask = {}
  /\ receipt.status = "OK" =>
       /\ receipt.hash = <<"hash", receipt.output>>
       /\ receipt.output \in {NULL, <<"merged">>, <<"executed", Cardinality(receipt.mask)>>}
       /\ receipt.mask = Filtered(Mask)
MasterInv == (ps # NULL => InTheStages) /\ (receipt # NULL => Answered)

LEMMA MasterInitInv == MasterInit => MasterInv
BY DEF MasterInit, MasterInv

\* A stage keeps the invariant when what it makes of a valid state does.
StageKeeps(n, s) ==
  /\ s \in PipelineStates /\ s.stage = ps.stage /\ s.input = ps.input
  /\ (s.ok <=> s.valid) /\ (s.valid <=> s.input \notin Dangerous)
  /\ ~s.valid => s.output = NULL
  /\ ps.output # NULL => s.output # NULL
  /\ n < 8 => s.mask = Mask
  /\ n >= 8 => s.mask = Filtered(Mask)
  /\ n < 9 => s.output = NULL
  /\ s.output \in {NULL, <<"merged">>, <<"executed", Cardinality(s.mask)>>}

LEMMA StageInv ==
  ASSUME NEW n \in 1 .. 10, NEW outcomes, MasterInv, Stage(n, outcomes),
         ps.valid => \A s \in outcomes : StageKeeps(n, s)
  PROVE  MasterInv'
<1>1. ps # NULL /\ ps.stage = n - 1 /\ InTheStages
  BY DEF Stage, Enter, MasterInv
<1>2. PICK s :
        /\ s \in IF ps.valid THEN outcomes ELSE {[ps EXCEPT !.ok = FALSE]}
        /\ ps' = [s EXCEPT !.stage = n]
        /\ blocks' = blocks \cup (IF s.output = NULL THEN {} ELSE {"output"})
  BY DEF Stage
<1>3. receipt' = NULL
  BY <1>1 DEF Stage, InTheStages
<1>4. CASE ps.valid
  <2>1. StageKeeps(n, s)
    BY <1>2, <1>4
  <2>2. ps' \in PipelineStates /\ ps'.stage = n /\ ps'.input = s.input /\ ps'.valid = s.valid
        /\ ps'.ok = s.ok /\ ps'.output = s.output /\ ps'.mask = s.mask
    BY <1>2, <2>1 DEF StageKeeps, PipelineStates
  <2>3. RejectionStays' /\ MaskIsFiltered' /\ OutputIsDispatched'
    BY <2>1, <2>2 DEF StageKeeps, RejectionStays, MaskIsFiltered, OutputIsDispatched
  <2>4. blocks' = {"state"} \cup (IF ps'.output = NULL THEN {} ELSE {"output"})
    BY <1>1, <1>2, <2>1, <2>2 DEF StageKeeps, InTheStages
  <2> QED BY <1>3, <2>2, <2>3, <2>4 DEF MasterInv, InTheStages
<1>5. CASE ~ps.valid
  <2>1. s = [ps EXCEPT !.ok = FALSE]
    BY <1>2, <1>5
  <2>2. ps' \in PipelineStates /\ ps'.stage = n /\ ps'.input = ps.input /\ ps'.valid = FALSE
        /\ ps'.ok = FALSE /\ ps'.output = ps.output /\ ps'.mask = ps.mask /\ s.output = ps.output
    <3>1. ps \in PipelineStates /\ ps.valid = FALSE
      BY <1>1, <1>5 DEF InTheStages, PipelineStates
    <3>2. ps' = [[ps EXCEPT !.ok = FALSE] EXCEPT !.stage = n]
      BY <1>2, <2>1
    <3>3. s \in PipelineStates /\ s.valid = FALSE /\ s.ok = FALSE /\ s.input = ps.input
          /\ s.output = ps.output /\ s.mask = ps.mask
      BY <2>1, <3>1 DEF PipelineStates
    <3> QED BY <1>2, <3>3 DEF PipelineStates
  <2>3. ps.output = NULL /\ ps.stage # 0 /\ ps.input \in Dangerous
    BY <1>1, <1>5 DEF InTheStages, RejectionStays, PipelineStates
  <2>4. RejectionStays' /\ MaskIsFiltered' /\ OutputIsDispatched'
    BY <1>1, <2>2, <2>3 DEF RejectionStays, MaskIsFiltered, OutputIsDispatched, InTheStages
  <2>5. blocks' = {"state"} \cup (IF ps'.output = NULL THEN {} ELSE {"output"})
    BY <1>1, <1>2, <2>2, <2>3 DEF InTheStages
  <2> QED BY <1>3, <2>2, <2>4, <2>5 DEF MasterInv, InTheStages
<1> QED BY <1>4, <1>5

LEMMA MasterNextInv == MasterInv /\ [MasterNext]_masterVars => MasterInv'
<1> SUFFICES ASSUME MasterInv, [MasterNext]_masterVars PROVE MasterInv'
  OBVIOUS
<1>0. NExperts \in Nat /\ Mask \in SUBSET Mask
  BY MasterBounds
<1>1. ASSUME NEW input \in Inputs, pipeline_state_alloc(input) PROVE MasterInv'
  <2>1. ps'.stage = 0 /\ ps'.input = input /\ ps'.valid = TRUE /\ ps'.ok = TRUE
        /\ ps'.output = NULL /\ ps'.mask = Mask /\ ps' \in PipelineStates
    BY <1>0, <1>1 DEF pipeline_state_alloc, PipelineStates, Outputs
  <2>2. receipt' = NULL /\ blocks' = {"state"}
    BY <1>1 DEF pipeline_state_alloc
  <2> QED BY <2>1, <2>2 DEF MasterInv, InTheStages, RejectionStays, MaskIsFiltered, OutputIsDispatched
<1>2. ASSUME NEW input \in Inputs, HK_PIPELINE_ERROR(input) PROVE MasterInv'
  BY <1>2 DEF HK_PIPELINE_ERROR, MasterInv, Answered, Refused
<1>3. CASE stage1_parser
  <2>1. ps # NULL /\ InTheStages /\ ps.stage = 0
    BY <1>3 DEF stage1_parser, Stage, Enter, MasterInv
  <2> DEFINE s == IF ps.input \in Dangerous THEN [ps EXCEPT !.valid = FALSE, !.ok = FALSE] ELSE ps
  <2>2. ps.valid = TRUE /\ ps.ok = TRUE /\ ps.output = NULL /\ ps.mask = Mask /\ ps \in PipelineStates
    BY <2>1 DEF InTheStages, RejectionStays, MaskIsFiltered, OutputIsDispatched, PipelineStates
  <2>3. StageKeeps(1, s)
    <3>1. CASE ps.input \in Dangerous
      <4>1. s = [ps EXCEPT !.valid = FALSE, !.ok = FALSE]
        BY <3>1
      <4>2. s \in PipelineStates /\ s.stage = ps.stage /\ s.input = ps.input /\ s.valid = FALSE
            /\ s.ok = FALSE /\ s.output = NULL /\ s.mask = Mask
        BY <2>2, <4>1 DEF PipelineStates
      <4> HIDE DEF s
      <4> QED BY <2>2, <3>1, <4>2 DEF StageKeeps
    <3>2. CASE ps.input \notin Dangerous
      BY <2>2, <3>2 DEF StageKeeps
    <3> QED BY <3>1, <3>2
  <2>4. Stage(1, {s})
    BY <1>3 DEF stage1_parser
  <2> HIDE DEF s
  <2> QED BY <2>3, <2>4, StageInv
\* The other stages leave input, validity and stage as they are.
<1>4. ASSUME ps # NULL, ps.stage # 0, ps.valid
      PROVE  /\ ps \in PipelineStates /\ ps.ok = TRUE /\ ps.valid = TRUE
             /\ ps.input \notin Dangerous /\ RejectionStays /\ MaskIsFiltered /\ OutputIsDispatched
  <2>1. InTheStages
    BY <1>4 DEF MasterInv
  <2>2. ps \in PipelineStates /\ RejectionStays /\ MaskIsFiltered /\ OutputIsDispatched
    BY <2>1 DEF InTheStages
  <2>3. ps.valid = TRUE
    BY <1>4, <2>2 DEF PipelineStates
  <2>4. ps.ok = TRUE /\ ps.input \notin Dangerous
    BY <1>4, <2>2, <2>3 DEF PipelineStates, RejectionStays
  <2> QED BY <1>4, <2>2, <2>3, <2>4
<1>5. ASSUME NEW n \in 2 .. 5 \cup {7}, Stage(n, {ps}) PROVE MasterInv'
  <2>1. n \in 2 .. 10 /\ n < 8 /\ ps # NULL /\ ps.stage = n - 1
    BY <1>5 DEF Stage, Enter
  <2>2. ASSUME ps.valid PROVE StageKeeps(n, ps)
    <3>0. /\ ps \in PipelineStates /\ ps.ok = TRUE /\ ps.valid = TRUE /\ ps.input \notin Dangerous
          /\ RejectionStays /\ MaskIsFiltered /\ OutputIsDispatched
      <4>1. ps.stage # 0
        BY <2>1
      <4> QED BY <2>1, <2>2, <4>1, <1>4
    <3> QED BY <2>1, <3>0 DEF StageKeeps, MaskIsFiltered, OutputIsDispatched
  <2> QED BY <1>5, <2>1, <2>2, StageInv
<1>6. CASE stage6_constraints
  <2> DEFINE s == [ps EXCEPT !.mask = Mask]
  <2>1. ps # NULL /\ ps.stage = 5 /\ Stage(6, {s})
    BY <1>6 DEF stage6_constraints, Stage, Enter
  <2>2. ASSUME ps.valid PROVE StageKeeps(6, s)
    <3>0. /\ ps \in PipelineStates /\ ps.ok = TRUE /\ ps.valid = TRUE /\ ps.input \notin Dangerous
          /\ RejectionStays /\ MaskIsFiltered /\ OutputIsDispatched
      <4>1. ps.stage # 0
        BY <2>1
      <4> QED BY <2>1, <2>2, <4>1, <1>4
    <3>1. ps.mask = Mask /\ ps \in PipelineStates /\ ps.stage = 5
      BY <2>1, <3>0 DEF MaskIsFiltered
    <3>2. s = ps
      BY <3>1 DEF PipelineStates
    <3> QED BY <2>1, <3>0, <3>2 DEF StageKeeps, MaskIsFiltered, OutputIsDispatched
  <2> QED BY <2>1, <2>2, StageInv
<1>7. CASE stage8_nand
  <2> DEFINE s == [ps EXCEPT !.mask = Filtered(ps.mask)]
  <2>1. ps # NULL /\ ps.stage = 7 /\ Stage(8, {s})
    BY <1>7 DEF stage8_nand, Stage, Enter
  <2>2. ASSUME ps.valid PROVE StageKeeps(8, s)
    <3>0. /\ ps \in PipelineStates /\ ps.ok = TRUE /\ ps.valid = TRUE /\ ps.input \notin Dangerous
          /\ RejectionStays /\ MaskIsFiltered /\ OutputIsDispatched
      <4>1. ps.stage # 0
        BY <2>1
      <4> QED BY <2>1, <2>2, <4>1, <1>4
    <3>1. ps.mask = Mask /\ ps \in PipelineStates /\ ps.stage = 7 /\ ps.output = NULL
          /\ ps.ok = TRUE /\ ps.valid = TRUE /\ ps.input \notin Dangerous
      BY <2>1, <3>0 DEF MaskIsFiltered, OutputIsDispatched
    <3>2. Filtered(Mask) \in SUBSET Mask
      BY FilteredIsExact
    <3>3. s \in PipelineStates /\ s.mask = Filtered(Mask) /\ s.stage = ps.stage /\ s.input = ps.input
          /\ s.valid = TRUE /\ s.ok = TRUE /\ s.output = NULL
      BY <3>1, <3>2 DEF PipelineStates
    <3> HIDE DEF s
    <3> QED BY <3>1, <3>3 DEF StageKeeps
  <2> HIDE DEF s
  <2> QED BY <2>1, <2>2, StageInv
<1>8. CASE stage9_dispatch
  <2> DEFINE s == [ps EXCEPT !.output = <<"executed", Cardinality(ps.mask)>>]
  <2>1. ps # NULL /\ ps.stage = 8 /\ Stage(9, {s, ps})
    BY <1>8 DEF stage9_dispatch, Stage, Enter
  <2>2. ASSUME ps.valid PROVE StageKeeps(9, s) /\ StageKeeps(9, ps)
    <3>0. /\ ps \in PipelineStates /\ ps.ok = TRUE /\ ps.valid = TRUE /\ ps.input \notin Dangerous
          /\ RejectionStays /\ MaskIsFiltered /\ OutputIsDispatched
      <4>1. ps.stage # 0
        BY <2>1
      <4> QED BY <2>1, <2>2, <4>1, <1>4
    <3>1. ps.mask = Filtered(Mask) /\ ps \in PipelineStates /\ ps.stage = 8 /\ ps.output = NULL
          /\ ps.ok = TRUE /\ ps.valid = TRUE /\ ps.input \notin Dangerous
      BY <2>1, <3>0 DEF MaskIsFiltered, OutputIsDispatched
    <3>2. <<"executed", Cardinality(ps.mask)>>
            \in Outputs
      BY <3>1 DEF PipelineStates, Outputs
    <3>3. s \in PipelineStates /\ s.mask = Filtered(Mask) /\ s.stage = ps.stage /\ s.input = ps.input
          /\ s.valid = TRUE /\ s.ok = TRUE /\ s.output = <<"executed", Cardinality(s.mask)>>
      BY <3>1, <3>2 DEF PipelineStates
    <3> HIDE DEF s
    <3> QED BY <3>1, <3>3 DEF StageKeeps
  <2> HIDE DEF s
  <2> QED BY <2>1, <2>2, StageInv
<1>9. CASE stage10_merge
  <2> DEFINE s == [ps EXCEPT !.output = <<"merged">>]
  <2>1. ps # NULL /\ ps.stage = 9 /\ Stage(10, IF ps.output = NULL THEN {s, ps} ELSE {ps})
    BY <1>9 DEF stage10_merge, Stage, Enter
  <2>2. ASSUME ps.valid PROVE StageKeeps(10, ps) /\ (ps.output = NULL => StageKeeps(10, s))
    <3>0. /\ ps \in PipelineStates /\ ps.ok = TRUE /\ ps.valid = TRUE /\ ps.input \notin Dangerous
          /\ RejectionStays /\ MaskIsFiltered /\ OutputIsDispatched
      <4>1. ps.stage # 0
        BY <2>1
      <4> QED BY <2>1, <2>2, <4>1, <1>4
    <3>1. ps.mask = Filtered(Mask) /\ ps \in PipelineStates /\ ps.stage = 9
          /\ ps.output \in {NULL, <<"merged">>, <<"executed", Cardinality(ps.mask)>>}
          /\ ps.ok = TRUE /\ ps.valid = TRUE /\ ps.input \notin Dangerous
      BY <2>1, <3>0 DEF MaskIsFiltered, OutputIsDispatched
    <3>2. s \in PipelineStates /\ s.mask = Filtered(Mask) /\ s.stage = ps.stage /\ s.input = ps.input
          /\ s.valid = TRUE /\ s.ok = TRUE /\ s.output = <<"merged">>
      BY <3>1 DEF PipelineStates, Outputs
    <3> HIDE DEF s
    <3> QED BY <3>1, <3>2 DEF StageKeeps
  <2> HIDE DEF s
  <2> QED BY <2>1, <2>2, StageInv
<1>10. CASE Reject
  BY <1>10 DEF Reject, MasterInv, Answered, Refused
<1>11. CASE Accept
  <2>1. ps # NULL /\ ps.stage = 10 /\ ps.ok /\ ps.valid
    BY <1>11 DEF Accept, Enter
  <2>2. InTheStages
    BY <2>1 DEF MasterInv
  <2>3. ps.mask = Filtered(Mask)
        /\ ps.output \in {NULL, <<"merged">>, <<"executed", Cardinality(ps.mask)>>}
    BY <2>1, <2>2 DEF InTheStages, MaskIsFiltered, OutputIsDispatched
  <2>4. /\ receipt'.status = "OK" /\ receipt'.output = ps.output /\ receipt'.mask = ps.mask
        /\ receipt'.hash = <<"hash", ps.output>> /\ ps' = NULL /\ blocks' = blocks \ {"state"}
    BY <1>11 DEF Accept
  <2>5. blocks' = IF ps.output = NULL THEN {} ELSE {"output"}
    BY <2>2, <2>4 DEF InTheStages
  <2> QED BY <2>3, <2>4, <2>5 DEF MasterInv, Answered
<1>12. CASE UNCHANGED masterVars
  BY <1>12 DEF masterVars, MasterInv, InTheStages, Answered, RejectionStays, MaskIsFiltered,
       OutputIsDispatched
<1> QED
  BY <1>1, <1>2, <1>3, <1>5, <1>6, <1>7, <1>8, <1>9, <1>10, <1>11, <1>12
  DEF MasterNext, StubStage

LEMMA MasterInvImplies == MasterInv => ReceiptOwnsTheOutput
<1> SUFFICES ASSUME MasterInv PROVE ReceiptOwnsTheOutput
  OBVIOUS
<1>1. ASSUME receipt # NULL, receipt.status = "OK", NEW i \in Mask
      PROVE  i \in receipt.mask <=> \A j \in receipt.mask \ {i} : j < i => ~ConflictPair(i, j)
  <2>1. receipt.mask = Filtered(Mask)
    BY <1>1 DEF MasterInv, Answered
  <2>2. Filtered(Mask) \subseteq Mask /\ Mask \subseteq Nat /\ \A j \in Mask : j < NExperts
    BY FilteredIsExact, MasterBounds DEF Mask
  <2>3. i \in Filtered(Mask) <=>
          \A j \in Filtered(Mask) : j < i /\ j < NExperts => ~ConflictPair(j, i)
    BY FilteredIsExact DEF NoConflictIn
  <2>4. \A j \in Filtered(Mask) : j < i => j # i
    BY <2>2
  <2>5. \A j : ConflictPair(j, i) <=> ConflictPair(i, j)
    BY DEF ConflictPair
  <2> HIDE DEF ConflictPair
  <2> QED BY <2>1, <2>2, <2>3, <2>4, <2>5
<1>2. ASSUME ps # NULL
      PROVE  /\ ps.stage > 0 => (ps.valid <=> ps.input \notin Dangerous) /\ (ps.ok <=> ps.valid)
             /\ ~ps.valid => blocks = {"state"}
  BY <1>2 DEF MasterInv, InTheStages, RejectionStays
<1> QED BY <1>1, <1>2 DEF MasterInv, Answered, ReceiptOwnsTheOutput

\* Whoever calls the pipeline, however often, whatever the inputs, however many experts
\* and whichever allocations fail: a rejection is not undone and allocates
\* nothing, and a receipt owns the one block left.
THEOREM ReceiptsOwnOutputs == MasterSpec => []ReceiptOwnsTheOutput
<1>1. MasterInit => MasterInv
  BY MasterInitInv
<1>2. MasterInv /\ [MasterNext]_masterVars => MasterInv'
  BY MasterNextInv
<1>3. MasterInv => ReceiptOwnsTheOutput
  BY MasterInvImplies
<1> QED BY <1>1, <1>2, <1>3, PTL DEF MasterSpec

(***************************************************************************)
(* The routing pipeline. The count of executions only grows, and each      *)
(* dispatch adds its batch; a route is, after each stage, exactly what its *)
(* token count and the builds so far make it.                              *)
(***************************************************************************)

\* Places of one set are numbered in order: how many of them there are up to each.
LEMMA RanksAreNew ==
  ASSUME NEW N \in Nat, NEW V \in SUBSET (1 .. N)
  PROVE  /\ Cardinality(V) \in Nat
         /\ \A k \in V : Cardinality({j \in V : j <= k}) \in 1 .. Cardinality(V)
         /\ \A k, l \in V : k < l =>
              Cardinality({j \in V : j <= k}) < Cardinality({j \in V : j <= l})
<1> DEFINE Until(k) == {j \in V : j <= k}
<1>1. IsFiniteSet(1 .. N)
  BY FS_Interval
<1>2. IsFiniteSet(V) /\ Cardinality(V) \in Nat
  BY <1>1, FS_Subset, FS_CardinalityType
<1>3. ASSUME NEW k \in V
      PROVE  /\ IsFiniteSet(Until(k)) /\ Cardinality(Until(k)) \in 1 .. Cardinality(V)
  <2>1. Until(k) \in SUBSET V /\ Until(k) # {}
    OBVIOUS
  <2> HIDE DEF Until
  <2>2. IsFiniteSet(Until(k)) /\ Cardinality(Until(k)) <= Cardinality(V)
    BY <1>2, <2>1, FS_Subset
  <2>3. Cardinality(Until(k)) \in Nat /\ Cardinality(Until(k)) # 0
    BY <2>1, <2>2, FS_CardinalityType, FS_EmptySet
  <2> QED BY <1>2, <2>2, <2>3
<1>4. ASSUME NEW k \in V, NEW l \in V, k < l
      PROVE  Cardinality(Until(k)) < Cardinality(Until(l))
  <2>0. k \in 1 .. N /\ l \in 1 .. N /\ \A j \in V : j \in 1 .. N
    OBVIOUS
  <2>1. Until(k) \in SUBSET Until(l) /\ l \in Until(l) /\ l \notin Until(k)
    <3>1. \A j \in Until(k) : j \in Until(l)
      BY <1>4, <2>0
    <3>2. l <= l /\ ~(l <= k)
      BY <1>4, <2>0
    <3> QED BY <3>1, <3>2
  <2>2. IsFiniteSet(Until(l)) /\ Cardinality(Until(l)) \in Nat /\ Cardinality(Until(k)) \in Nat
    BY <1>2, <1>3
  <2> HIDE DEF Until
  <2>3. Cardinality(Until(k)) <= Cardinality(Until(l))
        /\ (Cardinality(Until(l)) = Cardinality(Until(k)) => Until(l) = Until(k))
    BY <2>1, <2>2, FS_Subset
  <2> QED BY <2>1, <2>2, <2>3
<1> QED BY <1>2, <1>3, <1>4

CountsNodes == execution_count \in Nat

LEMMA CountInv == CountsNodes /\ [RoutingNext]_routeVars => CountsNodes'
<1> SUFFICES ASSUME CountsNodes, [RoutingNext]_routeVars PROVE CountsNodes'
  OBVIOUS
<1> USE DEF CountsNodes
<1>1. ASSUME NEW m, NEW n \in 0 .. 2, NEW nodes \in [1 .. n -> SomeNodes], dispatch_batch(nodes, m)
      PROVE  CountsNodes'
  <2> DEFINE valid == {k \in DOMAIN nodes : is_valid(nodes[k])}
  <2>1. n \in Nat /\ valid \in SUBSET (1 .. n)
    OBVIOUS
  <2>2. execution_count' \in {execution_count, execution_count + Cardinality(valid)}
    BY <1>1 DEF dispatch_batch
  <2> HIDE DEF valid
  <2>3. Cardinality(valid) \in Nat
    BY <2>1, RanksAreNew
  <2> QED BY <2>2, <2>3
<1>2. ASSUME NEW id, NEW m, dispatch(id, m) PROVE CountsNodes'
  <2>1. execution_count' \in {execution_count, execution_count + 1}
    BY <1>2 DEF dispatch
  <2> QED BY <2>1
<1>3. CASE reset
  BY <1>3 DEF reset
<1>4. CASE UNCHANGED execution_count
  BY <1>4
<1>5. \/ Process \/ stage_regex_parser \/ stage_build \/ stage_constraint_eval
      \/ stage_sparse_activation \/ stage_routing_nodes \/ stage_nand_filter
      \/ stage_agent_dispatch \/ stage_merge_output \/ UNCHANGED routeVars
      => UNCHANGED <<execution_count, batch>>
  BY DEF Process, stage_regex_parser, stage_build, stage_constraint_eval,
      stage_sparse_activation, stage_routing_nodes, stage_nand_filter,
      stage_agent_dispatch, stage_merge_output, Go, Fail, routeVars
<1>6. ASSUME NEW m, NEW nodes \in UNION {[1 .. k -> SomeNodes] : k \in 0 .. 2},
             dispatch_batch(nodes, m)
      PROVE  CountsNodes'
  <2>1. PICK n \in 0 .. 2 : nodes \in [1 .. n -> SomeNodes]
    OBVIOUS
  <2> QED BY <1>1, <1>6, <2>1
<1> QED BY <1>2, <1>3, <1>4, <1>5, <1>6 DEF RoutingNext

\* What a call of the dispatcher that answers numbers may have done.
NumbersAreNew ==
  LET numbers == batch'.ok IN
  /\ batch'.err # "" => execution_count' = execution_count
  /\ \A i \in DOMAIN numbers : numbers[i] \in execution_count + 1 .. execution_count'
  /\ \A i, j \in DOMAIN numbers : numbers[i] = numbers[j] => i = j

\* A batch that fails has taken no numbers.
LEMMA FailureExecutesNothing ==
  ASSUME NEW e, batch' = Err(e), execution_count' = execution_count
  PROVE  NumbersAreNew
<1>1. batch'.ok = <<>> /\ DOMAIN batch'.ok = {}
  BY DEF Err
<1> QED BY <1>1 DEF NumbersAreNew

\* The numbers a batch takes.
LEMMA BatchNumbers ==
  ASSUME CountsNodes, NEW n \in Nat, NEW nodes, DOMAIN nodes = 1 .. n, NEW m, dispatch_batch(nodes, m)
  PROVE  NumbersAreNew
<1> DEFINE valid == {k \in DOMAIN nodes : is_valid(nodes[k])}
           last(id) == CHOOSE k \in valid :
                         nodes[k].id = id /\ \A j \in valid : nodes[j].id = id => j <= k
           rank(k) == Cardinality({j \in valid : j <= k})
           ids == {nodes[k].id : k \in valid}
<1>1. CASE nodes = <<>> \/ m = ""
  <2>1. PICK e : batch' = Err(e) /\ execution_count' = execution_count
    BY <1>1 DEF dispatch_batch
  <2> QED BY <2>1, FailureExecutesNothing
<1>2. CASE ~(nodes = <<>> \/ m = "") /\ valid = {}
  <2>1. batch' = Err("NoValidRoutes") /\ execution_count' = execution_count + Cardinality(valid)
    BY <1>2 DEF dispatch_batch
  <2>2. Cardinality(valid) = 0
    BY <1>2, FS_EmptySet
  <2>3. execution_count' = execution_count
    <3> HIDE DEF valid
    <3> QED BY <2>1, <2>2 DEF CountsNodes
  <2> QED BY <2>1, <2>3, FailureExecutesNothing
<1>3. CASE ~(nodes = <<>> \/ m = "") /\ valid # {}
  <2>1. execution_count' = execution_count + Cardinality(valid)
        /\ batch' = Ok([id \in ids |-> execution_count + rank(last(id))])
    BY <1>3 DEF dispatch_batch, Numbered
  <2>2. valid \in SUBSET (1 .. n)
    OBVIOUS
  <2>3. ASSUME NEW id \in ids PROVE last(id) \in valid /\ nodes[last(id)].id = id
    <3> DEFINE same == {k \in valid : nodes[k].id = id}
    <3>1. same \in SUBSET (0 .. n) /\ same # {}
      BY <2>2
    <3>2. \E k \in same : \A j \in same : j <= k
      <4> HIDE DEF same
      <4> QED BY <3>1, GreatestPlace
    <3>3. \E k \in valid : nodes[k].id = id /\ \A j \in valid : nodes[j].id = id => j <= k
      BY <3>2
    <3> HIDE DEF valid
    <3> QED BY <3>3
  <2>4. batch'.err = "" /\ batch'.ok = [id \in ids |-> execution_count + rank(last(id))]
    BY <2>1 DEF Ok
  <2> HIDE DEF valid, last, ids
  <2>5. /\ Cardinality(valid) \in Nat
        /\ \A k \in valid : rank(k) \in 1 .. Cardinality(valid)
        /\ \A k, l \in valid : k < l => rank(k) < rank(l)
    BY <2>2, RanksAreNew
  <2> HIDE DEF rank
  <2>6. \A k, l \in valid : rank(k) = rank(l) => k = l
    BY <2>2, <2>5
  <2>7. ASSUME NEW i \in ids
        PROVE  execution_count + rank(last(i)) \in execution_count + 1 .. execution_count'
    BY <2>1, <2>3, <2>5 DEF CountsNodes
  <2>8. ASSUME NEW i \in ids, NEW j \in ids,
               execution_count + rank(last(i)) = execution_count + rank(last(j))
        PROVE  i = j
    <3>1. rank(last(i)) = rank(last(j))
      BY <2>3, <2>5, <2>8 DEF CountsNodes
    <3>2. last(i) = last(j)
      BY <2>3, <2>6, <3>1
    <3> QED BY <2>3, <3>2
  <2> DEFINE numbers == batch'.ok
  <2>9. DOMAIN numbers = ids /\ \A i \in ids : numbers[i] = execution_count + rank(last(i))
    BY <2>4
  <2> HIDE DEF numbers
  <2>10. \A i \in DOMAIN numbers : numbers[i] \in execution_count + 1 .. execution_count'
    BY <2>7, <2>9
  <2>11. \A i, j \in DOMAIN numbers : numbers[i] = numbers[j] => i = j
    BY <2>8, <2>9
  <2> QED BY <2>4, <2>10, <2>11, Zenon DEF NumbersAreNew, numbers
<1> QED BY <1>1, <1>2, <1>3

LEMMA CountsStep ==
  ASSUME CountsNodes, RoutingNext, batch' # batch
  PROVE  NumbersAreNew
<1>1. ASSUME NEW m, NEW nodes \in UNION {[1 .. k -> SomeNodes] : k \in 0 .. 2},
             dispatch_batch(nodes, m)
      PROVE  NumbersAreNew
  <2>1. PICK n \in 0 .. 2 : nodes \in [1 .. n -> SomeNodes]
    OBVIOUS
  <2>2. n \in Nat /\ DOMAIN nodes = 1 .. n
    BY <2>1
  <2> QED BY <1>1, <2>2, BatchNumbers
<1>2. ASSUME NEW id, NEW m, dispatch(id, m) PROVE NumbersAreNew
  <2>1. CASE m = ""
    BY <1>2, <2>1, FailureExecutesNothing DEF dispatch
  <2>2. CASE m # ""
    <3>1. execution_count' = execution_count + 1 /\ batch' = Ok([n \in {id} |-> execution_count + 1])
      BY <1>2, <2>2 DEF dispatch
    <3>2. batch'.err = "" /\ batch'.ok = [n \in {id} |-> execution_count + 1]
      BY <3>1 DEF Ok
    <3> DEFINE numbers == batch'.ok
    <3>3. DOMAIN numbers = {id} /\ numbers[id] = execution_count + 1
      BY <3>2
    <3> HIDE DEF numbers
    <3>4. \A i \in DOMAIN numbers : numbers[i] \in execution_count + 1 .. execution_count'
      BY <3>1, <3>3 DEF CountsNodes
    <3>5. \A i, j \in DOMAIN numbers : numbers[i] = numbers[j] => i = j
      BY <3>3
    <3> QED BY <3>2, <3>4, <3>5, Zenon DEF NumbersAreNew, numbers
  <2> QED BY <2>1, <2>2
<1>3. \/ Process \/ stage_regex_parser \/ stage_build \/ stage_constraint_eval
      \/ stage_sparse_activation \/ stage_routing_nodes \/ stage_nand_filter
      \/ stage_agent_dispatch \/ stage_merge_output \/ reset
      => UNCHANGED batch
  BY DEF Process, stage_regex_parser, stage_build, stage_constraint_eval,
      stage_sparse_activation, stage_routing_nodes, stage_nand_filter,
      stage_agent_dispatch, stage_merge_output, Go, Fail, reset
<1> QED BY <1>1, <1>2, <1>3 DEF RoutingNext

\* Dispatcher: execution numbers are new, distinct and all counted, for any
\* nodes, also when some have one id or the batch fails half way.
THEOREM DispatchesCounted == RoutingSpec => DispatchesAreCounted
<1>1. RoutingInit => CountsNodes
  <2>1. RoutingInit => execution_count = 0
    BY DEF RoutingInit
  <2> QED BY <2>1 DEF CountsNodes
<1>2. CountsNodes /\ [RoutingNext]_routeVars => CountsNodes'
  BY CountInv
<1>3. CountsNodes /\ [RoutingNext]_routeVars => [batch' # batch => NumbersAreNew]_routeVars
  BY CountsStep
<1> QED BY <1>1, <1>2, <1>3, PTL DEF RoutingSpec, DispatchesAreCounted, NumbersAreNew

(***************************************************************************)
(* The pipeline.  What each stage finds, from the number of tokens alone.  *)
(***************************************************************************)
IdAt(t, k) == (k - 1) * 1000 + t
NodesOf(t) == [k \in 1 .. Min2(t, 5) |-> RoutingNode(IdAt(t, k), <<"route", k - 1>>, 1, k)]
HeavyOf(t) == [k \in 1 .. Min2(t, 3) |-> NodesOf(t)[k]]
Result(k) == Ok(<<<<"route", k - 1>>, 1, k>>)

\* The nodes a route of t tokens gets, and their ids.
LEMMA NodeFacts ==
  ASSUME NEW t \in Nat, NEW k \in 1 .. Min2(t, 5)
  PROVE  /\ NodesOf(t)[k].id = IdAt(t, k) /\ execute(NodesOf(t)[k]) = Result(k)
         /\ HeavyEnough(NodesOf(t)[k]) <=> k <= 3
<1>1. k \in Nat /\ k > 0 /\ Min2(t, 5) \in Nat
  BY DEF Min2
<1>2. NodesOf(t)[k] = RoutingNode(IdAt(t, k), <<"route", k - 1>>, 1, k)
  BY DEF NodesOf
<1>3. NodesOf(t)[k].id = IdAt(t, k) /\ NodesOf(t)[k].num = 1 /\ NodesOf(t)[k].den = k
      /\ NodesOf(t)[k].name = <<"route", k - 1>> /\ NodesOf(t)[k].enabled = (1 > 0)
  BY <1>2 DEF RoutingNode
<1>4. NodesOf(t)[k].enabled = TRUE
  <2>1. (1 > 0) = TRUE
    OBVIOUS
  <2> QED BY <1>3, <2>1, Zenon
<1>5. execute(NodesOf(t)[k]) = Result(k)
  BY <1>3, <1>4, Zenon DEF execute, Result
<1>6. HeavyEnough(NodesOf(t)[k]) <=> k <= 3
  BY <1>1, <1>3 DEF HeavyEnough
<1> QED BY <1>3, <1>5, <1>6

\* Filtering is a fold over the nodes: one place after another is kept or not.
LEMMA KeptSteps ==
  ASSUME NEW N \in Nat, NEW nodes, DOMAIN nodes = 1 .. N
  PROVE  \E g : /\ g[1 .. 0] = <<>> /\ FoldLeft(KeepHeavy, <<>>, nodes) = g[1 .. N]
                /\ \A n \in 1 .. N : g[1 .. n] = KeepHeavy(g[1 .. n - 1], nodes[n])
<1> DEFINE D == Seq({nodes[k] : k \in 1 .. N})
           G == [n \in 1 .. N |-> [kept \in D |-> KeepHeavy(kept, nodes[n])]]
           IsFold(f) == f = [s \in SUBSET (1 .. N) |->
                               IF s = {} THEN <<>> ELSE KeepHeavy(f[s \ {Max(s)}], nodes[Max(s)])]
<1>1. PICK g : Folds(g, N, <<>>, G)
  <2> HIDE DEF G
  <2> QED BY FoldExists
<1>2. \A s \in SUBSET (1 .. N) : g[s] \in D
  <2>1. ASSUME NEW n \in 1 .. N, NEW x \in D PROVE G[n][x] \in D
    <3>1. KeepHeavy(x, nodes[n]) \in D
      BY DEF KeepHeavy
    <3> QED BY <3>1
  <2>2. <<>> \in D
    OBVIOUS
  <2> HIDE DEF G, D
  <2> QED BY <1>1, <2>1, <2>2, FoldTypes
<1>3. IsFold(g)
  <2>1. ASSUME NEW s \in SUBSET (1 .. N), s # {}
        PROVE  G[Max(s)][g[s \ {Max(s)}]] = KeepHeavy(g[s \ {Max(s)}], nodes[Max(s)])
    <3>1. Max(s) \in 1 .. N
      BY <2>1, LastOfPlaces
    <3> HIDE DEF D
    <3> QED BY <3>1, <1>2
  <2> HIDE DEF G
  <2> QED BY <1>1, <2>1 DEF Folds
<1>4. FoldLeft(KeepHeavy, <<>>, nodes) = (CHOOSE f : IsFold(f))[1 .. N]
  BY DEF FoldLeft, MapThenFoldSet
<1> DEFINE f == CHOOSE f : IsFold(f)
<1>5. IsFold(f)
  <2> HIDE DEF IsFold
  <2> QED BY <1>3
<1> HIDE DEF f
<1>6. f[1 .. 0] = <<>>
  <2>1. 1 .. 0 = {} /\ {} \in SUBSET (1 .. N)
    OBVIOUS
  <2> QED BY <1>5, <2>1
<1>7. ASSUME NEW n \in 1 .. N
      PROVE  f[1 .. n] = KeepHeavy(f[1 .. n - 1], nodes[n])
  <2>1. n \in Nat /\ n # 0 /\ 1 .. n \in SUBSET (1 .. N)
    OBVIOUS
  <2>2. Max(1 .. n) = n /\ (1 .. n) \ {n} = 1 .. n - 1 /\ 1 .. n # {}
    BY <2>1, LastOfFirst
  <2> QED BY <1>5, <2>1, <2>2
<1>8. FoldLeft(KeepHeavy, <<>>, nodes) = f[1 .. N]
  BY <1>4 DEF f
<1> QED BY <1>6, <1>7, <1>8

\* Of the nodes, the first three stay: only theirs are heavier than 0.3.
LEMMA FirstThreeAreKept ==
  ASSUME NEW t \in Nat
  PROVE  FoldLeft(KeepHeavy, <<>>, NodesOf(t)) = HeavyOf(t)
<1> DEFINE N == Min2(t, 5)
           nodes == NodesOf(t)
           first(n) == [k \in 1 .. Min2(n, 3) |-> nodes[k]]
<1>0. N \in Nat /\ DOMAIN nodes = 1 .. N
  BY DEF Min2, NodesOf
<1>1. \A k \in 1 .. N : HeavyEnough(nodes[k]) <=> k <= 3
  BY NodeFacts
<1>2. PICK g : /\ g[1 .. 0] = <<>> /\ FoldLeft(KeepHeavy, <<>>, nodes) = g[1 .. N]
               /\ \A n \in 1 .. N : g[1 .. n] = KeepHeavy(g[1 .. n - 1], nodes[n])
  <2> HIDE DEF N, nodes
  <2> QED BY <1>0, KeptSteps
<1> DEFINE S == {n \in 0 .. N : g[1 .. n] = first(n)}
<1>3. 0 \in S
  <2>1. 1 .. Min2(0, 3) = {}
    BY DEF Min2
  <2>2. first(0) = <<>>
    <3> HIDE DEF nodes
    <3> QED BY <2>1
  <2> HIDE DEF N, nodes, first
  <2> QED BY <1>0, <1>2, <2>2
<1>4. ASSUME NEW n \in 0 .. N - 1, n \in S PROVE n + 1 \in S
  <2> HIDE DEF N, nodes
  <2>1. n + 1 \in 1 .. N /\ (n + 1) - 1 = n /\ n \in Nat
    BY <1>0
  <2>2. g[1 .. n + 1] = KeepHeavy(first(n), nodes[n + 1])
    BY <1>2, <1>4, <2>1
  <2>3. CASE n + 1 <= 3
    <3>1. Min2(n, 3) = n /\ Min2(n + 1, 3) = n + 1
      BY <2>1, <2>3 DEF Min2
    <3>2. g[1 .. n + 1] = Append(first(n), nodes[n + 1])
      BY <1>1, <2>1, <2>2, <2>3 DEF KeepHeavy
    <3>3. Append([k \in 1 .. n |-> nodes[k]], nodes[n + 1]) = [k \in 1 .. n + 1 |-> nodes[k]]
      <4>1. Len([k \in 1 .. n |-> nodes[k]]) = n
        BY <2>1
      <4> QED BY <2>1, <4>1
    <3>4. g[1 .. n + 1] = first(n + 1)
      BY <3>1, <3>2, <3>3
    <3> QED BY <2>1, <3>4
  <2>4. CASE ~(n + 1 <= 3)
    <3>1. Min2(n, 3) = 3 /\ Min2(n + 1, 3) = 3
      BY <2>1, <2>4 DEF Min2
    <3>2. g[1 .. n + 1] = first(n)
      BY <1>1, <2>1, <2>2, <2>4 DEF KeepHeavy
    <3>3. g[1 .. n + 1] = first(n + 1)
      BY <3>1, <3>2
    <3> QED BY <2>1, <3>3
  <2> QED BY <2>3, <2>4
<1>5. N \in S
  <2> HIDE DEF N, S
  <2>1. \A n \in 0 .. N : n \in S
    BY <1>0, <1>3, <1>4, UpTo
  <2> QED BY <1>0, <2>1
<1>6. Min2(N, 3) = Min2(t, 3)
  BY DEF Min2
<1> QED
  <2> HIDE DEF N
  <2> QED BY <1>2, <1>5, <1>6 DEF HeavyOf

\* Two routes of one input have different identifiers.
LEMMA IdsDiffer ==
  ASSUME NEW t \in Nat, NEW k \in Nat, NEW j \in Nat, IdAt(t, k) = IdAt(t, j)
  PROVE  k = j
BY DEF IdAt

\* The answers by identifier: each of the first three routes' own.
LEMMA ResultsAre ==
  ASSUME NEW t \in Nat
  PROVE  /\ DOMAIN ById(HeavyOf(t)) = {IdAt(t, k) : k \in 1 .. Min2(t, 3)}
         /\ \A k \in 1 .. Min2(t, 3) : ById(HeavyOf(t))[IdAt(t, k)] = Result(k)
<1> DEFINE h == Min2(t, 3)
           nodes == HeavyOf(t)
<1>0. h \in Nat /\ \A k \in 1 .. h : k \in 1 .. Min2(t, 5) /\ k \in Nat
  BY DEF Min2
<1>1. DOMAIN nodes = 1 .. h /\ nodes = [k \in 1 .. h |-> nodes[k]]
      /\ \A k \in 1 .. h : nodes[k] = NodesOf(t)[k]
  BY DEF HeavyOf
<1>2. \A k \in 1 .. h : nodes[k].id = IdAt(t, k) /\ execute(nodes[k]) = Result(k)
  BY <1>0, <1>1, NodeFacts
<1> HIDE DEF h, nodes
<1>3. Len(nodes) = h
  BY <1>0, <1>1
<1>4. ToSet(nodes) = {nodes[k] : k \in 1 .. h}
  BY <1>1 DEF ToSet
<1>5. {n.id : n \in ToSet(nodes)} = {IdAt(t, k) : k \in 1 .. h}
  BY <1>2, <1>4
<1>6. ASSUME NEW k \in 1 .. h PROVE LastWith(nodes, IdAt(t, k)) = nodes[k]
  <2> DEFINE IsLast(n) == \E i \in DOMAIN nodes :
               nodes[i] = n /\ n.id = IdAt(t, k) /\ \A j \in i + 1 .. Len(nodes) : nodes[j].id # IdAt(t, k)
  <2>1. \A j \in 1 .. h : nodes[j].id = IdAt(t, k) => j = k
    BY <1>0, <1>2, IdsDiffer
  <2>2. IsLast(nodes[k])
    <3>1. \A j \in k + 1 .. h : j \in 1 .. h /\ j # k
      BY <1>0
    <3> QED BY <1>1, <1>2, <1>3, <2>1, <3>1
  <2>3. \A n : IsLast(n) => n = nodes[k]
    BY <1>1, <2>1
  <2>4. nodes[k] \in ToSet(nodes)
    BY <1>4
  <2>5. LastWith(nodes, IdAt(t, k)) = CHOOSE n \in ToSet(nodes) : IsLast(n)
    BY Zenon DEF LastWith
  <2> HIDE DEF IsLast
  <2> QED BY <2>2, <2>3, <2>4, <2>5
<1>7. ById(nodes) = [id \in {IdAt(t, k) : k \in 1 .. h} |-> execute(LastWith(nodes, id))]
  BY <1>5, Zenon DEF ById
<1> QED BY <1>2, <1>6, <1>7 DEF h, nodes

\* Any order of all members of a set has one place for each, and no other members.
LEMMA AnyOrder ==
  ASSUME NEW m \in Nat, NEW S, NEW count \in [1 .. m -> S],
         \A x \in S : \E k \in 1 .. m : count[k] = x,
         \A k, j \in 1 .. m : count[k] = count[j] => k = j,
         NEW order \in SetToSeqs(S)
  PROVE  order \in [1 .. m -> S] /\ {order[i] : i \in 1 .. m} = S
<1>1. count \in Bijection(1 .. m, S)
  BY DEF Bijection, Injection, Surjection, IsInjective
<1>2. IsFiniteSet(1 .. m) /\ Cardinality(1 .. m) = m
  BY FS_Interval
<1>3. IsFiniteSet(S) /\ Cardinality(S) = m
  BY <1>1, <1>2, FS_Bijection DEF ExistsBijection
<1>4. order \in [1 .. m -> S] /\ \A i, j \in 1 .. m : i # j => order[i] # order[j]
  BY <1>3 DEF SetToSeqs
<1>5. order \in Injection(1 .. m, S)
  BY <1>4 DEF Injection, IsInjective
<1>6. order \in Surjection(1 .. m, S)
  BY <1>2, <1>3, <1>5, FS_Injection
<1>7. {order[i] : i \in 1 .. m} = S
  BY <1>4, <1>6 DEF Surjection
<1> QED BY <1>4, <1>7

(***************************************************************************)
(* RouteInv: where a call is, it holds exactly what the stages before it   *)
(* make of the number of its tokens, and nothing else.                     *)
(***************************************************************************)
RouteAt(s, t, built, ids, nodes, filtered, results, merged) ==
  [stage |-> s, tokens |-> t, built |-> built, activation |-> ids, nodes |-> nodes,
   filtered |-> filtered, results |-> results, merged |-> merged]
NoAnswer == Err("none yet")
BuiltBefore(s) == {Builds[j] : j \in 1 .. s - 2}
IdsOf(t) == [k \in 1 .. Min2(t, 5) |-> IdAt(t, k)]

IsStarted(t)    == route = RouteAt(1, t, {}, <<>>, <<>>, <<>>, <<>>, NoAnswer)
IsBuilding(s, t)== route = RouteAt(s, t, BuiltBefore(s), <<>>, <<>>, <<>>, <<>>, NoAnswer)
IsChecked(t)    == route = RouteAt(7, t, BuiltBefore(6), <<>>, <<>>, <<>>, <<>>, NoAnswer)
IsActivated(t)  == route = RouteAt(8, t, BuiltBefore(6), IdsOf(t), <<>>, <<>>, <<>>, NoAnswer)
IsRouted(t)     == route = RouteAt(9, t, BuiltBefore(6), IdsOf(t), NodesOf(t), <<>>, <<>>, NoAnswer)
IsFiltered(t)   == route = RouteAt(10, t, BuiltBefore(6), IdsOf(t), NodesOf(t), HeavyOf(t), <<>>, NoAnswer)
IsDispatched(t) == route = RouteAt(11, t, BuiltBefore(6), IdsOf(t), NodesOf(t), HeavyOf(t),
                                 ById(HeavyOf(t)), NoAnswer)
\* EveryRouteAnswersOnce, of a route that has ended.
AnswersOnce(t, merged) ==
  IF t = 0 THEN merged = Err("empty_token_stream")
  ELSE LET answers == merged.ok IN
       /\ merged.err = "" /\ Len(answers) = Min2(t, 3)
       /\ ToSet(answers) = {<<(k - 1) * 1000 + t, Ok(<<<<"route", k - 1>>, 1, k>>)>> : k \in 1 .. Min2(t, 3)}
RouteInv ==
  \/ route = Empty
  \/ \E t \in Nat : IsStarted(t)
  \/ \E t \in Nat \ {0} : \/ \E s \in 2 .. 6 : IsBuilding(s, t)
                          \/ IsChecked(t) \/ IsActivated(t) \/ IsRouted(t) \/ IsFiltered(t) \/ IsDispatched(t)
  \/ route.stage = 12 /\ AnswersOnce(route.tokens, route.merged)

\* What Go does to a route in terms of its parts.
LEMMA GoesOn ==
  ASSUME NEW s \in Nat, NEW t, NEW b, NEW i, NEW n, NEW f, NEW r, NEW m,
         Go(RouteAt(s, t, b, i, n, f, r, m))
  PROVE  route' = RouteAt(s + 1, t, b, i, n, f, r, m)
BY DEF Go, RouteAt

LEMMA RouteInvInit == RoutingInit => RouteInv
BY DEF RoutingInit, RouteInv

LEMMA EmptyIs == Empty = RouteAt(12, 0, {}, <<>>, <<>>, <<>>, <<>>, NoAnswer)
BY Zenon DEF Empty, RouteAt, NoAnswer

LEMMA ProcessStep == ASSUME Process PROVE RouteInv'
<1>1. PICK n \in 0 .. MaxTokens : Go([Empty EXCEPT !.stage = 0, !.tokens = n])
  BY DEF Process
<1> DEFINE next == [Empty EXCEPT !.stage = 0, !.tokens = n]
<1>2. next = RouteAt(0, n, {}, <<>>, <<>>, <<>>, <<>>, NoAnswer)
  <2>2. ASSUME NEW b, NEW i, NEW e, NEW f, NEW r, NEW m
        PROVE  [RouteAt(12, 0, b, i, e, f, r, m) EXCEPT !.stage = 0] = RouteAt(0, 0, b, i, e, f, r, m)
    BY DEF RouteAt
  <2>3. ASSUME NEW b, NEW i, NEW e, NEW f, NEW r, NEW m
        PROVE  [RouteAt(0, 0, b, i, e, f, r, m) EXCEPT !.tokens = n] = RouteAt(0, n, b, i, e, f, r, m)
    BY DEF RouteAt
  <2>4. next = [[Empty EXCEPT !.stage = 0] EXCEPT !.tokens = n]
    BY DEF Empty
  <2>5. [Empty EXCEPT !.stage = 0] = RouteAt(0, 0, {}, <<>>, <<>>, <<>>, <<>>, NoAnswer)
    BY <2>2, EmptyIs
  <2>6. [RouteAt(0, 0, {}, <<>>, <<>>, <<>>, <<>>, NoAnswer) EXCEPT !.tokens = n]
        = RouteAt(0, n, {}, <<>>, <<>>, <<>>, <<>>, NoAnswer)
    BY <2>3
  <2> HIDE DEF next
  <2> QED BY <2>4, <2>5, <2>6, Zenon
<1>3. Go(RouteAt(0, n, {}, <<>>, <<>>, <<>>, <<>>, NoAnswer))
  <2> HIDE DEF next
  <2> QED BY <1>1, <1>2 DEF next
<1>4. route' = RouteAt(0 + 1, n, {}, <<>>, <<>>, <<>>, <<>>, NoAnswer)
  BY <1>3, GoesOn
<1>5. IsStarted(n)'
  BY <1>4 DEF IsStarted
<1>6. n \in Nat
  BY <1>1
<1> QED BY <1>5, <1>6 DEF RouteInv

\* The stage a call is at says which of the cases it is in.
LEMMA WhereItIs ==
  ASSUME RouteInv
  PROVE  /\ At(1) => \E t \in Nat : IsStarted(t)
         /\ \A s \in 2 .. 6 : At(s) => \E t \in Nat \ {0} : IsBuilding(s, t)
         /\ At(7) => \E t \in Nat \ {0} : IsChecked(t)
         /\ At(8) => \E t \in Nat \ {0} : IsActivated(t)
         /\ At(9) => \E t \in Nat \ {0} : IsRouted(t)
         /\ At(10) => \E t \in Nat \ {0} : IsFiltered(t)
         /\ At(11) => \E t \in Nat \ {0} : IsDispatched(t)
<1>1. \A s, t, b, i, n, f, r, m : route = RouteAt(s, t, b, i, n, f, r, m) => route.stage = s
  BY DEF RouteAt
<1>2. \A t : /\ IsStarted(t) => route.stage = 1
             /\ \A s \in 2 .. 6 : IsBuilding(s, t) => route.stage = s
             /\ IsChecked(t) => route.stage = 7
             /\ IsActivated(t) => route.stage = 8
             /\ IsRouted(t) => route.stage = 9
             /\ IsFiltered(t) => route.stage = 10
             /\ IsDispatched(t) => route.stage = 11
  BY <1>1 DEF IsStarted, IsBuilding, IsChecked, IsActivated, IsRouted, IsFiltered, IsDispatched
<1>3. route = Empty => route.stage = 12
  BY <1>1, EmptyIs
<1> QED BY <1>2, <1>3 DEF RouteInv, At

\* A call that fails for want of tokens is what EveryRouteAnswersOnce allows.
LEMMA EmptyStep == ASSUME RouteInv, stage_regex_parser PROVE RouteInv'
<1>1. PICK t \in Nat : IsStarted(t)
  BY WhereItIs DEF stage_regex_parser
<1>2. route = RouteAt(1, t, {}, <<>>, <<>>, <<>>, <<>>, NoAnswer) /\ route.tokens = t
  BY <1>1 DEF IsStarted, RouteAt
<1>3. CASE t = 0
  <2>1. Fail("empty_token_stream")
    BY <1>2, <1>3 DEF stage_regex_parser
  <2>2. ASSUME NEW e, Fail(e)
        PROVE  route'.stage = 12 /\ route'.tokens = t /\ route'.merged = Err(e)
    <3>1. ASSUME NEW b, NEW i, NEW n, NEW f, NEW r, NEW m, NEW d
          PROVE  /\ [RouteAt(1, t, b, i, n, f, r, m) EXCEPT !.stage = 12] = RouteAt(12, t, b, i, n, f, r, m)
                 /\ [RouteAt(12, t, b, i, n, f, r, m) EXCEPT !.merged = d] = RouteAt(12, t, b, i, n, f, r, d)
      BY DEF RouteAt
    <3>2. route' = [[route EXCEPT !.stage = 12] EXCEPT !.merged = Err(e)]
      BY <2>2 DEF Fail
    <3>3. [route EXCEPT !.stage = 12] = RouteAt(12, t, {}, <<>>, <<>>, <<>>, <<>>, NoAnswer)
      BY <1>2, <3>1
    <3>4. [RouteAt(12, t, {}, <<>>, <<>>, <<>>, <<>>, NoAnswer) EXCEPT !.merged = Err(e)]
          = RouteAt(12, t, {}, <<>>, <<>>, <<>>, <<>>, Err(e))
      BY <3>1
    <3>5. route' = RouteAt(12, t, {}, <<>>, <<>>, <<>>, <<>>, Err(e))
      BY <3>2, <3>3, <3>4, Zenon
    <3> QED BY <3>5 DEF RouteAt
  <2>3. route'.stage = 12 /\ route'.tokens = 0 /\ route'.merged = Err("empty_token_stream")
    BY <1>3, <2>1, <2>2
  <2>4. AnswersOnce(route'.tokens, route'.merged)
    BY <2>3, Zenon DEF AnswersOnce
  <2> QED BY <2>3, <2>4 DEF RouteInv
<1>4. CASE t # 0
  <2>1. Go(RouteAt(1, t, {}, <<>>, <<>>, <<>>, <<>>, NoAnswer))
    BY <1>2, <1>4 DEF stage_regex_parser
  <2>2. route' = RouteAt(1 + 1, t, {}, <<>>, <<>>, <<>>, <<>>, NoAnswer)
    BY <2>1, GoesOn
  <2>3. BuiltBefore(2) = {} /\ 1 + 1 = 2
    BY DEF BuiltBefore
  <2>4. IsBuilding(2, t)'
    BY <2>2, <2>3, Zenon DEF IsBuilding
  <2> QED BY <1>4, <2>4 DEF RouteInv
<1> QED BY <1>3, <1>4

LEMMA BuildStep == ASSUME RouteInv, stage_build PROVE RouteInv'
<1>1. PICK s \in 2 .. 5 : At(s) /\ Go([route EXCEPT !.built = @ \cup {Builds[s - 1]}])
  BY DEF stage_build, At
<1>2. PICK t \in Nat \ {0} : IsBuilding(s, t)
  BY <1>1, WhereItIs
<1>3. ASSUME NEW b, NEW c, NEW i, NEW n, NEW f, NEW r, NEW m
      PROVE  /\ RouteAt(s, t, b, i, n, f, r, m).built = b
             /\ [RouteAt(s, t, b, i, n, f, r, m) EXCEPT !.built = c] = RouteAt(s, t, c, i, n, f, r, m)
  BY DEF RouteAt
<1>4. BuiltBefore(s) \cup {Builds[s - 1]} = BuiltBefore(s + 1)
  <2>1. 1 .. (s + 1) - 2 = (1 .. s - 2) \cup {s - 1}
    BY <1>1
  <2> QED BY <2>1 DEF BuiltBefore
<1>5. Go(RouteAt(s, t, BuiltBefore(s + 1), <<>>, <<>>, <<>>, <<>>, NoAnswer))
  <2>1. [RouteAt(s, t, BuiltBefore(s), <<>>, <<>>, <<>>, <<>>, NoAnswer)
           EXCEPT !.built = @ \cup {Builds[s - 1]}]
        = RouteAt(s, t, BuiltBefore(s + 1), <<>>, <<>>, <<>>, <<>>, NoAnswer)
    <3> DEFINE old == RouteAt(s, t, BuiltBefore(s), <<>>, <<>>, <<>>, <<>>, NoAnswer)
               more == old.built \cup {Builds[s - 1]}
    <3>1. more = BuiltBefore(s + 1)
      BY <1>3, <1>4
    <3>2. [old EXCEPT !.built = BuiltBefore(s + 1)]
          = RouteAt(s, t, BuiltBefore(s + 1), <<>>, <<>>, <<>>, <<>>, NoAnswer)
      BY <1>3
    <3> QED BY <3>1, <3>2, Zenon
  <2>2. route = RouteAt(s, t, BuiltBefore(s), <<>>, <<>>, <<>>, <<>>, NoAnswer)
    BY <1>2 DEF IsBuilding
  <2> QED BY <1>1, <2>1, <2>2, Zenon
<1>6. route' = RouteAt(s + 1, t, BuiltBefore(s + 1), <<>>, <<>>, <<>>, <<>>, NoAnswer)
  BY <1>1, <1>5, GoesOn
<1>7. IsBuilding(s + 1, t)' /\ s + 1 \in 2 .. 6
  BY <1>1, <1>6 DEF IsBuilding
<1> QED BY <1>2, <1>7 DEF RouteInv

LEMMA CheckStep == ASSUME RouteInv, stage_constraint_eval PROVE RouteInv'
<1>1. PICK t \in Nat \ {0} : IsBuilding(6, t)
  BY WhereItIs DEF stage_constraint_eval
<1>2. route = RouteAt(6, t, BuiltBefore(6), <<>>, <<>>, <<>>, <<>>, NoAnswer)
      /\ route.tokens = t /\ route.built = BuiltBefore(6)
  BY <1>1 DEF IsBuilding, RouteAt
<1>3. {"ast", "graph", "jordan"} \subseteq BuiltBefore(6)
  <2>1. Builds[1] = "ast" /\ Builds[2] = "graph" /\ Builds[3] = "jordan" /\ 1 \in 1 .. 4 /\ 2 \in 1 .. 4 /\ 3 \in 1 .. 4
    BY DEF Builds
  <2>2. BuiltBefore(6) = {Builds[j] : j \in 1 .. 4}
    BY DEF BuiltBefore
  <2> QED BY <2>1, <2>2
<1>4. Go(route)
  BY <1>2, <1>3 DEF stage_constraint_eval
<1>5. route' = RouteAt(6 + 1, t, BuiltBefore(6), <<>>, <<>>, <<>>, <<>>, NoAnswer)
  BY <1>2, <1>4, GoesOn
<1>6. IsChecked(t)'
  BY <1>5 DEF IsChecked
<1> QED BY <1>6 DEF RouteInv

LEMMA ActivateStep == ASSUME RouteInv, stage_sparse_activation PROVE RouteInv'
<1>1. PICK t \in Nat \ {0} : IsChecked(t)
  BY WhereItIs DEF stage_sparse_activation
<1>2. route = RouteAt(7, t, BuiltBefore(6), <<>>, <<>>, <<>>, <<>>, NoAnswer) /\ route.tokens = t
  BY <1>1 DEF IsChecked, RouteAt
<1>3. [k \in 1 .. Min2(route.tokens, 5) |-> (k - 1) * 1000 + route.tokens] = IdsOf(t)
  BY <1>2 DEF IdsOf, IdAt
<1>4. IdsOf(t) # <<>>
  <2>1. DOMAIN IdsOf(t) = 1 .. Min2(t, 5) /\ 1 \in 1 .. Min2(t, 5)
    BY DEF IdsOf, Min2
  <2>2. DOMAIN <<>> = {}
    OBVIOUS
  <2> QED BY <2>1, <2>2
<1>5. Go([route EXCEPT !.activation = IdsOf(t)])
  BY <1>3, <1>4, Zenon DEF stage_sparse_activation
<1>6. ASSUME NEW b, NEW i, NEW n, NEW f, NEW r, NEW m
      PROVE  [RouteAt(7, t, b, <<>>, n, f, r, m) EXCEPT !.activation = i] = RouteAt(7, t, b, i, n, f, r, m)
  BY DEF RouteAt
<1>7. [RouteAt(7, t, BuiltBefore(6), <<>>, <<>>, <<>>, <<>>, NoAnswer) EXCEPT !.activation = IdsOf(t)]
      = RouteAt(7, t, BuiltBefore(6), IdsOf(t), <<>>, <<>>, <<>>, NoAnswer)
  BY <1>6
<1>8. Go(RouteAt(7, t, BuiltBefore(6), IdsOf(t), <<>>, <<>>, <<>>, NoAnswer))
  BY <1>2, <1>5, <1>7, Zenon
<1>9. route' = RouteAt(7 + 1, t, BuiltBefore(6), IdsOf(t), <<>>, <<>>, <<>>, NoAnswer)
  BY <1>8, GoesOn
<1>10. IsActivated(t)'
  BY <1>9 DEF IsActivated
<1> QED BY <1>10 DEF RouteInv

LEMMA NodesStep == ASSUME RouteInv, stage_routing_nodes PROVE RouteInv'
<1>1. PICK t \in Nat \ {0} : IsActivated(t)
  BY WhereItIs DEF stage_routing_nodes
<1>2. route = RouteAt(8, t, BuiltBefore(6), IdsOf(t), <<>>, <<>>, <<>>, NoAnswer)
      /\ route.activation = IdsOf(t)
  BY <1>1 DEF IsActivated, RouteAt
<1>3. [k \in DOMAIN route.activation |-> RoutingNode(route.activation[k], <<"route", k - 1>>, 1, k)]
      = NodesOf(t)
  <2>1. DOMAIN IdsOf(t) = 1 .. Min2(t, 5) /\ \A k \in 1 .. Min2(t, 5) : IdsOf(t)[k] = IdAt(t, k)
    BY DEF IdsOf
  <2> QED BY <1>2, <2>1 DEF NodesOf
<1>4. NodesOf(t) # <<>>
  <2>1. DOMAIN NodesOf(t) = 1 .. Min2(t, 5) /\ 1 \in 1 .. Min2(t, 5)
    BY DEF NodesOf, Min2
  <2>2. DOMAIN <<>> = {}
    OBVIOUS
  <2> QED BY <2>1, <2>2
<1>5. Go([route EXCEPT !.nodes = NodesOf(t)])
  BY <1>3, <1>4, Zenon DEF stage_routing_nodes
<1>6. ASSUME NEW b, NEW i, NEW n, NEW f, NEW r, NEW m
      PROVE  [RouteAt(8, t, b, i, <<>>, f, r, m) EXCEPT !.nodes = n] = RouteAt(8, t, b, i, n, f, r, m)
  BY DEF RouteAt
<1>7. [RouteAt(8, t, BuiltBefore(6), IdsOf(t), <<>>, <<>>, <<>>, NoAnswer) EXCEPT !.nodes = NodesOf(t)]
      = RouteAt(8, t, BuiltBefore(6), IdsOf(t), NodesOf(t), <<>>, <<>>, NoAnswer)
  BY <1>6
<1>8. Go(RouteAt(8, t, BuiltBefore(6), IdsOf(t), NodesOf(t), <<>>, <<>>, NoAnswer))
  BY <1>2, <1>5, <1>7, Zenon
<1>9. route' = RouteAt(8 + 1, t, BuiltBefore(6), IdsOf(t), NodesOf(t), <<>>, <<>>, NoAnswer)
  BY <1>8, GoesOn
<1>10. IsRouted(t)'
  BY <1>9 DEF IsRouted
<1> QED BY <1>10 DEF RouteInv

LEMMA FilterStep == ASSUME RouteInv, stage_nand_filter PROVE RouteInv'
<1>1. PICK t \in Nat \ {0} : IsRouted(t)
  BY WhereItIs DEF stage_nand_filter
<1>2. route = RouteAt(9, t, BuiltBefore(6), IdsOf(t), NodesOf(t), <<>>, <<>>, NoAnswer)
      /\ route.nodes = NodesOf(t)
  BY <1>1 DEF IsRouted, RouteAt
<1>3. FoldLeft(KeepHeavy, <<>>, route.nodes) = HeavyOf(t)
  BY <1>2, FirstThreeAreKept
<1>4. HeavyOf(t) # <<>>
  <2>1. DOMAIN HeavyOf(t) = 1 .. Min2(t, 3) /\ 1 \in 1 .. Min2(t, 3)
    BY DEF HeavyOf, Min2
  <2>2. DOMAIN <<>> = {}
    OBVIOUS
  <2> QED BY <2>1, <2>2
<1>5. Go([route EXCEPT !.filtered = HeavyOf(t)])
  BY <1>3, <1>4, Zenon DEF stage_nand_filter
<1>6. ASSUME NEW b, NEW i, NEW n, NEW f, NEW r, NEW m
      PROVE  [RouteAt(9, t, b, i, n, <<>>, r, m) EXCEPT !.filtered = f] = RouteAt(9, t, b, i, n, f, r, m)
  BY DEF RouteAt
<1>7. [RouteAt(9, t, BuiltBefore(6), IdsOf(t), NodesOf(t), <<>>, <<>>, NoAnswer) EXCEPT !.filtered = HeavyOf(t)]
      = RouteAt(9, t, BuiltBefore(6), IdsOf(t), NodesOf(t), HeavyOf(t), <<>>, NoAnswer)
  BY <1>6
<1>8. Go(RouteAt(9, t, BuiltBefore(6), IdsOf(t), NodesOf(t), HeavyOf(t), <<>>, NoAnswer))
  BY <1>2, <1>5, <1>7, Zenon
<1>9. route' = RouteAt(9 + 1, t, BuiltBefore(6), IdsOf(t), NodesOf(t), HeavyOf(t), <<>>, NoAnswer)
  BY <1>8, GoesOn
<1>10. IsFiltered(t)'
  BY <1>9 DEF IsFiltered
<1> QED BY <1>10 DEF RouteInv

LEMMA DispatchStep == ASSUME RouteInv, stage_agent_dispatch PROVE RouteInv'
<1>1. PICK t \in Nat \ {0} : IsFiltered(t)
  BY WhereItIs DEF stage_agent_dispatch
<1>2. route = RouteAt(10, t, BuiltBefore(6), IdsOf(t), NodesOf(t), HeavyOf(t), <<>>, NoAnswer)
      /\ route.filtered = HeavyOf(t)
  BY <1>1 DEF IsFiltered, RouteAt
<1>3. DOMAIN ById(HeavyOf(t)) # {}
  <2>1. 1 \in 1 .. Min2(t, 3)
    BY DEF Min2
  <2>2. IdAt(t, 1) \in DOMAIN ById(HeavyOf(t))
    BY <2>1, ResultsAre
  <2> QED BY <2>2
<1>5. Go([route EXCEPT !.results = ById(HeavyOf(t))])
  BY <1>2, <1>3, Zenon DEF stage_agent_dispatch
<1>6. ASSUME NEW b, NEW i, NEW n, NEW f, NEW r, NEW m
      PROVE  [RouteAt(10, t, b, i, n, f, <<>>, m) EXCEPT !.results = r] = RouteAt(10, t, b, i, n, f, r, m)
  BY DEF RouteAt
<1>7. [RouteAt(10, t, BuiltBefore(6), IdsOf(t), NodesOf(t), HeavyOf(t), <<>>, NoAnswer)
         EXCEPT !.results = ById(HeavyOf(t))]
      = RouteAt(10, t, BuiltBefore(6), IdsOf(t), NodesOf(t), HeavyOf(t), ById(HeavyOf(t)), NoAnswer)
  BY <1>6
<1>8. Go(RouteAt(10, t, BuiltBefore(6), IdsOf(t), NodesOf(t), HeavyOf(t), ById(HeavyOf(t)), NoAnswer))
  BY <1>2, <1>5, <1>7, Zenon
<1>9. route' = RouteAt(10 + 1, t, BuiltBefore(6), IdsOf(t), NodesOf(t), HeavyOf(t), ById(HeavyOf(t)), NoAnswer)
  BY <1>8, GoesOn
<1>10. IsDispatched(t)'
  BY <1>9 DEF IsDispatched
<1> QED BY <1>10 DEF RouteInv

\* What ResultsAre says of the answers by identifier.
AnswersById(t, results) ==
  /\ DOMAIN results = {IdAt(t, k) : k \in 1 .. Min2(t, 3)}
  /\ \A k \in 1 .. Min2(t, 3) : results[IdAt(t, k)] = Result(k)

\* Whatever order the map gives them in, the answers are those of the routes.
LEMMA MergedAnswers ==
  ASSUME NEW t \in Nat, NEW results, AnswersById(t, results), NEW order \in SetToSeqs(DOMAIN results)
  PROVE  LET answers == [k \in DOMAIN order |-> <<order[k], results[order[k]]>>] IN
         /\ Len(answers) = Min2(t, 3)
         /\ ToSet(answers) = {<<IdAt(t, k), Result(k)>> : k \in 1 .. Min2(t, 3)}
<1> DEFINE m == Min2(t, 3)
           S == DOMAIN results
           count == [k \in 1 .. m |-> IdAt(t, k)]
           answers == [k \in DOMAIN order |-> <<order[k], results[order[k]]>>]
<1>0. S = {IdAt(t, k) : k \in 1 .. m} /\ \A k \in 1 .. m : results[IdAt(t, k)] = Result(k)
  BY DEF AnswersById
<1>1. m \in Nat
  BY DEF Min2
<1>2. /\ count \in [1 .. m -> S] /\ \A x \in S : \E k \in 1 .. m : count[k] = x
      /\ \A k, j \in 1 .. m : count[k] = count[j] => k = j
  <2>1. \A k, j \in 1 .. m : IdAt(t, k) = IdAt(t, j) => k = j
    BY <1>1, IdsDiffer
  <2> QED BY <1>0, <2>1
<1>3. order \in [1 .. m -> S] /\ {order[i] : i \in 1 .. m} = S
  <2> HIDE DEF m, S, count
  <2>1. order \in SetToSeqs(S)
    BY DEF S
  <2> QED BY <1>1, <1>2, <2>1, AnyOrder
<1>4. answers = [k \in 1 .. m |-> <<order[k], results[order[k]]>>]
  BY <1>3
<1>5. Len(answers) = m
  <2> HIDE DEF m, answers
  <2> QED BY <1>1, <1>4
<1>6. ToSet(answers) = {<<x, results[x]>> : x \in S}
  <2>1. ToSet(answers) = {<<order[k], results[order[k]]>> : k \in 1 .. m}
    BY <1>4 DEF ToSet
  <2> QED BY <1>3, <2>1
<1>7. {<<x, results[x]>> : x \in S} = {<<IdAt(t, k), Result(k)>> : k \in 1 .. m}
  BY <1>0
<1> QED BY <1>5, <1>6, <1>7, Zenon

LEMMA MergeStep == ASSUME RouteInv, stage_merge_output PROVE RouteInv'
<1>1. PICK t \in Nat \ {0} : IsDispatched(t)
  BY WhereItIs DEF stage_merge_output
<1> DEFINE results == ById(HeavyOf(t))
<1>2. route = RouteAt(11, t, BuiltBefore(6), IdsOf(t), NodesOf(t), HeavyOf(t), results, NoAnswer)
      /\ route.results = results
  BY <1>1 DEF IsDispatched, RouteAt
<1>3. PICK order \in SetToSeqs(DOMAIN results) :
        Go([route EXCEPT !.merged = Ok([k \in DOMAIN order |-> <<order[k], results[order[k]]>>])])
  BY <1>2, Zenon DEF stage_merge_output
<1> DEFINE answers == [k \in DOMAIN order |-> <<order[k], results[order[k]]>>]
<1>4. Len(answers) = Min2(t, 3)
      /\ ToSet(answers) = {<<IdAt(t, k), Result(k)>> : k \in 1 .. Min2(t, 3)}
  <2>1. AnswersById(t, results)
    BY ResultsAre DEF AnswersById
  <2> HIDE DEF results
  <2>2. order \in SetToSeqs(DOMAIN results)
    BY <1>3
  <2> QED BY <2>1, <2>2, MergedAnswers
<1> HIDE DEF results, answers
<1>5. Go([route EXCEPT !.merged = Ok(answers)])
  BY <1>3 DEF answers
<1>6. ASSUME NEW b, NEW i, NEW n, NEW f, NEW r, NEW m
      PROVE  [RouteAt(11, t, b, i, n, f, r, NoAnswer) EXCEPT !.merged = m] = RouteAt(11, t, b, i, n, f, r, m)
  BY DEF RouteAt
<1>7. [RouteAt(11, t, BuiltBefore(6), IdsOf(t), NodesOf(t), HeavyOf(t), results, NoAnswer)
         EXCEPT !.merged = Ok(answers)]
      = RouteAt(11, t, BuiltBefore(6), IdsOf(t), NodesOf(t), HeavyOf(t), results, Ok(answers))
  BY <1>6
<1>8. Go(RouteAt(11, t, BuiltBefore(6), IdsOf(t), NodesOf(t), HeavyOf(t), results, Ok(answers)))
  BY <1>2, <1>5, <1>7, Zenon
<1>9. route' = RouteAt(11 + 1, t, BuiltBefore(6), IdsOf(t), NodesOf(t), HeavyOf(t), results, Ok(answers))
  BY <1>8, GoesOn
<1>10. route'.stage = 12 /\ route'.tokens = t /\ route'.merged = Ok(answers)
  BY <1>9 DEF RouteAt
<1>11. route'.merged.err = "" /\ route'.merged.ok = answers
  <2>1. Ok(answers).err = "" /\ Ok(answers).ok = answers
    BY DEF Ok
  <2> QED BY <1>10, <2>1, Zenon
<1>12. ASSUME NEW merged, merged.err = "", merged.ok = answers
       PROVE  AnswersOnce(t, merged)
  <2>1. t # 0
    OBVIOUS
  <2>2. ToSet(answers) = {<<(k - 1) * 1000 + t, Ok(<<<<"route", k - 1>>, 1, k>>)>> : k \in 1 .. Min2(t, 3)}
    BY <1>4, Zenon DEF IdAt, Result
  <2> QED BY <1>4, <1>12, <2>1, <2>2, Zenon DEF AnswersOnce
<1>13. AnswersOnce(route'.tokens, route'.merged)
  BY <1>10, <1>11, <1>12
<1> QED BY <1>10, <1>13 DEF RouteInv

LEMMA RouteInvNext == RouteInv /\ [RoutingNext]_routeVars => RouteInv'
<1> SUFFICES ASSUME RouteInv, [RoutingNext]_routeVars PROVE RouteInv'
  OBVIOUS
<1>1. ASSUME UNCHANGED route PROVE RouteInv'
  <2>1. ASSUME NEW t
        PROVE  /\ IsStarted(t) => IsStarted(t)'
               /\ \A s \in 2 .. 6 : IsBuilding(s, t) => IsBuilding(s, t)'
               /\ IsChecked(t) => IsChecked(t)'
               /\ IsActivated(t) => IsActivated(t)'
               /\ IsRouted(t) => IsRouted(t)'
               /\ IsFiltered(t) => IsFiltered(t)'
               /\ IsDispatched(t) => IsDispatched(t)'
    BY <1>1, Zenon DEF IsStarted, IsBuilding, IsChecked, IsActivated, IsRouted, IsFiltered, IsDispatched
  <2> QED BY <1>1, <2>1 DEF RouteInv
<1>2. ASSUME NEW id, NEW m, dispatch(id, m) PROVE UNCHANGED route
  BY <1>2 DEF dispatch
<1>3. ASSUME NEW nodes, NEW m, dispatch_batch(nodes, m) PROVE UNCHANGED route
  BY <1>3 DEF dispatch_batch
<1>4. reset \/ UNCHANGED routeVars => UNCHANGED route
  BY DEF reset, routeVars
<1> QED
  BY <1>1, <1>2, <1>3, <1>4, ProcessStep, EmptyStep, BuildStep, CheckStep, ActivateStep, NodesStep,
     FilterStep, DispatchStep, MergeStep DEF RoutingNext

\* A call that has ended without an error of its own has answered as it should.
LEMMA RouteInvImplies == RouteInv => EveryRouteAnswersOnce
<1> SUFFICES ASSUME RouteInv, At(12), route # Empty PROVE EveryRouteAnswersOnce
  BY DEF EveryRouteAnswersOnce
<1>0. AnswersOnce(route.tokens, route.merged) => EveryRouteAnswersOnce
  BY Zenon DEF AnswersOnce, EveryRouteAnswersOnce
<1>1. \A s, t, b, i, n, f, r, m : route = RouteAt(s, t, b, i, n, f, r, m) => route.stage = s
  BY DEF RouteAt
<1>2. \A t : ~ (\/ IsStarted(t) \/ IsChecked(t) \/ IsActivated(t) \/ IsRouted(t) \/ IsFiltered(t) \/ IsDispatched(t)
                \/ \E s \in 2 .. 6 : IsBuilding(s, t))
  BY <1>1 DEF At, IsStarted, IsBuilding, IsChecked, IsActivated, IsRouted, IsFiltered, IsDispatched
<1> QED BY <1>0, <1>2 DEF RouteInv

\* RoutingPipeline: a route answers each of its first three nodes once, in the
\* order of their ids, or fails as the number of its tokens says.
THEOREM RoutesAnswered == RoutingSpec => []EveryRouteAnswersOnce
BY RouteInvInit, RouteInvNext, RouteInvImplies, PTL DEF RoutingSpec

(***************************************************************************)
(* The tokens of a text.                                                   *)
(***************************************************************************)
TextIsSequence == IsSeq(Text) /\ Len(Text) \in Nat /\ DOMAIN Text = 1 .. Len(Text)

\* The search for the end of a run stops behind its start, in the text.
LEMMA RunEnds ==
  ASSUME TextIsSequence, NEW i, In(i), NEW class, Text[i] \in class
  PROVE  RunEnd(i, class) \in i + 1 .. Len(Text) + 1
<1> DEFINE L == Len(Text)
           S == {k \in i .. L + 1 : k = L + 1 \/ Text[k] \notin class}
<1>1. L \in Nat /\ i \in 1 .. L
  BY DEF TextIsSequence, In
<1>2. L + 1 \in S /\ S \in SUBSET Nat
  BY <1>1
<1>3. Min(S) \in S
  <2> HIDE DEF S
  <2> QED BY <1>2, MinIsLeast
<1>4. \A k \in S : k # i /\ k \in i .. L + 1
  BY <1>1
<1>5. \A k \in S : k \in i + 1 .. L + 1
  BY <1>1, <1>4
<1>6. RunEnd(i, class) = Min(S)
  BY DEF RunEnd
<1> QED BY <1>3, <1>5, <1>6

\* So does the search for the end of a string.
LEMMA StringEnds ==
  ASSUME TextIsSequence, NEW start, In(start)
  PROVE  StringEnd(start) \in start + 1 .. Len(Text) + 1
<1> DEFINE L == Len(Text)
           Scan(f) == f = [i \in Nat |->
             IF ~In(i) \/ Text[i] = Text[start] THEN i
             ELSE f[IF Text[i] = "\\" /\ In(i + 1) THEN i + 2 ELSE i + 1]]
           stop == {i \in Nat : ~In(i) \/ Text[i] = Text[start]}
           step == [i \in Nat |-> IF Text[i] = "\\" /\ In(i + 1) THEN i + 2 ELSE i + 1]
<1>1. L \in Nat /\ start \in 1 .. L /\ \A i \in Nat : In(i) <=> i \in 1 .. L
  BY DEF TextIsSequence, In
<1>2. step \in [Nat -> Nat] /\ \A i \in Nat : step[i] \in {i + 1, i + 2}
                            /\ (step[i] = i + 2 => In(i + 1))
  OBVIOUS
<1>3. \A i \in Nat : i \notin stop => i <= L /\ step[i] > i /\ step[i] <= L + 1
  <2>1. ASSUME NEW i \in Nat, i \notin stop PROVE i <= L /\ step[i] > i /\ step[i] <= L + 1
    <3>1. In(i) /\ i <= L
      BY <1>1, <2>1
    <3>2. step[i] \in {i + 1, i + 2} /\ (step[i] = i + 2 => In(i + 1))
      BY <1>2
    <3>3. In(i + 1) => i + 1 <= L
      BY <1>1
    <3> HIDE DEF step, stop, L
    <3> QED BY <1>1, <3>1, <3>2, <3>3
  <2> QED BY <2>1
<1>4. \A f : Scan(f) <=> Searches(f, stop, step)
  <2> SUFFICES ASSUME NEW f
               PROVE [i \in Nat |-> IF ~In(i) \/ Text[i] = Text[start] THEN i
                        ELSE f[IF Text[i] = "\\" /\ In(i + 1) THEN i + 2 ELSE i + 1]]
                     = [i \in Nat |-> IF i \in stop THEN i ELSE f[step[i]]]
    BY Zenon DEF Searches
  <2> QED OBVIOUS
<1>5. \E f : Scan(f)
  <2>1. stop \in SUBSET Nat
    OBVIOUS
  <2>2. \A i \in Nat : i \notin stop => i <= L /\ step[i] > i
    BY <1>3
  <2> HIDE DEF Scan, step, stop, L
  <2>3. \E f : Searches(f, stop, step)
    BY <1>1, <1>2, <2>1, <2>2, SearchExists
  <2> QED BY <1>4, <2>3
<1> DEFINE scan == CHOOSE f : Scan(f)
<1>6. Scan(scan)
  <2> HIDE DEF Scan
  <2> QED BY <1>5
<1>7. StringEnd(start) = IF In(scan[start + 1]) THEN scan[start + 1] + 1 ELSE scan[start + 1]
  BY DEF StringEnd
<1> HIDE DEF scan, Scan
<1>8. scan[start + 1] \in start + 1 .. L + 1
  <2>1. Searches(scan, stop, step)
    BY <1>4, <1>6
  <2>2. \A i \in Nat : i \notin stop => i <= L /\ step[i] \in Nat /\ step[i] > i /\ step[i] <= L + 1
    BY <1>2, <1>3
  <2> HIDE DEF stop, step, L
  <2>3. \A i \in 0 .. L + 1 : scan[i] \in i .. L + 1
    BY <1>1, <2>1, <2>2, SearchEnds
  <2>4. start + 1 \in 0 .. L + 1
    BY <1>1
  <2> QED BY <2>3, <2>4
<1>9. In(scan[start + 1]) => scan[start + 1] <= L
  BY <1>1, <1>8 DEF TextIsSequence, In
<1> QED BY <1>1, <1>7, <1>8, <1>9

\* Every token is longer than nothing and ends in the text or just behind it.
LEMMA TokenEnds ==
  ASSUME TextIsSequence, NEW i, In(i)
  PROVE  /\ NextToken(i).start = i /\ NextToken(i).end \in i + 1 .. Len(Text) + 1
         /\ \E type : NextToken(i) = [type |-> type, start |-> i, end |-> NextToken(i).end]
<1> DEFINE L == Len(Text)
           Tok(type, end) == [type |-> type, start |-> i, end |-> end]
<1>1. L \in Nat /\ i \in 1 .. L /\ DOMAIN Text = 1 .. L
  BY DEF TextIsSequence, In
<1>2. i + 1 \in i + 1 .. L + 1
  BY <1>1
<1>3. Keyword(i) => KeywordEnd(i) \in i + 1 .. L + 1
  <2>1. Keyword(i) => i + 1 \in 1 .. L
    BY <1>1 DEF Keyword, In
  <2>2. In(i + 2) => i + 2 \in 1 .. L
    BY <1>1 DEF In
  <2>3. KeywordEnd(i) \in {i + 2, i + 3} /\ (KeywordEnd(i) = i + 3 => In(i + 2))
    <3>1. i + 2 # i + 3
      BY <1>1
    <3> QED BY <3>1 DEF KeywordEnd
  <2> QED BY <1>1, <2>1, <2>2, <2>3
<1>4. \A class : Text[i] \in class => RunEnd(i, class) \in i + 1 .. L + 1
  BY RunEnds
<1>5. StringEnd(i) \in i + 1 .. L + 1
  BY StringEnds
<1>6. \E type, end : NextToken(i) = Tok(type, end) /\ end \in i + 1 .. L + 1
  <2> DEFINE c == Text[i]
  <2>0. NextToken(i) = CASE c \in Space           -> Tok("WHITESPACE", RunEnd(i, Space))
                          [] Keyword(i)           -> Tok("STRUCTURAL", KeywordEnd(i))
                          [] ~Keyword(i) /\ c \in Alpha \cup {"_"} -> Tok("IDENTIFIER", RunEnd(i, WordChar))
                          [] c \in Quote           -> Tok("LITERAL", StringEnd(i))
                          [] c \in Digit           -> Tok("LITERAL", RunEnd(i, Number))
                          [] c \in Punct           -> Tok("PUNCTUATION", i + 1)
                          [] OTHER                -> Tok("UNKNOWN", i + 1)
    BY DEF NextToken
  <2>1. Alpha \cup {"_"} \subseteq WordChar /\ Digit \subseteq Number
    BY DEF WordChar, Number
  <2> HIDE DEF c, Tok
  <2>2. c \in Space => RunEnd(i, Space) \in i + 1 .. L + 1
    BY <1>4 DEF c
  <2>3. c \in Alpha \cup {"_"} => RunEnd(i, WordChar) \in i + 1 .. L + 1
    BY <1>4, <2>1 DEF c
  <2>4. c \in Digit => RunEnd(i, Number) \in i + 1 .. L + 1
    BY <1>4, <2>1 DEF c
  <2> QED BY <1>2, <1>3, <1>5, <2>0, <2>2, <2>3, <2>4
<1>7. PICK type, end : NextToken(i) = Tok(type, end) /\ end \in i + 1 .. L + 1
  BY <1>6
<1>8. NextToken(i).start = i /\ NextToken(i).end = end
  BY <1>7
<1>9. NextToken(i) = [type |-> type, start |-> i, end |-> NextToken(i).end]
  BY <1>7, <1>8, Zenon
<1> QED BY <1>7, <1>8, <1>9, Zenon

(***************************************************************************)
(* RegexInv: the next character is the one behind the last token, and what *)
(* the answer says of the text was decided before the first token.         *)
(***************************************************************************)
Tiled ==
  \A k \in DOMAIN tokens :
    /\ tokens[k].start < tokens[k].end /\ tokens[k].end <= Len(Text) + 1
    /\ tokens[k].start = IF k = 1 THEN 1 ELSE tokens[k - 1].end
PlaceIsNext == place \in 1 .. Len(Text) + 1
               /\ place = IF tokens = <<>> THEN 1 ELSE tokens[Len(tokens)].end
Cutting == parse_result \in {Running, "OK"}
Refusals == \A i \in DOMAIN DANGEROUS_PATTERNS :
  parse_result = DANGEROUS_PATTERNS[i] => \E j \in subject.matches \cap Compiles : DANGEROUS_PATTERNS[j] = parse_result
RegexInv ==
  /\ TextIsSequence /\ IsSeq(tokens) /\ PlaceIsNext /\ Tiled
  /\ ~Cutting => tokens = <<>>
  /\ Cutting => subject.matches \cap Compiles = {}
  /\ parse_result = "OK" => ~(In(place) /\ Len(tokens) < MaxTokens1024)
  /\ Refusals

\* A danger is named by the pattern that found it.
LEMMA PatternNames ==
  /\ Len(DANGEROUS_PATTERNS) = 17 /\ DOMAIN DANGEROUS_PATTERNS = 1 .. 17
  /\ \A i \in 1 .. 17 : DANGEROUS_PATTERNS[i] \notin {Idle, Running, "OK", "null_input", "tokenization_failed"}
<1>1. Len(DANGEROUS_PATTERNS) = 17 /\ DOMAIN DANGEROUS_PATTERNS = 1 .. 17
  BY DEF DANGEROUS_PATTERNS
<1>2. ASSUME NEW i \in 1 .. 17
      PROVE  DANGEROUS_PATTERNS[i] \notin {Idle, Running, "OK", "null_input", "tokenization_failed"}
  BY DEF DANGEROUS_PATTERNS, Idle, Running
<1> QED BY <1>1, <1>2

\* Which patterns are tried: those that compiled.
LEMMA DangersAre ==
  ASSUME NEW matches
  PROVE  /\ Dangers(matches) = matches \cap Compiles
         /\ Dangers(matches) # {} => Min(Dangers(matches)) \in matches \cap Compiles
         /\ Compiles \in SUBSET (1 .. 17)
<1>1. PICK n \in 0 .. 17 : Compiles = 1 .. n
  BY TableAssumption, PatternNames
<1>2. Cardinality(1 .. n) = n
  <2>1. Cardinality(1 .. n) = IF 1 > n THEN 0 ELSE n - 1 + 1
    BY FS_Interval
  <2> QED BY <2>1
<1>3. num_patterns = n
  BY <1>1, <1>2 DEF num_patterns
<1>4. Dangers(matches) = matches \cap Compiles
  BY <1>1, <1>3 DEF Dangers
<1>5. matches \cap Compiles \in SUBSET Nat /\ Compiles \in SUBSET (1 .. 17)
  BY <1>1
<1> QED BY <1>4, <1>5, MinIsLeast

LEMMA RegexInvInit == RegexInit => RegexInv
<1> SUFFICES ASSUME RegexInit PROVE RegexInv
  OBVIOUS
<1>1. Text = <<>> /\ place = 1 /\ tokens = <<>> /\ parse_result = Idle
  BY DEF RegexInit, Text
<1>2. TextIsSequence /\ IsSeq(tokens) /\ PlaceIsNext /\ Tiled
  BY <1>1 DEF TextIsSequence, IsSeq, PlaceIsNext, Tiled
<1>3. Idle \notin {Running, "OK"}
  BY DEF Idle, Running
<1>4. Refusals
  BY <1>1, PatternNames DEF Refusals
<1> QED BY <1>1, <1>2, <1>3, <1>4 DEF RegexInv, Cutting, Idle

LEMMA ParseStep == ASSUME RegexInv, hk_parse_input PROVE RegexInv'
<1>1. parse_result = Idle /\ tokens' = <<>> /\ place' = 1
  <2>1. Idle \notin {Running, "OK"}
    BY DEF Idle, Running
  <2> QED BY <2>1 DEF RegexInv, hk_parse_input, Cutting, PlaceIsNext
<1>2. CASE parse_result' = "null_input" /\ UNCHANGED subject
  <2>1. Refusals' /\ ~Cutting' /\ parse_result' # "OK"
    BY <1>2, PatternNames DEF Refusals, Cutting, Running
  <2>2. TextIsSequence'
    BY <1>2 DEF RegexInv, TextIsSequence, IsSeq, Text
  <2>3. (IsSeq(tokens) /\ PlaceIsNext /\ Tiled)'
    BY <1>1, <2>2 DEF IsSeq, PlaceIsNext, Tiled, TextIsSequence
  <2> QED BY <1>1, <2>1, <2>2, <2>3 DEF RegexInv
<1>3. CASE /\ subject' \in Texts
           /\ parse_result' \in IF Dangers(subject'.matches) = {} THEN {Running, "tokenization_failed"}
                                ELSE {DANGEROUS_PATTERNS[Min(Dangers(subject'.matches))]}
  <2>1. TextIsSequence'
    <3>1. Text' \in Seq({Text'[i] : i \in DOMAIN Text'})
      BY <1>3, TableAssumption DEF Text
    <3>2. IsSeq(Text')
      BY <3>1 DEF IsSeq
    <3> QED BY <3>2, SeqFacts DEF TextIsSequence
  <2>2. (IsSeq(tokens) /\ PlaceIsNext /\ Tiled)'
    BY <1>1, <2>1 DEF IsSeq, PlaceIsNext, Tiled, TextIsSequence
  <2>3. CASE Dangers(subject'.matches) = {}
    <3>1. parse_result' \in {Running, "tokenization_failed"}
      BY <1>3, <2>3
    <3>2. subject'.matches \cap Compiles = {}
      BY <2>3, DangersAre
    <3>3. Refusals' /\ parse_result' # "OK"
      BY <3>1, PatternNames DEF Refusals, Running
    <3> QED BY <1>1, <2>1, <2>2, <3>2, <3>3 DEF RegexInv
  <2>4. CASE Dangers(subject'.matches) # {}
    <3> DEFINE j == Min(Dangers(subject'.matches))
    <3>1. parse_result' = DANGEROUS_PATTERNS[j]
      BY <1>3, <2>4
    <3>2. j \in subject'.matches \cap Compiles /\ j \in 1 .. 17
      BY <2>4, DangersAre
    <3> HIDE DEF j
    <3>3. ~Cutting' /\ parse_result' # "OK"
      BY <3>1, <3>2, PatternNames DEF Cutting
    <3>4. Refusals'
      BY <3>1, <3>2 DEF Refusals
    <3> QED BY <1>1, <2>1, <2>2, <3>3, <3>4 DEF RegexInv
  <2> QED BY <2>3, <2>4
<1> QED BY <1>2, <1>3 DEF hk_parse_input

LEMMA TokenStep == ASSUME RegexInv, tokenize PROVE RegexInv'
<1> DEFINE n == Len(tokens)
           t == NextToken(place)
<1>1. TextIsSequence /\ IsSeq(tokens) /\ PlaceIsNext /\ Tiled /\ In(place)
  BY DEF RegexInv, tokenize
<1>2. parse_result = Running /\ tokens' = Append(tokens, t) /\ place' = t.end /\ UNCHANGED <<subject, parse_result>>
  BY DEF tokenize
<1>3. t.start = place /\ t.end \in place + 1 .. Len(Text) + 1
  BY <1>1, TokenEnds
<1> HIDE DEF t
<1>4. /\ IsSeq(tokens') /\ Len(tokens') = n + 1 /\ DOMAIN tokens' = 1 .. n + 1
      /\ (\A k \in 1 .. n : tokens'[k] = tokens[k]) /\ tokens'[n + 1] = t
  BY <1>1, <1>2, AppendFacts
<1>5. n \in Nat /\ DOMAIN tokens = 1 .. n /\ (tokens = <<>> <=> n = 0) /\ (tokens' = <<>> <=> n + 1 = 0)
  BY <1>1, <1>4, SeqFacts
<1> HIDE DEF n
<1>6. TextIsSequence' /\ Text' = Text /\ Len(Text) \in Nat
  BY <1>1, <1>2 DEF TextIsSequence, IsSeq, Text
<1>7. PlaceIsNext'
  <2>1. place' = tokens'[Len(tokens')].end /\ tokens' # <<>>
    BY <1>2, <1>4, <1>5
  <2>2. place' \in 1 .. Len(Text) + 1
    BY <1>1, <1>2, <1>3, <1>6 DEF PlaceIsNext
  <2> QED BY <1>6, <2>1, <2>2 DEF PlaceIsNext
<1>8. Tiled'
  <2>1. ASSUME NEW k \in 1 .. n + 1
        PROVE  /\ tokens'[k].start < tokens'[k].end /\ tokens'[k].end <= Len(Text) + 1
               /\ tokens'[k].start = IF k = 1 THEN 1 ELSE tokens'[k - 1].end
    <3>1. CASE k = n + 1
      <4>1. t.start = IF k = 1 THEN 1 ELSE tokens[k - 1].end
        BY <1>1, <1>3, <1>5, <3>1 DEF PlaceIsNext, n
      <4>2. k # 1 => tokens'[k - 1] = tokens[k - 1]
        BY <1>4, <1>5, <3>1
      <4>3. t.start < t.end /\ t.end <= Len(Text) + 1
        BY <1>1, <1>3, <1>6 DEF PlaceIsNext
      <4> QED BY <1>4, <3>1, <4>1, <4>2, <4>3
    <3>2. CASE k # n + 1
      <4>1. k \in 1 .. n /\ (k # 1 => k - 1 \in 1 .. n)
        BY <1>5, <3>2
      <4> QED BY <1>1, <1>4, <1>5, <4>1 DEF Tiled
    <3> QED BY <3>1, <3>2
  <2> QED BY <1>4, <1>6, <2>1 DEF Tiled
<1>9. Cutting' /\ subject'.matches \cap Compiles = {} /\ parse_result' # "OK"
  BY <1>2 DEF RegexInv, Cutting, Running
<1>10. Refusals'
  BY <1>2 DEF RegexInv, Refusals
<1> QED BY <1>4, <1>6, <1>7, <1>8, <1>9, <1>10 DEF RegexInv

LEMMA RegexInvNext == RegexInv /\ [RegexNext]_regexVars => RegexInv'
<1> SUFFICES ASSUME RegexInv, [RegexNext]_regexVars PROVE RegexInv'
  OBVIOUS
<1>1. CASE HK_PARSE_OK
  <2>1. parse_result = Running /\ ~(In(place) /\ Len(tokens) < MaxTokens1024)
        /\ parse_result' = "OK" /\ UNCHANGED <<subject, place, tokens>>
    BY <1>1 DEF HK_PARSE_OK
  <2>2. (TextIsSequence /\ IsSeq(tokens) /\ PlaceIsNext /\ Tiled)'
    BY <2>1 DEF RegexInv, TextIsSequence, IsSeq, PlaceIsNext, Tiled, Text
  <2>3. Cutting' /\ Cutting /\ subject'.matches \cap Compiles = {}
    BY <2>1 DEF RegexInv, Cutting
  <2>4. Refusals'
    BY <2>1, PatternNames DEF Refusals
  <2>5. ~(In(place) /\ Len(tokens) < MaxTokens1024)'
    BY <2>1 DEF In, Text
  <2> QED BY <2>2, <2>3, <2>4, <2>5 DEF RegexInv
<1>2. CASE hk_parse_result_free
  <2>1. RegexInit'
    BY <1>2 DEF hk_parse_result_free, RegexInit
  <2> QED BY <2>1, RegexInvInit, PTL
<1>3. CASE UNCHANGED regexVars
  BY <1>3 DEF regexVars, RegexInv, TextIsSequence, IsSeq, PlaceIsNext, Tiled, Text, Cutting, Refusals, In
<1> QED BY <1>1, <1>2, <1>3, ParseStep, TokenStep DEF RegexNext

LEMMA RegexInvImplies == RegexInv => TokensTileTheText
<1> SUFFICES ASSUME RegexInv PROVE TokensTileTheText
  OBVIOUS
<1>1. ASSUME parse_result = "OK", Len(tokens) < MaxTokens1024
      PROVE  IF tokens = <<>> THEN Text = <<>> ELSE tokens[Len(tokens)].end = Len(Text) + 1
  <2>1. ~In(place) /\ PlaceIsNext /\ TextIsSequence
    BY <1>1 DEF RegexInv
  <2>2. place = Len(Text) + 1
    BY <2>1 DEF In, TextIsSequence, PlaceIsNext
  <2>3. CASE tokens = <<>>
    <3>1. Len(Text) = 0
      BY <2>1, <2>2, <2>3 DEF PlaceIsNext, TextIsSequence
    <3> QED BY <2>1, <2>3, <3>1, SeqFacts DEF TextIsSequence
  <2>4. CASE tokens # <<>>
    BY <2>1, <2>2, <2>4 DEF PlaceIsNext
  <2> QED BY <2>3, <2>4
<1>2. parse_result = "OK" => subject.matches \cap Compiles = {}
  BY DEF RegexInv, Cutting
<1>3. tokens # <<>> => parse_result \in {Running, "OK"}
  BY DEF RegexInv, Cutting
<1> QED BY <1>1, <1>2, <1>3, Zenon DEF RegexInv, Tiled, Refusals, TokensTileTheText

\* regex_parser.c: for every text, its tokens lie end to end in it, and a text
\* with a dangerous pattern has none.
THEOREM TextsAreTiled == RegexSpec => []TokensTileTheText
BY RegexInvInit, RegexInvNext, RegexInvImplies, PTL DEF RegexSpec

(***************************************************************************)
(* The inverted tree.  Every walk through it goes down: a grade of its     *)
(* nodes falls from each to its children.                                  *)
(***************************************************************************)

Place(m) == DOMAIN heap[m].children
Child(m, i) == heap[m].children[i]
Graded(r, H) ==
  /\ r \in [Nodes -> 0 .. H]
  /\ \A m \in Nodes : \A i \in Place(m) : r[Child(m, i)] < r[m]
Tree ==
  /\ \A m \in Nodes : heap[m].children \in Seq(Nodes) /\ Wt(m) \in {0, 1}
  /\ \A m \in Nodes : \A i \in Place(m) : Wt(m) = 0 => Wt(Child(m, i)) = 0
  /\ \E H \in Nat : \E r : Graded(r, H)

\* A node's children, one by one.
LEMMA TreeFacts ==
  ASSUME Tree, NEW m \in Nodes
  PROVE  /\ Len(heap[m].children) \in Nat /\ Place(m) = 1 .. Len(heap[m].children)
         /\ \A i \in Place(m) : Child(m, i) \in Nodes
         /\ Wt(m) \in {0, 1}
BY DEF Tree, Place, Child

\* What holds of a node when it holds of those of a lower grade holds of all.
LEMMA Downwards ==
  ASSUME NEW H \in Nat, NEW D, NEW r \in [D -> 0 .. H], NEW S,
         \A m \in D : (\A k \in D : r[k] < r[m] => k \in S) => m \in S
  PROVE  D \subseteq S
<1> DEFINE T == {h \in 0 .. H + 1 : \A m \in D : r[m] < h => m \in S}
<1>1. 0 \in T
  OBVIOUS
<1>2. ASSUME NEW h \in 0 .. H + 1 - 1, h \in T PROVE h + 1 \in T
  <2> SUFFICES ASSUME NEW m \in D, r[m] < h + 1 PROVE m \in S
    OBVIOUS
  <2>1. ASSUME NEW k \in D, r[k] < r[m] PROVE k \in S
    <3>1. r[k] < h
      BY <2>1
    <3> QED BY <1>2, <3>1
  <2> QED BY <2>1
<1>3. \A h \in 0 .. H + 1 : h \in T
  <2>1. H + 1 \in Nat
    OBVIOUS
  <2> HIDE DEF T
  <2> QED BY <1>1, <1>2, <2>1, UpTo
<1>4. H + 1 \in T
  BY <1>3
<1> QED BY <1>4

\* The three walks, each by what it makes of the results for the children.
Results(f, m) == [i \in Place(m) |-> f[Child(m, i)]]
Makes(way, m, rs) ==
  CASE way = "below"  -> {m} \cup UNION {rs[i] : i \in Place(m)}
    [] way = "weight" -> 10 * Wt(m) + Added([i \in Place(m) |-> (edge_weight(m, Child(m, i)) * rs[i]) \div 10])
    [] OTHER          -> Chained(<<m>>, rs)
Walks(f, way) == f = [m \in Nodes |-> Makes(way, m, Results(f, m))]

\* There is a walk of each kind.
LEMMA WalkExists ==
  ASSUME Tree, NEW way
  PROVE  \E f : Walks(f, way)
<1>1. PICK H \in Nat : \E r : Graded(r, H)
  BY DEF Tree
<1>2. PICK r : Graded(r, H)
  BY <1>1
<1>3. /\ r \in [Nodes -> 0 .. H]
      /\ \A m \in Nodes : \A i \in Place(m) : Child(m, i) \in Nodes /\ r[Child(m, i)] < r[m]
  BY <1>2, TreeFacts DEF Graded
<1> DEFINE Right(f, m) == f[m] = Makes(way, m, Results(f, m))
           S == {h \in 0 .. H + 1 : \E f : f = [m \in Nodes |-> f[m]] /\ \A m \in Nodes : r[m] < h => Right(f, m)}
<1>4. 0 \in S
  <2> DEFINE f == [m \in Nodes |-> 0]
  <2>1. f = [m \in Nodes |-> f[m]]
    OBVIOUS
  <2>2. \A m \in Nodes : ~(r[m] < 0)
    BY <1>3
  <2> HIDE DEF f, Right
  <2> QED BY <2>1, <2>2
<1>5. ASSUME NEW h \in 0 .. H + 1 - 1, h \in S PROVE h + 1 \in S
  <2>1. PICK f : f = [m \in Nodes |-> f[m]] /\ \A m \in Nodes : r[m] < h => Right(f, m)
    <3> HIDE DEF Right
    <3> QED BY <1>5
  <2> DEFINE g == [m \in Nodes |-> IF r[m] = h THEN Makes(way, m, Results(f, m)) ELSE f[m]]
  <2>2. g = [m \in Nodes |-> g[m]]
    OBVIOUS
  <2>3. ASSUME NEW m \in Nodes, r[m] < h + 1 PROVE Right(g, m)
    <3>1. r[m] \in Nat /\ r[m] <= h
      BY <1>3, <2>3
    <3>2. \A i \in Place(m) : Child(m, i) \in Nodes /\ r[Child(m, i)] # h
      <4> SUFFICES ASSUME NEW i \in Place(m) PROVE Child(m, i) \in Nodes /\ r[Child(m, i)] # h
        OBVIOUS
      <4>1. Child(m, i) \in Nodes /\ r[Child(m, i)] < r[m]
        BY <1>3
      <4>2. r[Child(m, i)] \in 0 .. H
        BY <1>3, <4>1
      <4> QED BY <3>1, <4>1, <4>2
    <3>3. \A i \in Place(m) : g[Child(m, i)] = f[Child(m, i)]
      BY <3>2
    <3>4. Results(g, m) = Results(f, m)
      <4> HIDE DEF g
      <4> QED BY <3>3 DEF Results
    <3>5. CASE r[m] = h
      BY <3>4, <3>5
    <3>6. CASE r[m] # h
      <4>1. g[m] = f[m] /\ r[m] < h
        BY <3>1, <3>6
      <4>2. f[m] = Makes(way, m, Results(f, m))
        BY <2>1, <4>1
      <4> HIDE DEF g
      <4> QED BY <3>4, <4>1, <4>2
    <3> QED BY <3>5, <3>6
  <2> HIDE DEF g, Right
  <2> QED BY <2>2, <2>3
<1>6. \A h \in 0 .. H + 1 : h \in S
  <2>1. H + 1 \in Nat
    OBVIOUS
  <2> HIDE DEF S
  <2> QED BY <1>4, <1>5, <2>1, UpTo
<1>7. PICK f : f = [m \in Nodes |-> f[m]] /\ \A m \in Nodes : r[m] < H + 1 => Right(f, m)
  <2>1. H + 1 \in S
    BY <1>6
  <2> HIDE DEF Right
  <2> QED BY <2>1
<1>8. \A m \in Nodes : r[m] < H + 1
  BY <1>3
<1>9. \A m \in Nodes : f[m] = Makes(way, m, Results(f, m))
  BY <1>7, <1>8
<1>10. Walks(f, way)
  BY <1>7, <1>9, Zenon DEF Walks
<1> QED BY <1>10

\* What the three walks find.
LEMMA BelowIs ==
  ASSUME Tree, NEW n \in Nodes
  PROVE  Below(n) = {n} \cup UNION {Below(Child(n, i)) : i \in Place(n)}
<1> DEFINE V(v) == v = [m \in Nodes |-> {m} \cup UNION {v[heap[m].children[i]] : i \in DOMAIN heap[m].children}]
           below == CHOOSE v : V(v)
<1>1. \A m \in Nodes : Below(m) = below[m]
  BY Zenon DEF Below
<1>2. \E v : V(v)
  <2>1. PICK f : Walks(f, "below")
    BY WalkExists
  <2>2. \A m \in Nodes : Makes("below", m, Results(f, m))
                         = {m} \cup UNION {f[heap[m].children[i]] : i \in DOMAIN heap[m].children}
    BY DEF Makes, Results, Place, Child
  <2>3. V(f)
    BY <2>1, <2>2, Zenon DEF Walks
  <2> QED BY <2>3
<1>3. V(below)
  <2> HIDE DEF V
  <2> QED BY <1>2
<1> HIDE DEF below
<1>4. below[n] = {n} \cup UNION {below[Child(n, i)] : i \in Place(n)}
  BY <1>3 DEF Child, Place
<1>5. \A i \in Place(n) : Child(n, i) \in Nodes
  BY TreeFacts
<1>6. {below[Child(n, i)] : i \in Place(n)} = {Below(Child(n, i)) : i \in Place(n)}
  BY <1>1, <1>5
<1> QED BY <1>1, <1>4, <1>6

\* What a tree weighs, from its children.
LEMMA WeightIs ==
  ASSUME Tree, NEW n \in Nodes
  PROVE  hk_ast_compute_weight(n)
         = 10 * Wt(n) + Added([i \in Place(n) |->
             (edge_weight(n, Child(n, i)) * hk_ast_compute_weight(Child(n, i))) \div 10])
<1> DEFINE V(v) == v = [m \in Nodes |-> 10 * Wt(m) + Added([i \in DOMAIN heap[m].children |->
                     (edge_weight(m, heap[m].children[i]) * v[heap[m].children[i]]) \div 10])]
           total == CHOOSE v : V(v)
<1>1. \A m \in Nodes : hk_ast_compute_weight(m) = total[m]
  BY Zenon DEF hk_ast_compute_weight
<1>2. \E v : V(v)
  <2>1. PICK f : Walks(f, "weight")
    BY WalkExists
  <2>2. ASSUME NEW m \in Nodes
        PROVE  Makes("weight", m, Results(f, m))
               = 10 * Wt(m) + Added([i \in DOMAIN heap[m].children |->
                   (edge_weight(m, heap[m].children[i]) * f[heap[m].children[i]]) \div 10])
    <3>1. Makes("weight", m, Results(f, m))
          = 10 * Wt(m) + Added([i \in Place(m) |-> (edge_weight(m, Child(m, i)) * Results(f, m)[i]) \div 10])
      BY DEF Makes
    <3>2. [i \in Place(m) |-> (edge_weight(m, Child(m, i)) * Results(f, m)[i]) \div 10]
          = [i \in DOMAIN heap[m].children |-> (edge_weight(m, heap[m].children[i]) * f[heap[m].children[i]]) \div 10]
      BY DEF Results, Place, Child
    <3> QED BY <3>1, <3>2, Zenon
  <2>3. V(f)
    BY <2>1, <2>2, Zenon DEF Walks
  <2> QED BY <2>3
<1>3. V(total)
  <2> HIDE DEF V
  <2> QED BY <1>2
<1> HIDE DEF total
<1>4. total[n] = 10 * Wt(n) + Added([i \in Place(n) |-> (edge_weight(n, Child(n, i)) * total[Child(n, i)]) \div 10])
  BY <1>3 DEF Child, Place
<1>5. \A i \in Place(n) : Child(n, i) \in Nodes
  BY TreeFacts
<1>6. [i \in Place(n) |-> (edge_weight(n, Child(n, i)) * total[Child(n, i)]) \div 10]
      = [i \in Place(n) |-> (edge_weight(n, Child(n, i)) * hk_ast_compute_weight(Child(n, i))) \div 10]
  BY <1>1, <1>5
<1> QED BY <1>1, <1>4, <1>6, Zenon

\* The list of a tree, from those of its children.
LEMMA FlatIsChained ==
  ASSUME Tree, NEW n \in Nodes
  PROVE  flatten_tree(n) = Chained(<<n>>, [i \in Place(n) |-> flatten_tree(Child(n, i))])
<1> DEFINE V(v) == v = [m \in Nodes |-> Chained(<<m>>, [i \in DOMAIN heap[m].children |-> v[heap[m].children[i]]])]
           flat == CHOOSE v : V(v)
<1>1. \A m \in Nodes : flatten_tree(m) = flat[m]
  BY Zenon DEF flatten_tree
<1>2. \E v : V(v)
  <2>1. PICK f : Walks(f, "flat")
    BY WalkExists
  <2>2. ASSUME NEW m \in Nodes
        PROVE  Makes("flat", m, Results(f, m))
               = Chained(<<m>>, [i \in DOMAIN heap[m].children |-> f[heap[m].children[i]]])
    <3>1. Makes("flat", m, Results(f, m)) = Chained(<<m>>, Results(f, m))
      BY DEF Makes
    <3>2. Results(f, m) = [i \in DOMAIN heap[m].children |-> f[heap[m].children[i]]]
      BY DEF Results, Place, Child
    <3> QED BY <3>1, <3>2, Zenon
  <2>3. V(f)
    BY <2>1, <2>2, Zenon DEF Walks
  <2> QED BY <2>3
<1>3. V(flat)
  <2> HIDE DEF V
  <2> QED BY <1>2
<1> HIDE DEF flat
<1>4. flat[n] = Chained(<<n>>, [i \in Place(n) |-> flat[Child(n, i)]])
  BY <1>3 DEF Child, Place
<1>5. \A i \in Place(n) : Child(n, i) \in Nodes
  BY TreeFacts
<1>6. [i \in Place(n) |-> flat[Child(n, i)]] = [i \in Place(n) |-> flatten_tree(Child(n, i))]
  BY <1>1, <1>5
<1> QED BY <1>1, <1>4, <1>6, Zenon

\* What is below a node has a lower grade, takes with it what is below itself,
\* and hangs on something that is below the node too; below a payload there
\* are only payloads.
Under(r, n) ==
  /\ n \in Below(n) /\ Below(n) \subseteq Nodes
  /\ \A m \in Below(n) :
       /\ m = n \/ r[m] < r[n]
       /\ Below(m) \subseteq Below(n)
       /\ m # n => \E p \in Below(n) : \E i \in Place(p) : Child(p, i) = m
       /\ Wt(n) = 0 => Wt(m) = 0

\* All nodes are like that.
LEMMA AllUnder ==
  ASSUME Tree, NEW H \in Nat, NEW r, Graded(r, H)
  PROVE  \A n \in Nodes : Under(r, n)
<1>1. /\ r \in [Nodes -> 0 .. H]
      /\ \A m \in Nodes : \A i \in Place(m) : Child(m, i) \in Nodes /\ r[Child(m, i)] < r[m]
  BY TreeFacts DEF Graded
<1> DEFINE S == {n \in Nodes : Under(r, n)}
<1>2. ASSUME NEW n \in Nodes, \A k \in Nodes : r[k] < r[n] => k \in S PROVE n \in S
  <2>1. Below(n) = {n} \cup UNION {Below(Child(n, i)) : i \in Place(n)}
    BY BelowIs
  <2>2. \A i \in Place(n) : Child(n, i) \in Nodes /\ r[Child(n, i)] < r[n] /\ Under(r, Child(n, i))
    BY <1>1, <1>2
  <2>3. \A i \in Place(n) : Child(n, i) \in Below(Child(n, i)) /\ Below(Child(n, i)) \subseteq Nodes
    BY <2>2 DEF Under
  <2>4. n \in Below(n) /\ Below(n) \subseteq Nodes /\ \A i \in Place(n) : Below(Child(n, i)) \subseteq Below(n)
    BY <2>1, <2>3
  <2>5. ASSUME NEW m \in Below(n)
        PROVE  /\ m = n \/ r[m] < r[n]
               /\ Below(m) \subseteq Below(n)
               /\ m # n => \E p \in Below(n) : \E i \in Place(p) : Child(p, i) = m
               /\ Wt(n) = 0 => Wt(m) = 0
    <3>1. CASE m = n
      BY <2>4, <3>1
    <3>2. CASE m # n
      <4>1. PICK i \in Place(n) : m \in Below(Child(n, i))
        BY <2>1, <3>2
      <4> DEFINE k == Child(n, i)
      <4>2. k \in Nodes /\ r[k] < r[n] /\ Under(r, k)
        BY <2>2
      <4>3. Wt(n) = 0 => Wt(k) = 0
        BY DEF Tree
      <4>7. Below(k) \subseteq Below(n) /\ Child(n, i) = k
        BY <2>4
      <4> HIDE DEF k
      <4>4. /\ m = k \/ r[m] < r[k]
            /\ Below(m) \subseteq Below(k)
            /\ m # k => \E p \in Below(k) : \E j \in Place(p) : Child(p, j) = m
            /\ Wt(k) = 0 => Wt(m) = 0
        BY <4>1, <4>2 DEF Under, k
      <4>5. r[m] \in 0 .. H /\ r[k] \in 0 .. H /\ r[n] \in 0 .. H
        BY <1>1, <2>4, <4>2
      <4>6. r[m] < r[n]
        BY <4>2, <4>4, <4>5
      <4>8. \E p \in Below(n) : \E j \in Place(p) : Child(p, j) = m
        BY <2>4, <4>4, <4>7
      <4> QED BY <4>3, <4>4, <4>6, <4>7, <4>8
    <3> QED BY <3>1, <3>2
  <2>6. Under(r, n)
    BY <2>4, <2>5 DEF Under
  <2> QED BY <2>6
<1>3. Nodes \subseteq S
  <2> HIDE DEF S
  <2> QED BY <1>1, <1>2, Downwards
<1> QED BY <1>3

\* Children of what is below a node are below it.
LEMMA ChildBelow ==
  ASSUME Tree, NEW n \in Nodes, NEW p \in Below(n), NEW i \in Place(p)
  PROVE  Child(p, i) \in Below(n) /\ p \in Nodes /\ Child(p, i) \in Nodes
<1>1. PICK H \in Nat : \E r : Graded(r, H)
  BY DEF Tree
<1>2. PICK r : Graded(r, H)
  BY <1>1
<1>3. \A m \in Nodes : Under(r, m)
  BY <1>2, AllUnder
<1>4. p \in Nodes /\ Below(p) \subseteq Below(n)
  BY <1>3 DEF Under
<1>5. Child(p, i) \in Nodes
  BY <1>4, TreeFacts
<1>6. Child(p, i) \in Below(Child(p, i))
  BY <1>3, <1>5 DEF Under
<1>7. Child(p, i) \in Below(p)
  BY <1>4, <1>6, BelowIs
<1> QED BY <1>4, <1>5, <1>7

\* Two nodes above one node are one above the other, if none is attached twice.
LEMMA OneLine ==
  ASSUME Tree, AttachedOnce, NEW a \in Nodes, NEW b \in Nodes, NEW x, x \in Below(a), x \in Below(b)
  PROVE  a \in Below(b) \/ b \in Below(a)
<1>1. PICK H \in Nat : \E r : Graded(r, H)
  BY DEF Tree
<1>2. PICK r : Graded(r, H)
  BY <1>1
<1>3. \A m \in Nodes : Under(r, m)
  BY <1>2, AllUnder
<1>4. /\ r \in [Nodes -> 0 .. H]
      /\ \A m \in Nodes : \A i \in Place(m) : Child(m, i) \in Nodes /\ r[Child(m, i)] < r[m]
  BY <1>2, TreeFacts DEF Graded
<1> DEFINE S == {y \in Nodes : y \in Below(a) /\ y \in Below(b) => a \in Below(b) \/ b \in Below(a)}
           up == [y \in Nodes |-> H - r[y]]
<1>5. up \in [Nodes -> 0 .. H] /\ \A y \in Nodes : up[y] = H - r[y]
  BY <1>4
<1> HIDE DEF up
<1>6. ASSUME NEW y \in Nodes, \A k \in Nodes : up[k] < up[y] => k \in S PROVE y \in S
  <2> SUFFICES ASSUME y \in Below(a), y \in Below(b) PROVE a \in Below(b) \/ b \in Below(a)
    OBVIOUS
  <2>1. CASE y = a \/ y = b
    BY <2>1
  <2>2. CASE y # a /\ y # b
    <3>1. PICK p \in Below(a) : \E i \in Place(p) : Child(p, i) = y
      BY <1>3, <2>2 DEF Under
    <3>2. PICK q \in Below(b) : \E j \in Place(q) : Child(q, j) = y
      BY <1>3, <2>2 DEF Under
    <3>3. PICK i \in Place(p) : Child(p, i) = y
      BY <3>1
    <3>4. PICK j \in Place(q) : Child(q, j) = y
      BY <3>2
    <3>5. p \in Nodes /\ q \in Nodes
      BY <1>3 DEF Under
    <3>6. p = q
      BY <3>3, <3>4, <3>5 DEF AttachedOnce, Place, Child
    <3>7. r[y] < r[p] /\ r[y] \in 0 .. H /\ r[p] \in 0 .. H
      BY <1>4, <3>3, <3>5
    <3>8. up[p] < up[y]
      BY <1>5, <3>5, <3>7
    <3>9. p \in S
      BY <1>6, <3>5, <3>8
    <3> QED BY <3>6, <3>9
  <2> QED BY <2>1, <2>2
<1>7. Nodes \subseteq S
  <2> HIDE DEF S
  <2> QED BY <1>5, <1>6, Downwards
<1>8. x \in Nodes
  BY <1>3 DEF Under
<1> QED BY <1>7, <1>8

\* What hangs on two places of a node is apart, and the node is in neither.
LEMMA ChildrenApart ==
  ASSUME Tree, NEW n \in Nodes, NEW i \in Place(n)
  PROVE  /\ n \notin Below(Child(n, i))
         /\ AttachedOnce => \A j \in Place(n) : i # j => Below(Child(n, i)) \cap Below(Child(n, j)) = {}
<1>1. PICK H \in Nat : \E r : Graded(r, H)
  BY DEF Tree
<1>2. PICK r : Graded(r, H)
  BY <1>1
<1>3. \A m \in Nodes : Under(r, m)
  BY <1>2, AllUnder
<1>4. /\ r \in [Nodes -> 0 .. H]
      /\ \A m \in Nodes : \A j \in Place(m) : Child(m, j) \in Nodes /\ r[Child(m, j)] < r[m]
  BY <1>2, TreeFacts DEF Graded
<1>5. ASSUME NEW j \in Place(n), n \in Below(Child(n, j)) PROVE FALSE
  <2> DEFINE k == Child(n, j)
  <2>1. k \in Nodes /\ r[k] < r[n] /\ r[k] \in 0 .. H /\ r[n] \in 0 .. H
    BY <1>4
  <2> HIDE DEF k
  <2>2. n = k \/ r[n] < r[k]
    BY <1>3, <1>5, <2>1 DEF Under, k
  <2> QED BY <2>1, <2>2
<1>6. ASSUME AttachedOnce, NEW u \in Place(n), NEW v \in Place(n), u # v, Child(n, u) \in Below(Child(n, v))
      PROVE  FALSE
  <2> DEFINE a == Child(n, u)
             b == Child(n, v)
  <2>1. a # b
    BY <1>6 DEF AttachedOnce, Place, Child
  <2>2. a \in Below(b) /\ b \in Nodes
    BY <1>4, <1>6
  <2>3. Child(n, u) = a
    OBVIOUS
  <2>6. n \notin Below(b)
    BY <1>5
  <2> HIDE DEF a, b
  <2>4. PICK p \in Below(b) : \E j \in Place(p) : Child(p, j) = a
    BY <1>3, <2>1, <2>2 DEF Under
  <2>5. p \in Nodes
    BY <1>3, <2>2 DEF Under
  <2>7. p = n
    BY <1>6, <2>3, <2>4, <2>5 DEF AttachedOnce, Place, Child
  <2> QED BY <2>6, <2>7
<1>7. ASSUME AttachedOnce, NEW j \in Place(n), i # j, NEW x, x \in Below(Child(n, i)), x \in Below(Child(n, j))
      PROVE  FALSE
  <2>1. Child(n, i) \in Nodes /\ Child(n, j) \in Nodes
    BY <1>4
  <2>2. Child(n, i) \in Below(Child(n, j)) \/ Child(n, j) \in Below(Child(n, i))
    BY <1>7, <2>1, OneLine
  <2> QED BY <1>6, <1>7, <2>2
<1> QED BY <1>5, <1>7

Sums(u, K, s) ==
  /\ u \in [0 .. K -> Nat] /\ u[0] = 0
  /\ \A i \in 1 .. K : u[i] = u[i - 1] + s[i]

\* What is added up, one by one.
LEMMA AddedIs ==
  ASSUME NEW K \in Nat, NEW s \in [1 .. K -> Nat]
  PROVE  \E u : Sums(u, K, s) /\ Added(s) = u[K]
<1> DEFINE V(v) == v = [i \in 0 .. Len(s) |-> IF i = 0 THEN 0 ELSE v[i - 1] + s[i]]
           u == CHOOSE v : V(v)
<1>1. Added(s) = u[Len(s)]
  BY Zenon DEF Added
<1>2. Len(s) = K
  BY SeqIs
<1>3. \E v \in [0 .. K -> Nat] : V(v)
  <2> DEFINE G == [i \in 1 .. K |-> [x \in Nat |-> x + s[i]]]
  <2>1. \A i \in 1 .. K : \A x \in Nat : G[i][x] = x + s[i] /\ G[i][x] \in Nat
    OBVIOUS
  <2> HIDE DEF G
  <2>2. PICK f \in [0 .. K -> Nat] : Steps(f, K, 0, G)
    BY <2>1, StepsExist
  <2>3. \A i \in 0 .. K : i # 0 => i \in 1 .. K /\ f[i - 1] \in Nat
    OBVIOUS
  <2>4. f = [i \in 0 .. K |-> IF i = 0 THEN 0 ELSE f[i - 1] + s[i]]
    BY <2>1, <2>2, <2>3 DEF Steps
  <2>5. V(f)
    BY <1>2, <2>4
  <2> QED BY <2>5
<1>4. V(u)
  <2> HIDE DEF V
  <2> QED BY <1>3
<1> HIDE DEF u
<1>5. u = [i \in 0 .. K |-> IF i = 0 THEN 0 ELSE u[i - 1] + s[i]]
  BY <1>2, <1>4
<1> HIDE DEF V
<1> DEFINE S == {i \in 0 .. K : u[i] \in Nat}
<1>6. 0 \in S
  BY <1>5
<1>7. ASSUME NEW i \in 0 .. K - 1, i \in S PROVE i + 1 \in S
  <2>1. i + 1 \in 0 .. K /\ i + 1 # 0 /\ i + 1 - 1 = i /\ i + 1 \in 1 .. K
    OBVIOUS
  <2>2. u[i + 1] = u[i] + s[i + 1]
    BY <1>5, <2>1
  <2> QED BY <1>7, <2>1, <2>2
<1>8. \A i \in 0 .. K : i \in S
  <2> HIDE DEF S
  <2> QED BY <1>6, <1>7, UpTo
<1>9. Sums(u, K, s)
  BY <1>5, <1>8 DEF Sums
<1> QED BY <1>1, <1>2, <1>9

\* What is added over two parts is what is added over each.
LEMMA AddedSplits ==
  ASSUME NEW K \in Nat, NEW L \in Nat, NEW s \in [1 .. K -> Nat], NEW t \in [1 .. L -> Nat],
         NEW w \in [1 .. K + L -> Nat],
         \A i \in 1 .. K : w[i] = s[i], \A i \in 1 .. L : w[K + i] = t[i]
  PROVE  Added(w) = Added(s) + Added(t) /\ Added(s) \in Nat /\ Added(t) \in Nat
<1>0. K + L \in Nat
  OBVIOUS
<1>1. PICK us : Sums(us, K, s) /\ Added(s) = us[K]
  BY AddedIs
<1>2. PICK ut : Sums(ut, L, t) /\ Added(t) = ut[L]
  BY AddedIs
<1>3. PICK uw : Sums(uw, K + L, w) /\ Added(w) = uw[K + L]
  BY <1>0, AddedIs
<1> DEFINE S == {i \in 0 .. K : uw[i] = us[i]}
           T == {i \in 0 .. L : uw[K + i] = us[K] + ut[i]}
<1>4. 0 \in S
  BY <1>1, <1>3 DEF Sums
<1>5. ASSUME NEW i \in 0 .. K - 1, i \in S PROVE i + 1 \in S
  <2>1. i + 1 \in 1 .. K /\ i + 1 \in 1 .. K + L /\ i + 1 - 1 = i
    OBVIOUS
  <2>2. us[i + 1] = us[i] + s[i + 1]
    BY <1>1, <2>1 DEF Sums
  <2>3. uw[i + 1] = uw[i] + w[i + 1]
    BY <1>3, <2>1 DEF Sums
  <2> QED BY <1>5, <2>1, <2>2, <2>3
<1>6. \A i \in 0 .. K : i \in S
  <2> HIDE DEF S
  <2> QED BY <1>4, <1>5, UpTo
<1>7. 0 \in T
  <2>1. uw[K] = us[K] /\ us[K] \in Nat /\ ut[0] = 0
    BY <1>1, <1>2, <1>6 DEF Sums
  <2> QED BY <2>1
<1>8. ASSUME NEW i \in 0 .. L - 1, i \in T PROVE i + 1 \in T
  <2>1. i + 1 \in 1 .. L /\ K + (i + 1) \in 1 .. K + L /\ i + 1 - 1 = i /\ K + (i + 1) - 1 = K + i
    OBVIOUS
  <2>2. ut[i + 1] = ut[i] + t[i + 1]
    BY <1>2, <2>1 DEF Sums
  <2>3. uw[K + (i + 1)] = uw[K + i] + w[K + (i + 1)]
    BY <1>3, <2>1 DEF Sums
  <2>4. w[K + (i + 1)] = t[i + 1]
    BY <2>1
  <2>5. uw[K + i] = us[K] + ut[i]
    BY <1>8
  <2>6. us[K] \in Nat /\ ut[i] \in Nat /\ t[i + 1] \in Nat
    BY <1>1, <1>2, <2>1 DEF Sums
  <2>7. uw[K + (i + 1)] = us[K] + ut[i + 1]
    BY <2>2, <2>3, <2>4, <2>5, <2>6
  <2> QED BY <2>1, <2>7
<1>9. \A i \in 0 .. L : i \in T
  <2> HIDE DEF T
  <2> QED BY <1>7, <1>8, UpTo
<1>10. us[K] \in Nat /\ ut[L] \in Nat
  BY <1>1, <1>2 DEF Sums
<1> QED BY <1>1, <1>2, <1>3, <1>9, <1>10

Chains(u, K, start, parts) ==
  /\ u[0] = start /\ \A i \in 1 .. K : u[i] = u[i - 1] \o parts[i]

\* What is put together, one by one.
LEMMA ChainedIs ==
  ASSUME NEW E, NEW K \in Nat, NEW start \in Seq(E), NEW parts \in [1 .. K -> Seq(E)]
  PROVE  \E u : Chains(u, K, start, parts) /\ Chained(start, parts) = u[K]
<1> DEFINE V(v) == v = [i \in 0 .. Len(parts) |-> IF i = 0 THEN start ELSE v[i - 1] \o parts[i]]
           u == CHOOSE v : V(v)
<1>1. Chained(start, parts) = u[Len(parts)]
  BY Zenon DEF Chained
<1>2. Len(parts) = K
  BY SeqIs
<1>3. \E v : V(v)
  <2> DEFINE D == Seq(E)
             G == [i \in 1 .. K |-> [x \in D |-> x \o parts[i]]]
  <2>1. \A i \in 1 .. K : \A x \in D : G[i][x] = x \o parts[i] /\ G[i][x] \in D
    OBVIOUS
  <2> HIDE DEF G
  <2>2. PICK f \in [0 .. K -> D] : Steps(f, K, start, G)
    <3> HIDE DEF D
    <3>1. start \in D
      BY DEF D
    <3> QED BY <2>1, <3>1, StepsExist
  <2>3. \A i \in 0 .. K : i # 0 => i \in 1 .. K /\ f[i - 1] \in D
    <3> HIDE DEF D
    <3> QED OBVIOUS
  <2>4. f = [i \in 0 .. K |-> IF i = 0 THEN start ELSE f[i - 1] \o parts[i]]
    <3> HIDE DEF D
    <3> QED BY <2>1, <2>2, <2>3 DEF Steps
  <2>5. V(f)
    BY <1>2, <2>4
  <2> QED BY <2>5
<1>4. V(u)
  <2> HIDE DEF V
  <2> QED BY <1>3
<1> HIDE DEF u
<1>5. u = [i \in 0 .. K |-> IF i = 0 THEN start ELSE u[i - 1] \o parts[i]]
  BY <1>2, <1>4
<1> HIDE DEF V
<1>6. Chains(u, K, start, parts)
  <2>1. \A i \in 0 .. K : u[i] = IF i = 0 THEN start ELSE u[i - 1] \o parts[i]
    BY <1>5, Zenon
  <2>2. 0 \in 0 .. K /\ \A i \in 1 .. K : i \in 0 .. K /\ i # 0
    OBVIOUS
  <2> QED BY <2>1, <2>2, Zenon DEF Chains
<1> QED BY <1>1, <1>2, <1>6

Of(s) == {s[i] : i \in 1 .. Len(s)}
Distinct(s) == \A i, j \in 1 .. Len(s) : s[i] = s[j] => i = j

\* Two lists, one behind the other.
LEMMA BothLists ==
  ASSUME NEW E, NEW s \in Seq(E), NEW t \in Seq(E)
  PROVE  /\ s \o t \in Seq(E) /\ Len(s \o t) = Len(s) + Len(t) /\ Of(s \o t) = Of(s) \cup Of(t)
         /\ \A i \in 1 .. Len(s) : (s \o t)[i] = s[i]
         /\ \A i \in 1 .. Len(t) : (s \o t)[Len(s) + i] = t[i]
         /\ Distinct(s) /\ Distinct(t) /\ Of(s) \cap Of(t) = {} => Distinct(s \o t)
<1> DEFINE q == s \o t
           K == Len(s)
           L == Len(t)
<1>0. K \in Nat /\ L \in Nat
  OBVIOUS
<1>1. /\ q \in Seq(E) /\ Len(q) = K + L
      /\ \A i \in 1 .. K + L : q[i] = IF i <= K THEN s[i] ELSE t[i - K]
  BY ConcatProperties
<1> HIDE DEF q, K, L
<1>2. \A i \in 1 .. K : i \in 1 .. K + L /\ q[i] = s[i]
  BY <1>0, <1>1
<1>3. \A i \in 1 .. L : K + i \in 1 .. K + L /\ q[K + i] = t[i]
  <2> SUFFICES ASSUME NEW i \in 1 .. L PROVE K + i \in 1 .. K + L /\ q[K + i] = t[i]
    OBVIOUS
  <2> DEFINE m == K + i
  <2>1. m \in 1 .. K + L /\ ~(m <= K) /\ m - K = i
    BY <1>0
  <2> HIDE DEF m
  <2>2. q[m] = t[m - K]
    BY <1>1, <2>1
  <2> QED BY <2>1, <2>2 DEF m
<1>4. \A i \in 1 .. K + L : i \in 1 .. K \/ (i - K \in 1 .. L /\ i = K + (i - K))
  BY <1>0
<1>5. Of(q) = Of(s) \cup Of(t)
  <2>1. Of(q) = {q[i] : i \in 1 .. K + L} /\ Of(s) = {s[i] : i \in 1 .. K} /\ Of(t) = {t[i] : i \in 1 .. L}
    BY <1>1 DEF Of, K, L
  <2>2. ASSUME NEW x \in Of(q) PROVE x \in Of(s) \cup Of(t)
    <3>1. PICK i \in 1 .. K + L : x = q[i]
      BY <2>1
    <3>2. CASE i \in 1 .. K
      BY <1>2, <2>1, <3>1, <3>2
    <3>3. CASE i - K \in 1 .. L /\ i = K + (i - K)
      <4> DEFINE j == i - K
      <4>1. j \in 1 .. L /\ i = K + j
        BY <3>3
      <4> HIDE DEF j
      <4>2. x = t[j]
        BY <1>3, <3>1, <4>1
      <4> QED BY <2>1, <4>1, <4>2
    <3> QED BY <1>4, <3>2, <3>3
  <2>3. ASSUME NEW x \in Of(s) PROVE x \in Of(q)
    BY <1>2, <2>1
  <2>4. ASSUME NEW x \in Of(t) PROVE x \in Of(q)
    BY <1>3, <2>1
  <2> QED BY <2>2, <2>3, <2>4
<1>6. ASSUME Distinct(s), Distinct(t), Of(s) \cap Of(t) = {} PROVE Distinct(q)
  <2>0. /\ \A i \in 1 .. K : s[i] \in Of(s)
        /\ \A i \in 1 .. L : t[i] \in Of(t)
        /\ \A i, j \in 1 .. K : s[i] = s[j] => i = j
        /\ \A i, j \in 1 .. L : t[i] = t[j] => i = j
    BY <1>6 DEF Of, Distinct, K, L
  <2> SUFFICES ASSUME NEW i \in 1 .. K + L, NEW j \in 1 .. K + L, q[i] = q[j] PROVE i = j
    BY <1>1 DEF Distinct
  <2>1. CASE i \in 1 .. K /\ j \in 1 .. K
    BY <1>2, <2>0, <2>1
  <2>2. CASE i \in 1 .. K /\ j \notin 1 .. K
    <3> DEFINE d == j - K
    <3>1. d \in 1 .. L /\ j = K + d
      BY <1>4, <2>2
    <3> HIDE DEF d
    <3>2. s[i] = t[d]
      BY <1>2, <1>3, <2>2, <3>1
    <3> QED BY <1>6, <2>0, <2>2, <3>1, <3>2
  <2>3. CASE i \notin 1 .. K /\ j \in 1 .. K
    <3> DEFINE d == i - K
    <3>1. d \in 1 .. L /\ i = K + d
      BY <1>4, <2>3
    <3> HIDE DEF d
    <3>2. s[j] = t[d]
      BY <1>2, <1>3, <2>3, <3>1
    <3> QED BY <1>6, <2>0, <2>3, <3>1, <3>2
  <2>4. CASE i \notin 1 .. K /\ j \notin 1 .. K
    <3> DEFINE c == i - K
               d == j - K
    <3>1. c \in 1 .. L /\ i = K + c /\ d \in 1 .. L /\ j = K + d
      BY <1>4, <2>4
    <3> HIDE DEF c, d
    <3>2. t[c] = t[d]
      BY <1>3, <3>1
    <3>3. c = d
      BY <2>0, <3>1, <3>2
    <3> QED BY <3>1, <3>3
  <2> QED BY <2>1, <2>2, <2>3, <2>4
<1> QED BY <1>1, <1>2, <1>3, <1>5, <1>6 DEF q, K, L

WeightOf(s) == Added([k \in DOMAIN s |-> weight(s[k])])

\* The two kinds of weight of a node.
LEMMA WeightIsTenfold ==
  ASSUME NEW n
  PROVE  weight(n) = 10 * Wt(n) /\ Wt(n) \in {0, 1} /\ weight(n) \in Nat
<1>1. CASE heap[n].type \in Structural
  BY <1>1 DEF weight, is_structural, Wt, node_weight
<1>2. CASE heap[n].type \notin Structural
  BY <1>2 DEF weight, is_structural, Wt, node_weight
<1> QED BY <1>1, <1>2

\* Lists put together weigh what both weigh.
LEMMA WeightsAdd ==
  ASSUME NEW s \in Seq(Nodes), NEW t \in Seq(Nodes)
  PROVE  WeightOf(s \o t) = WeightOf(s) + WeightOf(t) /\ WeightOf(s) \in Nat /\ WeightOf(t) \in Nat
<1> DEFINE q == s \o t
           K == Len(s)
           L == Len(t)
           ws == [k \in 1 .. K |-> weight(s[k])]
           wt == [k \in 1 .. L |-> weight(t[k])]
           wq == [k \in 1 .. K + L |-> weight(q[k])]
<1>1. /\ K \in Nat /\ L \in Nat /\ DOMAIN s = 1 .. K /\ DOMAIN t = 1 .. L
  OBVIOUS
<1>2. /\ q \in Seq(Nodes) /\ Len(q) = K + L
      /\ \A i \in 1 .. K : q[i] = s[i]
      /\ \A i \in 1 .. L : q[K + i] = t[i]
  BY BothLists
<1>3. WeightOf(s) = Added(ws) /\ WeightOf(t) = Added(wt)
  BY <1>1 DEF WeightOf
<1>4. WeightOf(q) = Added(wq)
  <2> HIDE DEF q
  <2>1. DOMAIN q = 1 .. K + L
    BY <1>2
  <2> QED BY <2>1 DEF WeightOf
<1> HIDE DEF q, K, L
<1>5. ws \in [1 .. K -> Nat] /\ wt \in [1 .. L -> Nat] /\ wq \in [1 .. K + L -> Nat]
  BY WeightIsTenfold
<1>6. \A i \in 1 .. K : wq[i] = ws[i]
  <2> SUFFICES ASSUME NEW i \in 1 .. K PROVE wq[i] = ws[i]
    OBVIOUS
  <2>1. i \in 1 .. K + L
    BY <1>1
  <2> QED BY <1>2, <2>1
<1>7. \A i \in 1 .. L : wq[K + i] = wt[i]
  <2> SUFFICES ASSUME NEW i \in 1 .. L PROVE wq[K + i] = wt[i]
    OBVIOUS
  <2>1. K + i \in 1 .. K + L
    BY <1>1
  <2>2. wq[K + i] = weight(q[K + i])
    BY <2>1
  <2> QED BY <1>2, <2>2
<1> HIDE DEF ws, wt, wq
<1>8. Added(wq) = Added(ws) + Added(wt) /\ Added(ws) \in Nat /\ Added(wt) \in Nat
  BY <1>1, <1>5, <1>6, <1>7, AddedSplits
<1> QED BY <1>3, <1>4, <1>8 DEF q

\* A list of one weighs what the one weighs.
LEMMA WeightOfOne ==
  ASSUME NEW n
  PROVE  WeightOf(<<n>>) = weight(n)
<1> DEFINE s == <<n>>
           w == [k \in 1 .. 1 |-> weight(n)]
<1>1. DOMAIN s = 1 .. 1 /\ s[1] = n
  OBVIOUS
<1>2. [k \in DOMAIN s |-> weight(s[k])] = w
  <2>1. \A k \in 1 .. 1 : s[k] = n
    BY <1>1
  <2> HIDE DEF s
  <2> QED BY <1>1, <2>1
<1>3. WeightOf(s) = Added(w)
  BY <1>2 DEF WeightOf
<1>4. w \in [1 .. 1 -> Nat] /\ w[1] = weight(n) /\ 1 \in Nat /\ weight(n) \in Nat
  BY WeightIsTenfold
<1> HIDE DEF w, s
<1>5. PICK u : Sums(u, 1, w) /\ Added(w) = u[1]
  BY <1>4, AddedIs
<1>6. u[1] = u[1 - 1] + w[1] /\ u[0] = 0
  BY <1>5 DEF Sums
<1> QED BY <1>3, <1>4, <1>5, <1>6 DEF s

\* What the list of the nodes below a node is.
Listed(n, s, X, total) ==
  /\ s \in Seq(Nodes) /\ Len(s) >= 1 /\ s[1] = n /\ Of(s) = X
  /\ AttachedOnce => Distinct(s)
  /\ WeightOf(s) = total
Walked(n) ==
  /\ Listed(n, flatten_tree(n), Below(n), hk_ast_compute_weight(n))
  /\ hk_ast_compute_weight(n) \in Nat
  /\ Wt(n) = 0 => hk_ast_compute_weight(n) = 0

\* All nodes are walked like that.
LEMMA AllWalked ==
  ASSUME Tree
  PROVE  \A n \in Nodes : Walked(n)
<1>1. PICK H \in Nat : \E r : Graded(r, H)
  BY DEF Tree
<1>2. PICK r : Graded(r, H)
  BY <1>1
<1>3. /\ r \in [Nodes -> 0 .. H]
      /\ \A m \in Nodes : \A i \in Place(m) : Child(m, i) \in Nodes /\ r[Child(m, i)] < r[m]
  BY <1>2, TreeFacts DEF Graded
<1> DEFINE S == {n \in Nodes : Walked(n)}
<1>4. ASSUME NEW n \in Nodes, \A k \in Nodes : r[k] < r[n] => k \in S PROVE n \in S
  <2> DEFINE K == Len(heap[n].children)
             parts == [i \in Place(n) |-> flatten_tree(Child(n, i))]
             w(c) == hk_ast_compute_weight(c)
             s == [i \in Place(n) |-> (edge_weight(n, Child(n, i)) * w(Child(n, i))) \div 10]
  <2>1. K \in Nat /\ Place(n) = 1 .. K /\ Wt(n) \in {0, 1}
    BY TreeFacts
  <2>2. \A i \in Place(n) : Child(n, i) \in Nodes /\ Walked(Child(n, i))
    BY <1>3, <1>4
  <2>3. flatten_tree(n) = Chained(<<n>>, parts)
    BY FlatIsChained
  <2>4. w(n) = 10 * Wt(n) + Added(s)
    BY WeightIs
  <2>5. ASSUME NEW i \in Place(n) PROVE s[i] = w(Child(n, i)) /\ s[i] \in Nat /\ (Wt(n) = 0 => s[i] = 0)
    <3> DEFINE c == Child(n, i)
               x == w(c)
    <3>1. x \in Nat /\ (Wt(c) = 0 => x = 0) /\ Wt(c) \in {0, 1} /\ (Wt(n) = 0 => Wt(c) = 0)
      <4>1. c \in Nodes /\ Walked(c)
        BY <2>2
      <4>2. Wt(n) = 0 => Wt(c) = 0
        BY DEF Tree
      <4> QED BY <4>1, <4>2, WeightIsTenfold DEF Walked
    <3>2. s[i] = (edge_weight(n, c) * x) \div 10
      OBVIOUS
    <3>3. edge_weight(n, c) = IF Wt(n) = 1 THEN IF Wt(c) = 1 THEN 10 ELSE 1 ELSE 0
      BY <2>1, <3>1 DEF edge_weight
    <3> DEFINE e == edge_weight(n, c)
    <3> HIDE DEF x, c, s, e, w
    <3>4. CASE Wt(n) = 1 /\ Wt(c) = 1
      <4>1. e = 10
        BY <3>3, <3>4 DEF e
      <4> QED BY <3>1, <3>2, <3>4, <4>1 DEF e, x, c
    <3>5. CASE Wt(n) = 1 /\ Wt(c) = 0
      <4>1. e = 1 /\ x = 0
        BY <3>1, <3>3, <3>5 DEF e
      <4> QED BY <3>1, <3>2, <3>5, <4>1 DEF e, x, c
    <3>6. CASE Wt(n) = 0
      <4>1. e = 0 /\ x = 0
        BY <3>1, <3>3, <3>6 DEF e
      <4> QED BY <3>1, <3>2, <3>6, <4>1 DEF e, x, c
    <3> QED BY <2>1, <3>1, <3>4, <3>5, <3>6 DEF x, c
  <2> HIDE DEF K, w
  <2>6. s \in [1 .. K -> Nat]
    <3>1. s = [i \in 1 .. K |-> s[i]]
      BY <2>1
    <3> HIDE DEF s
    <3> QED BY <2>1, <2>5, <3>1
  <2>7. parts \in [1 .. K -> Seq(Nodes)] /\ \A i \in 1 .. K : parts[i] = flatten_tree(Child(n, i))
    <3>1. \A i \in 1 .. K : flatten_tree(Child(n, i)) \in Seq(Nodes)
      BY <2>1, <2>2 DEF Walked, Listed
    <3> QED BY <2>1, <3>1
  <2> HIDE DEF s, parts
  <2>8. PICK v : Sums(v, K, s) /\ Added(s) = v[K]
    BY <2>1, <2>6, AddedIs
  <2>9. <<n>> \in Seq(Nodes)
    OBVIOUS
  <2>10. PICK u : Chains(u, K, <<n>>, parts) /\ Chained(<<n>>, parts) = u[K]
    <3> DEFINE one == <<n>>
    <3>1. one \in Seq(Nodes) /\ parts \in [1 .. K -> Seq(Nodes)] /\ K \in Nat
      BY <2>1, <2>7, <2>9
    <3> HIDE DEF one
    <3>2. \E u : Chains(u, K, one, parts) /\ Chained(one, parts) = u[K]
      BY <3>1, ChainedIs
    <3> QED BY <3>2 DEF one
  <2> DEFINE X(i) == {n} \cup UNION {Below(Child(n, j)) : j \in 1 .. i}
             T == {i \in 0 .. K : Listed(n, u[i], X(i), 10 * Wt(n) + v[i])}
  <2>11. 0 \in T
    <3> DEFINE one == <<n>>
    <3>1. u[0] = one /\ v[0] = 0
      BY <2>8, <2>10 DEF Sums, Chains
    <3>2. one \in Seq(Nodes) /\ Len(one) = 1 /\ one[1] = n
      OBVIOUS
    <3>3. WeightOf(one) = 10 * Wt(n)
      BY WeightOfOne, WeightIsTenfold
    <3> HIDE DEF one
    <3>4. Of(one) = {n}
      BY <3>2 DEF Of
    <3>5. Distinct(one)
      BY <3>2 DEF Distinct
    <3>6. X(0) = {n}
      OBVIOUS
    <3>7. Listed(n, u[0], X(0), 10 * Wt(n) + v[0])
      <4> HIDE DEF X
      <4>1. 10 * Wt(n) + v[0] = 10 * Wt(n)
        BY <2>1, <3>1
      <4> QED BY <3>1, <3>2, <3>3, <3>4, <3>5, <3>6, <4>1 DEF Listed
    <3> HIDE DEF X
    <3> QED BY <2>1, <3>7
  <2>12. ASSUME NEW i \in 0 .. K - 1, i \in T PROVE i + 1 \in T
    <3>1. i + 1 \in 1 .. K /\ i + 1 - 1 = i /\ i + 1 \in 0 .. K
      BY <2>1
    <3> DEFINE c == Child(n, i + 1)
               a == u[i]
               b == flatten_tree(c)
    <3>2. u[i + 1] = a \o b
      <4>0. \A j \in 1 .. K : u[j] = u[j - 1] \o parts[j]
        BY <2>10, Zenon DEF Chains
      <4> DEFINE k == i + 1
      <4>5. k \in 1 .. K /\ k - 1 = i
        BY <3>1
      <4> HIDE DEF k
      <4>1. u[k] = u[i] \o parts[k]
        BY <4>0, <4>5
      <4>2. parts[i + 1] = b
        BY <2>7, <3>1
      <4> QED BY <4>1, <4>2 DEF k, a
    <3>3. v[i + 1] = v[i] + w(c) /\ v[i] \in Nat
      <4>0. \A j \in 1 .. K : v[j] = v[j - 1] + s[j]
        BY <2>8, Zenon DEF Sums
      <4> DEFINE k == i + 1
      <4>5. k \in 1 .. K /\ k - 1 = i
        BY <3>1
      <4> HIDE DEF k
      <4>1. v[k] = v[i] + s[k]
        BY <4>0, <4>5
      <4>2. v \in [0 .. K -> Nat] /\ i \in 0 .. K
        BY <2>1, <2>8 DEF Sums
      <4>3. v[i] \in Nat
        BY <4>2
      <4>4. s[i + 1] = w(c)
        BY <2>1, <2>5, <3>1
      <4> QED BY <4>1, <4>3, <4>4 DEF k
    <3>4. c \in Nodes /\ Listed(c, b, Below(c), w(c)) /\ w(c) \in Nat
      BY <2>1, <2>2, <3>1 DEF Walked, w
    <3>5. Listed(n, a, X(i), 10 * Wt(n) + v[i])
      BY <2>12
    <3>6. X(i + 1) = X(i) \cup Below(c)
      <4>1. \A j \in 1 .. i + 1 : j \in 1 .. i \/ j = i + 1
        OBVIOUS
      <4>2. \A j \in 1 .. i : j \in 1 .. i + 1
        OBVIOUS
      <4>3. i + 1 \in 1 .. i + 1
        OBVIOUS
      <4> QED BY <4>1, <4>2, <4>3
    <3>7. AttachedOnce => X(i) \cap Below(c) = {}
      <4> SUFFICES ASSUME AttachedOnce, NEW x, x \in X(i), x \in Below(c) PROVE FALSE
        OBVIOUS
      <4>0. i + 1 \in Place(n)
        BY <2>1, <3>1
      <4>1. x # n
        BY <4>0, ChildrenApart
      <4>2. PICK j \in 1 .. i : x \in Below(Child(n, j))
        BY <4>1
      <4>3. j \in Place(n) /\ j # i + 1
        BY <2>1
      <4>4. Below(Child(n, i + 1)) \cap Below(Child(n, j)) = {}
        BY <4>0, <4>3, ChildrenApart
      <4> QED BY <4>2, <4>4
    <3> DEFINE q == a \o b
    <3> HIDE DEF X, a, b, c
    <3>8. /\ a \in Seq(Nodes) /\ Len(a) >= 1 /\ a[1] = n /\ Of(a) = X(i)
          /\ AttachedOnce => Distinct(a)
          /\ WeightOf(a) = 10 * Wt(n) + v[i]
      BY <3>5 DEF Listed
    <3>9. /\ b \in Seq(Nodes) /\ Of(b) = Below(c)
          /\ AttachedOnce => Distinct(b)
          /\ WeightOf(b) = w(c)
      BY <3>4 DEF Listed
    <3>10. /\ q \in Seq(Nodes) /\ Len(q) = Len(a) + Len(b) /\ Of(q) = Of(a) \cup Of(b)
           /\ \A j \in 1 .. Len(a) : q[j] = a[j]
           /\ Distinct(a) /\ Distinct(b) /\ Of(a) \cap Of(b) = {} => Distinct(q)
      BY <3>8, <3>9, BothLists
    <3>11. WeightOf(q) = WeightOf(a) + WeightOf(b)
      BY <3>8, <3>9, WeightsAdd
    <3> HIDE DEF q
    <3>12. Len(q) >= 1 /\ q[1] = n
      <4>1. Len(a) \in Nat /\ Len(b) \in Nat /\ 1 \in 1 .. Len(a)
        BY <3>8, <3>9
      <4> QED BY <3>8, <3>10, <4>1
    <3>13. WeightOf(q) = 10 * Wt(n) + v[i + 1]
      BY <2>1, <3>3, <3>4, <3>8, <3>9, <3>11
    <3>14. Listed(n, q, X(i + 1), 10 * Wt(n) + v[i + 1])
      BY <3>6, <3>7, <3>8, <3>9, <3>10, <3>12, <3>13 DEF Listed
    <3>15. u[i + 1] = q
      BY <3>2 DEF q
    <3> QED BY <3>1, <3>14, <3>15
  <2>13. K \in T
    <3>1. \A i \in 0 .. K : i \in T
      <4> HIDE DEF T
      <4> QED BY <2>1, <2>11, <2>12, UpTo
    <3> HIDE DEF T
    <3> QED BY <2>1, <3>1
  <2>14. X(K) = Below(n)
    <3>1. Below(n) = {n} \cup UNION {Below(Child(n, i)) : i \in Place(n)}
      BY BelowIs
    <3> QED BY <2>1, <3>1
  <2>15. Listed(n, flatten_tree(n), Below(n), w(n))
    <3>1. Listed(n, u[K], X(K), 10 * Wt(n) + v[K])
      <4> HIDE DEF X
      <4> QED BY <2>13
    <3>2. w(n) = 10 * Wt(n) + v[K] /\ flatten_tree(n) = u[K]
      BY <2>3, <2>4, <2>8, <2>10
    <3> HIDE DEF X
    <3> QED BY <2>14, <3>1, <3>2
  <2>16. w(n) \in Nat
    <3>1. v[K] \in Nat
      BY <2>1, <2>8 DEF Sums
    <3> QED BY <2>1, <2>4, <2>8, <3>1
  <2>17. ASSUME Wt(n) = 0 PROVE w(n) = 0
    <3> DEFINE Z == {i \in 0 .. K : v[i] = 0}
    <3>1. 0 \in Z
      BY <2>1, <2>8 DEF Sums
    <3>2. ASSUME NEW i \in 0 .. K - 1, i \in Z PROVE i + 1 \in Z
      <4>1. i + 1 \in 1 .. K /\ i + 1 - 1 = i /\ i + 1 \in 0 .. K
        BY <2>1
      <4>2. v[i + 1] = v[i] + s[i + 1]
        BY <2>8, <4>1 DEF Sums
      <4>3. s[i + 1] = 0
        BY <2>1, <2>5, <2>17, <4>1
      <4> QED BY <3>2, <4>1, <4>2, <4>3
    <3>3. \A i \in 0 .. K : i \in Z
      <4> HIDE DEF Z
      <4> QED BY <2>1, <3>1, <3>2, UpTo
    <3>4. v[K] = 0
      BY <2>1, <3>3
    <3> QED BY <2>4, <2>8, <2>17, <3>4
  <2>18. Walked(n)
    BY <2>15, <2>16, <2>17 DEF Walked, w
  <2> QED BY <2>18
<1>5. Nodes \subseteq S
  <2> HIDE DEF S
  <2> QED BY <1>3, <1>4, Downwards
<1> QED BY <1>5

(***************************************************************************)
(* The invariant: the heap is a tree, in which each node that is attached  *)
(* knows a place it is attached at.                                        *)
(***************************************************************************)

NodeRecord == [type : Structural \cup Payload, children : Seq(Nat), parent_idx : Int]
Placed ==
  \A c \in Nodes, p \in Nodes : \A i \in Place(p) : Child(p, i) = c =>
    \E q \in Nodes : heap[c].parent_idx + 1 \in Place(q) /\ Child(q, heap[c].parent_idx + 1) = c
AstInv == heap \in Seq(NodeRecord) /\ Tree /\ Placed

\* There is no node yet.
LEMMA AstStarts == AstInit => AstInv
<1> SUFFICES ASSUME AstInit PROVE AstInv
  OBVIOUS
<1>1. heap = <<>> /\ Nodes = {}
  BY DEF AstInit, Nodes
<1>2. Graded([m \in Nodes |-> 0], 0)
  BY <1>1 DEF Graded
<1>3. Tree
  BY <1>1, <1>2 DEF Tree
<1>4. Placed /\ heap \in Seq(NodeRecord)
  BY <1>1 DEF Placed
<1> QED BY <1>3, <1>4 DEF AstInv

\* A sequence over a set is one over each larger set.
LEMMA SeqWiden ==
  ASSUME NEW S, NEW T, S \subseteq T, NEW s \in Seq(S)
  PROVE  s \in Seq(T)
<1>1. Len(s) \in Nat /\ s = [i \in 1 .. Len(s) |-> s[i]] /\ \A i \in 1 .. Len(s) : s[i] \in T
  OBVIOUS
<1> DEFINE N == Len(s)
<1>2. s = [i \in 1 .. N |-> s[i]] /\ \A i \in 1 .. N : s[i] \in T
  BY <1>1
<1> HIDE DEF N
<1>3. s \in [1 .. N -> T]
  BY <1>2
<1>4. N \in Nat
  BY <1>1 DEF N
<1> QED BY <1>3, <1>4

\* A new node hangs nowhere.
LEMMA AllocKeeps ==
  ASSUME AstInv, NEW type \in Structural \cup Payload, hk_ast_node_alloc(type)
  PROVE  AstInv'
<1> DEFINE new == [type |-> type, children |-> <<>>, parent_idx |-> -1]
           N == Len(heap)
<1>1. heap \in Seq(NodeRecord) /\ N \in Nat /\ Nodes = 1 .. N /\ heap' = Append(heap, new)
  BY DEF AstInv, Nodes, hk_ast_node_alloc
<1>2. new \in NodeRecord
  <2>1. -1 \in Int /\ <<>> \in Seq(Nat)
    OBVIOUS
  <2> QED BY <2>1 DEF NodeRecord
<1>3. new.children = <<>> /\ node_weight(new.type) \in {0, 1}
  BY DEF node_weight
<1> HIDE DEF new
<1>4. /\ heap' \in Seq(NodeRecord) /\ Nodes' = 1 .. N + 1
      /\ \A m \in Nodes : m \in Nodes' /\ heap'[m] = heap[m]
      /\ heap'[N + 1] = new
  <2>1. /\ Append(heap, new) \in Seq(NodeRecord) /\ Len(Append(heap, new)) = N + 1
        /\ DOMAIN Append(heap, new) = 1 .. N + 1
        /\ \A m \in 1 .. N : Append(heap, new)[m] = heap[m]
        /\ Append(heap, new)[N + 1] = new
    BY <1>1, <1>2
  <2> QED BY <1>1, <2>1 DEF Nodes
<1>5. \A m \in Nodes' : m \in Nodes \/ m = N + 1
  BY <1>1, <1>4
<1>6. PICK H \in Nat : \E r : Graded(r, H)
  BY DEF AstInv, Tree
<1>7. PICK r : Graded(r, H)
  BY <1>6
<1>8. \A m \in Nodes : \A i \in Place(m) : Child(m, i) \in Nodes
  BY TreeFacts DEF AstInv
<1>9. \A m \in Nodes : heap[m].children \in Seq(Nodes) /\ Wt(m) \in {0, 1}
  BY DEF AstInv, Tree
<1>10. PICK q : q \in [Nodes' -> 0 .. H] /\ \A m \in Nodes : q[m] = r[m]
  <2> DEFINE q == [m \in 1 .. N + 1 |-> IF m = N + 1 THEN 0 ELSE r[m]]
  <2>1. \A m \in Nodes : r[m] \in 0 .. H /\ m # N + 1
    BY <1>1, <1>7 DEF Graded
  <2>2. q \in [Nodes' -> 0 .. H] /\ \A m \in Nodes : q[m] = r[m]
    BY <1>1, <1>4, <1>5, <2>1
  <2> HIDE DEF q
  <2> QED BY <2>2
<1>11. \A m \in Nodes' : \A i \in DOMAIN heap'[m].children : q[heap'[m].children[i]] < q[m]
  <2> SUFFICES ASSUME NEW m \in Nodes', NEW i \in DOMAIN heap'[m].children
               PROVE  q[heap'[m].children[i]] < q[m]
    OBVIOUS
  <2>1. CASE m = N + 1
    BY <1>3, <1>4, <2>1
  <2>2. CASE m \in Nodes
    <3>1. i \in Place(m) /\ heap'[m].children[i] = Child(m, i)
      BY <1>4, <2>2 DEF Place, Child
    <3>2. r[Child(m, i)] < r[m] /\ Child(m, i) \in Nodes
      BY <1>7, <1>8, <2>2, <3>1 DEF Graded
    <3> QED BY <1>10, <2>2, <3>1, <3>2
  <2> QED BY <1>5, <2>1, <2>2
<1>12. \A m \in Nodes' : heap'[m].children \in Seq(Nodes') /\ node_weight(heap'[m].type) \in {0, 1}
  <2> SUFFICES ASSUME NEW m \in Nodes'
               PROVE  heap'[m].children \in Seq(Nodes') /\ node_weight(heap'[m].type) \in {0, 1}
    OBVIOUS
  <2>1. CASE m = N + 1
    <3>1. heap'[m] = new /\ heap'[m].children = <<>> /\ Nodes' = 1 .. N + 1
      BY <1>3, <1>4, <2>1
    <3> DEFINE T == 1 .. N + 1
    <3> HIDE DEF T
    <3>2. <<>> \in Seq(T)
      OBVIOUS
    <3> QED BY <1>3, <3>1, <3>2 DEF T
  <2>2. CASE m \in Nodes
    <3>1. heap[m].children \in Seq(Nodes) /\ node_weight(heap[m].type) \in {0, 1}
      BY <1>9, <2>2 DEF Wt
    <3> DEFINE T == 1 .. N + 1
               kids == heap[m].children
    <3>2. Nodes \subseteq T /\ Nodes' = T /\ kids \in Seq(Nodes)
      BY <1>4, <3>1
    <3> HIDE DEF T, kids
    <3>3. kids \in Seq(T)
      BY <3>2, SeqWiden
    <3>4. heap'[m].children = kids /\ heap'[m].type = heap[m].type
      BY <1>4, <2>2 DEF kids
    <3> QED BY <3>1, <3>2, <3>3, <3>4
  <2> QED BY <1>5, <2>1, <2>2
<1>13. \A m \in Nodes' : \A i \in DOMAIN heap'[m].children :
         node_weight(heap'[m].type) = 0 => node_weight(heap'[heap'[m].children[i]].type) = 0
  <2> SUFFICES ASSUME NEW m \in Nodes', NEW i \in DOMAIN heap'[m].children, node_weight(heap'[m].type) = 0
               PROVE  node_weight(heap'[heap'[m].children[i]].type) = 0
    OBVIOUS
  <2>1. CASE m = N + 1
    BY <1>3, <1>4, <2>1
  <2>2. CASE m \in Nodes
    <3>1. i \in Place(m) /\ heap'[m].children[i] = Child(m, i) /\ heap'[m] = heap[m]
      BY <1>4, <2>2 DEF Place, Child
    <3>2. Child(m, i) \in Nodes /\ Wt(Child(m, i)) = 0
      BY <1>8, <2>2, <3>1 DEF AstInv, Tree, Wt
    <3>3. heap'[Child(m, i)] = heap[Child(m, i)]
      BY <1>4, <3>2
    <3> QED BY <3>1, <3>2, <3>3 DEF Wt
  <2> QED BY <1>5, <2>1, <2>2
<1>14. Graded(q, H)'
  BY <1>10, <1>11 DEF Graded, Place, Child
<1>15. Tree'
  <2>1. \E h \in Nat : \E x : (Graded(x, h))'
    BY <1>14
  <2> QED BY <1>12, <1>13, <2>1 DEF Tree, Wt, Place, Child
<1>16. Placed'
  <2> SUFFICES ASSUME NEW c \in Nodes', NEW p \in Nodes', NEW i \in DOMAIN heap'[p].children,
                      heap'[p].children[i] = c
               PROVE  \E x \in Nodes' : /\ heap'[c].parent_idx + 1 \in DOMAIN heap'[x].children
                                        /\ heap'[x].children[heap'[c].parent_idx + 1] = c
    BY DEF Placed, Place, Child
  <2>1. CASE p = N + 1
    BY <1>3, <1>4, <2>1
  <2>2. CASE p \in Nodes
    <3>1. i \in Place(p) /\ Child(p, i) = c
      BY <1>4, <2>2 DEF Place, Child
    <3>2. c \in Nodes
      BY <1>8, <2>2, <3>1
    <3>3. PICK x \in Nodes : heap[c].parent_idx + 1 \in Place(x) /\ Child(x, heap[c].parent_idx + 1) = c
      BY <2>2, <3>1, <3>2 DEF AstInv, Placed
    <3>4. x \in Nodes' /\ heap'[x] = heap[x] /\ heap'[c] = heap[c]
      BY <1>4, <3>2
    <3> QED BY <3>3, <3>4 DEF Place, Child
  <2> QED BY <1>5, <2>1, <2>2
<1> QED BY <1>4, <1>15, <1>16 DEF AstInv

\* An edge that closes no cycle keeps a grade, and the child its place.
LEMMA AddKeeps ==
  ASSUME AstInv, NEW p \in Nodes, NEW c \in Nodes, hk_ast_add_child(p, c)
  PROVE  AstInv'
<1> DEFINE K == Len(heap[p].children)
           longer == Append(heap[p].children, c)
<1>1. /\ heap \in Seq(NodeRecord) /\ Nodes = 1 .. Len(heap) /\ Len(heap) \in Nat
      /\ p \notin Below(c) /\ ~(Wt(p) = 0 /\ Wt(c) = 1)
      /\ heap' = [heap EXCEPT ![c].parent_idx = K, ![p].children = Append(@, c)]
  BY DEF AstInv, Nodes, hk_ast_add_child, MayAdopt
<1>2. PICK H \in Nat : \E r : Graded(r, H)
  BY DEF AstInv, Tree
<1>3. PICK r : Graded(r, H)
  BY <1>2
<1>4. Tree /\ Placed
  BY DEF AstInv
<1>5. \A m \in Nodes : Under(r, m)
  BY <1>3, <1>4, AllUnder
<1>6. p # c
  BY <1>1, <1>5 DEF Under
<1>7. \A m \in Nodes : heap[m] \in NodeRecord /\ heap[m].children \in Seq(Nodes)
  BY <1>1, <1>4 DEF Tree
<1>8. /\ DOMAIN heap' = DOMAIN heap /\ Len(heap') = Len(heap)
      /\ heap'[c] = [heap[c] EXCEPT !.parent_idx = K]
      /\ heap'[p] = [heap[p] EXCEPT !.children = longer]
      /\ \A m \in Nodes : m # p /\ m # c => heap'[m] = heap[m]
  BY <1>1, <1>6 DEF Nodes
<1>9. /\ K \in Nat /\ longer \in Seq(Nodes) /\ Len(longer) = K + 1 /\ longer[K + 1] = c
      /\ DOMAIN longer = 1 .. K + 1 /\ Place(p) = 1 .. K
      /\ \A i \in 1 .. K : longer[i] = Child(p, i)
  BY <1>7 DEF Place, Child
<1> HIDE DEF K, longer
<1>10. /\ heap'[c].type = heap[c].type /\ heap'[c].children = heap[c].children /\ heap'[c].parent_idx = K
       /\ heap'[p].type = heap[p].type /\ heap'[p].children = longer
       /\ heap'[p].parent_idx = heap[p].parent_idx
  <2>1. heap[c] \in NodeRecord /\ heap[p] \in NodeRecord
    BY <1>7
  <2> QED BY <1>8, <2>1 DEF NodeRecord
<1>11. \A m \in Nodes :
         /\ heap'[m].type = heap[m].type
         /\ heap'[m].children = IF m = p THEN longer ELSE heap[m].children
         /\ heap'[m].parent_idx = IF m = c THEN K ELSE heap[m].parent_idx
  BY <1>6, <1>8, <1>10
<1>12. Nodes' = Nodes
  BY <1>8 DEF Nodes
<1>13. heap' \in Seq(NodeRecord)
  <2>1. longer \in Seq(Nat)
    <3>1. Nodes \subseteq Nat
      BY <1>1
    <3> QED BY <1>9, <3>1, SeqWiden
  <2>2. heap'[c] \in NodeRecord /\ heap'[p] \in NodeRecord
    <3>1. heap[c] \in NodeRecord /\ heap[p] \in NodeRecord /\ K \in Int
      BY <1>7, <1>9
    <3> QED BY <1>8, <2>1, <3>1 DEF NodeRecord
  <2>3. \A m \in 1 .. Len(heap) : heap'[m] \in NodeRecord
    BY <1>1, <1>7, <1>8, <2>2
  <2> DEFINE N == Len(heap)
             h == [heap EXCEPT ![c].parent_idx = K, ![p].children = Append(@, c)]
  <2>4. h = [m \in DOMAIN heap |-> h[m]] /\ DOMAIN heap = 1 .. N
    <3> DEFINE first == [heap EXCEPT ![c].parent_idx = K]
    <3>1. DOMAIN heap = 1 .. N
      BY <1>1
    <3>2. DOMAIN first = DOMAIN heap
      OBVIOUS
    <3>3. h = [first EXCEPT ![p].children = Append(@, c)]
      OBVIOUS
    <3> HIDE DEF first
    <3>4. h = [m \in DOMAIN first |-> h[m]]
      BY <3>3
    <3> QED BY <3>1, <3>2, <3>4
  <2>5. h = heap'
    BY <1>1
  <2> HIDE DEF h, N
  <2>6. heap' = [m \in 1 .. N |-> heap'[m]]
    BY <2>4, <2>5
  <2>7. heap' \in [1 .. N -> NodeRecord] /\ N \in Nat
    BY <1>1, <2>3, <2>6 DEF N
  <2> QED BY <2>7
<1>14. \A m \in Nodes : \A i \in DOMAIN heap'[m].children :
         \/ i \in Place(m) /\ heap'[m].children[i] = Child(m, i)
         \/ m = p /\ i = K + 1 /\ heap'[m].children[i] = c
  <2> SUFFICES ASSUME NEW m \in Nodes, NEW i \in DOMAIN heap'[m].children
               PROVE  \/ i \in Place(m) /\ heap'[m].children[i] = Child(m, i)
                      \/ m = p /\ i = K + 1 /\ heap'[m].children[i] = c
    OBVIOUS
  <2>1. CASE m = p
    <3>1. i \in 1 .. K + 1 /\ heap'[m].children[i] = longer[i]
      BY <1>9, <1>11, <2>1
    <3>2. i \in 1 .. K \/ i = K + 1
      BY <1>9, <3>1
    <3> QED BY <1>9, <2>1, <3>1, <3>2
  <2>2. CASE m # p
    BY <1>11, <2>2 DEF Place, Child
  <2> QED BY <2>1, <2>2
<1>15. \A m \in Nodes : \A i \in Place(m) : /\ i \in DOMAIN heap'[m].children
                                            /\ heap'[m].children[i] = Child(m, i)
  <2> SUFFICES ASSUME NEW m \in Nodes, NEW i \in Place(m)
               PROVE  i \in DOMAIN heap'[m].children /\ heap'[m].children[i] = Child(m, i)
    OBVIOUS
  <2>1. CASE m = p
    BY <1>9, <1>11, <2>1
  <2>2. CASE m # p
    BY <1>11, <2>2 DEF Place, Child
  <2> QED BY <2>1, <2>2
<1>16. /\ r \in [Nodes -> 0 .. H]
       /\ \A m \in Nodes : \A i \in Place(m) : Child(m, i) \in Nodes /\ r[Child(m, i)] < r[m]
  BY <1>3, <1>4, TreeFacts DEF Graded
<1> DEFINE J == H + H + 1
<1>17. PICK q : /\ q \in [Nodes -> 0 .. J]
                /\ \A n \in Nodes : q[n] = IF p \in Below(n) THEN r[n] + r[c] + 1 ELSE r[n]
  <2>1. \A n \in Nodes : r[n] \in 0 .. H
    BY <1>16
  <2>2. \A n \in Nodes : (IF p \in Below(n) THEN r[n] + r[c] + 1 ELSE r[n]) \in 0 .. J
    <3> SUFFICES ASSUME NEW n \in Nodes
                 PROVE  (IF p \in Below(n) THEN r[n] + r[c] + 1 ELSE r[n]) \in 0 .. J
      OBVIOUS
    <3>1. r[n] \in 0 .. H /\ r[c] \in 0 .. H
      BY <2>1
    <3> QED BY <3>1
  <2> DEFINE q == [n \in Nodes |-> IF p \in Below(n) THEN r[n] + r[c] + 1 ELSE r[n]]
  <2>3. /\ q \in [Nodes -> 0 .. J]
        /\ \A n \in Nodes : q[n] = IF p \in Below(n) THEN r[n] + r[c] + 1 ELSE r[n]
    BY <2>2
  <2> HIDE DEF q
  <2> QED BY <2>3
<1>18. \A m \in Nodes : \A i \in DOMAIN heap'[m].children : q[heap'[m].children[i]] < q[m]
  <2> SUFFICES ASSUME NEW m \in Nodes, NEW i \in DOMAIN heap'[m].children
               PROVE  q[heap'[m].children[i]] < q[m]
    OBVIOUS
  <2>1. \A n \in Nodes : r[n] \in 0 .. H
    BY <1>16
  <2>2. CASE i \in Place(m) /\ heap'[m].children[i] = Child(m, i)
    <3> DEFINE k == Child(m, i)
    <3>1. k \in Nodes /\ r[k] < r[m] /\ r[k] \in 0 .. H /\ r[m] \in 0 .. H /\ r[c] \in 0 .. H
      BY <1>16, <2>1, <2>2
    <3>2. p \in Below(k) => p \in Below(m)
      BY <1>4, <2>2, BelowIs
    <3>3. heap'[m].children[i] = k
      BY <2>2
    <3> HIDE DEF k
    <3> QED BY <1>17, <3>1, <3>2, <3>3
  <2>3. CASE m = p /\ i = K + 1 /\ heap'[m].children[i] = c
    <3>1. p \in Below(p)
      BY <1>5 DEF Under
    <3>2. q[p] = r[p] + r[c] + 1 /\ q[c] = r[c] /\ r[p] \in 0 .. H /\ r[c] \in 0 .. H
      BY <1>1, <1>17, <2>1, <3>1
    <3> QED BY <2>3, <3>2
  <2> QED BY <1>14, <2>2, <2>3
<1>19. \A m \in Nodes : heap'[m].children \in Seq(Nodes) /\ node_weight(heap'[m].type) \in {0, 1}
  <2> SUFFICES ASSUME NEW m \in Nodes
               PROVE  heap'[m].children \in Seq(Nodes) /\ node_weight(heap'[m].type) \in {0, 1}
    OBVIOUS
  <2>1. node_weight(heap[m].type) \in {0, 1} /\ heap[m].children \in Seq(Nodes)
    BY <1>4 DEF Tree, Wt
  <2> QED BY <1>9, <1>11, <2>1
<1>20. \A m \in Nodes : \A i \in DOMAIN heap'[m].children :
         node_weight(heap'[m].type) = 0 => node_weight(heap'[heap'[m].children[i]].type) = 0
  <2> SUFFICES ASSUME NEW m \in Nodes, NEW i \in DOMAIN heap'[m].children, node_weight(heap'[m].type) = 0
               PROVE  node_weight(heap'[heap'[m].children[i]].type) = 0
    OBVIOUS
  <2>0. Wt(m) = 0
    BY <1>11 DEF Wt
  <2>1. CASE i \in Place(m) /\ heap'[m].children[i] = Child(m, i)
    <3>1. Child(m, i) \in Nodes /\ Wt(Child(m, i)) = 0
      BY <1>4, <1>16, <2>0, <2>1 DEF Tree
    <3> QED BY <1>11, <2>1, <3>1 DEF Wt
  <2>2. CASE m = p /\ i = K + 1 /\ heap'[m].children[i] = c
    <3>1. Wt(c) = 0
      <4>1. Wt(c) \in {0, 1}
        BY <1>4 DEF Tree
      <4> QED BY <1>1, <2>0, <2>2, <4>1
    <3> QED BY <1>11, <2>2, <3>1 DEF Wt
  <2> QED BY <1>14, <2>1, <2>2
<1>21. Graded(q, J)'
  BY <1>12, <1>17, <1>18 DEF Graded, Place, Child
<1>22. Tree'
  <2>1. J \in Nat
    OBVIOUS
  <2> HIDE DEF J
  <2>2. \E h \in Nat : \E x : (Graded(x, h))'
    BY <1>21, <2>1
  <2> QED BY <1>12, <1>19, <1>20, <2>2 DEF Tree, Wt, Place, Child
<1>23. Placed'
  <2> SUFFICES ASSUME NEW x \in Nodes, NEW n \in Nodes, NEW i \in DOMAIN heap'[n].children,
                      heap'[n].children[i] = x
               PROVE  \E y \in Nodes : /\ heap'[x].parent_idx + 1 \in DOMAIN heap'[y].children
                                       /\ heap'[y].children[heap'[x].parent_idx + 1] = x
    BY <1>12 DEF Placed, Place, Child
  <2>1. CASE x = c
    <3>1. heap'[x].parent_idx = K /\ heap'[p].children = longer
      BY <1>11, <2>1
    <3>2. K + 1 \in DOMAIN longer
      BY <1>9
    <3> QED BY <1>9, <2>1, <3>1, <3>2
  <2>2. CASE x # c
    <3>1. i \in Place(n) /\ Child(n, i) = x
      BY <1>14, <2>2
    <3>2. PICK y \in Nodes : heap[x].parent_idx + 1 \in Place(y) /\ Child(y, heap[x].parent_idx + 1) = x
      BY <1>4, <3>1 DEF Placed
    <3>3. heap'[x].parent_idx = heap[x].parent_idx
      BY <1>11, <2>2
    <3> QED BY <1>15, <3>2, <3>3
  <2> QED BY <2>1, <2>2
<1> QED BY <1>13, <1>22, <1>23 DEF AstInv

\* So does every step.
LEMMA AstInvNext == AstInv /\ [AstNext]_astVars => AstInv'
<1> SUFFICES ASSUME AstInv, [AstNext]_astVars PROVE AstInv'
  OBVIOUS
<1>1. CASE UNCHANGED astVars
  <2>1. heap' = heap
    BY <1>1 DEF astVars
  <2> QED BY <2>1 DEF AstInv, Tree, Placed, Graded, Place, Child, Wt, Nodes
<1>2. CASE AstNext
  BY <1>2, AllocKeeps, AddKeeps DEF AstNext
<1> QED BY <1>1, <1>2

\* The first place of what is in a list.
LEMMA FirstPlaceIs ==
  ASSUME NEW E, NEW s \in Seq(E), NEW c \in Of(s)
  PROVE  FirstPlace(s, c) \in 1 .. Len(s) /\ s[FirstPlace(s, c)] = c
<1> DEFINE P == {k \in 1 .. Len(s) : s[k] = c}
           First(k) == k \in DOMAIN s /\ s[k] = c /\ \A j \in 1 .. k - 1 : s[j] # c
<1>1. P \in SUBSET Nat /\ P # {} /\ DOMAIN s = 1 .. Len(s) /\ Len(s) \in Nat
  BY DEF Of
<1>2. PICK k \in P : \A j \in P : k <= j
  <2> HIDE DEF P
  <2> QED BY <1>1, LeastPlace
<1>3. First(k)
  <2>1. \A j \in 1 .. k - 1 : j \in 1 .. Len(s) /\ ~(k <= j)
    BY <1>1, <1>2
  <2> QED BY <1>1, <1>2, <2>1
<1>4. FirstPlace(s, c) = CHOOSE x \in DOMAIN s : s[x] = c /\ \A j \in 1 .. x - 1 : s[j] # c
  BY DEF FirstPlace
<1> DEFINE f == FirstPlace(s, c)
<1>5. f \in DOMAIN s /\ s[f] = c
  BY <1>3, <1>4
<1> QED BY <1>1, <1>5

\* The invariant says that payloads have no authority,
LEMMA PayloadImplied == AstInv => PayloadHasNoAuthority
<1> SUFFICES ASSUME AstInv, NEW n \in Nodes
             PROVE  /\ Wt(n) = 0 => \A m \in Below(n) : Wt(m) = 0
                    /\ hk_ast_compute_weight(n)
                       = Added([i \in DOMAIN flatten_tree(n) |-> weight(flatten_tree(n)[i])])
  BY DEF PayloadHasNoAuthority
<1>1. Tree
  BY DEF AstInv
<1>2. PICK H \in Nat : \E r : Graded(r, H)
  BY <1>1 DEF Tree
<1>3. PICK r : Graded(r, H)
  BY <1>2
<1>4. Under(r, n)
  BY <1>1, <1>3, AllUnder
<1>5. Walked(n)
  BY <1>1, AllWalked
<1>6. WeightOf(flatten_tree(n)) = hk_ast_compute_weight(n)
  BY <1>5 DEF Walked, Listed
<1> QED BY <1>4, <1>6 DEF Under, WeightOf

\* The two ways to weigh an edge give weight to the same ones.
LEMMA EdgeWeightsAgree ==
  ASSUME NEW p, NEW c
  PROVE  edge_weight(p, c) # 0 <=> rust_edge_weight(p, c) # 0
<1>1. Wt(p) \in {0, 1} /\ Wt(c) \in {0, 1}
  BY WeightIsTenfold
<1>2. CASE heap[p].type \in Structural
  <2>1. Wt(p) = 1 /\ is_structural(p) /\ ~is_payload(p)
    BY <1>2 DEF Wt, node_weight, is_structural, is_payload
  <2>2. edge_weight(p, c) # 0
    BY <1>1, <2>1 DEF edge_weight
  <2>3. rust_edge_weight(p, c) # 0
    BY <2>1 DEF rust_edge_weight
  <2> QED BY <2>2, <2>3
<1>3. CASE heap[p].type \notin Structural
  <2>1. Wt(p) = 0 /\ ~is_structural(p) /\ is_payload(p)
    BY <1>3 DEF Wt, node_weight, is_structural, is_payload
  <2>2. edge_weight(p, c) = 0
    BY <1>1, <2>1 DEF edge_weight
  <2>3. rust_edge_weight(p, c) = 0
    BY <2>1 DEF rust_edge_weight
  <2> QED BY <2>2, <2>3
<1> QED BY <1>2, <1>3

\* and that graphs draw the tree.
LEMMA GraphImplied == AstInv => GraphIsTheTree
<1> SUFFICES ASSUME AstInv PROVE GraphIsTheTree
  OBVIOUS
<1>0. Tree /\ Placed
  BY DEF AstInv
<1>1. PICK H \in Nat : \E r : Graded(r, H)
  BY <1>0 DEF Tree
<1>2. PICK r : Graded(r, H)
  BY <1>1
<1>3. \A n \in Nodes : Under(r, n) /\ Walked(n)
  BY <1>0, <1>2, AllUnder, AllWalked
<1>4. ASSUME NEW root \in Nodes PROVE DrawsTheTree(hk_ast_to_graph(root))
  <2> DEFINE flat == flatten_tree(root)
             N == Len(flat)
             g == hk_ast_to_graph(root)
             Leads(i, k) == \E c \in Kids(flat[i]) : FirstPlace(flat, c) = k
             adj == [i \in DOMAIN flat |-> [k \in DOMAIN flat |->
                       IF Leads(i, k) THEN edge_weight(flat[i], flat[k]) ELSE 0]]
  <2>1. g.nodes = flat /\ g.adj = adj
    BY DEF hk_ast_to_graph
  <2>2. /\ flat \in Seq(Nodes) /\ N >= 1 /\ flat[1] = root /\ Of(flat) = Below(root)
        /\ AttachedOnce => Distinct(flat)
    BY <1>3 DEF Walked, Listed
  <2> HIDE DEF flat, g
  <2>3. N \in Nat /\ DOMAIN flat = 1 .. N /\ \A i \in 1 .. N : flat[i] \in Nodes /\ flat[i] \in Below(root)
    BY <2>2 DEF Of
  <2>4. \A i, k \in 1 .. N : adj[i][k] = IF Leads(i, k) THEN edge_weight(flat[i], flat[k]) ELSE 0
    <3> HIDE DEF Leads
    <3> QED BY <2>3
  <2>5. ASSUME NEW i \in 1 .. N, NEW c \in Kids(flat[i])
        PROVE  FirstPlace(flat, c) \in 1 .. N /\ flat[FirstPlace(flat, c)] = c
    <3>1. PICK j \in Place(flat[i]) : c = Child(flat[i], j)
      BY DEF Kids, Place, Child
    <3>2. c \in Below(root)
      BY <1>0, <2>3, <3>1, ChildBelow
    <3>3. c \in Of(flat)
      BY <2>2, <3>2
    <3> QED BY <2>2, <3>3, FirstPlaceIs
  <2> DEFINE E == {e \in (1 .. N) \X (1 .. N) : flat[e[2]] \in Kids(flat[e[1]])}
  <2>6. Edges(g) = E
    <3>1. g.nodes = flat /\ DOMAIN g.nodes = 1 .. N
      BY <2>1, <2>3
    <3> QED BY <3>1 DEF Edges
  <2>7. \A i, k \in 1 .. N : <<i, k>> \in E <=> flat[k] \in Kids(flat[i])
    OBVIOUS
  <2>8. validate(flat, E)
    <3> SUFFICES ASSUME NEW e \in E
                 PROVE  e[1] \in 1 .. N /\ e[2] \in 1 .. N /\ ~has_dangerous_pattern(flat[e[1]], flat[e[2]])
      BY <2>3 DEF validate
    <3>1. e[1] \in 1 .. N /\ e[2] \in 1 .. N /\ flat[e[2]] \in Kids(flat[e[1]])
      OBVIOUS
    <3> DEFINE p == flat[e[1]]
               c == flat[e[2]]
    <3>2. p \in Nodes /\ c \in Kids(p)
      BY <2>3, <3>1
    <3> HIDE DEF p, c
    <3>3. PICK j \in Place(p) : c = Child(p, j)
      BY <3>2 DEF Kids, Place, Child
    <3>4. Wt(p) = 0 => Wt(c) = 0
      BY <1>0, <3>2, <3>3 DEF Tree
    <3>5. ~has_dangerous_pattern(p, c)
      <4> SUFFICES ASSUME heap[p].type \notin Structural, heap[c].type \in Structural PROVE FALSE
        BY DEF has_dangerous_pattern, is_payload, is_structural
      <4>1. Wt(p) = 0 /\ Wt(c) = 1
        BY DEF Wt, node_weight
      <4> QED BY <3>4, <4>1
    <3> QED BY <3>1, <3>5 DEF p, c
  <2>9. ASSUME NEW i \in 1 .. N, NEW k \in 1 .. N, adj[i][k] # 0 PROVE <<i, k>> \in E
    <3>1. Leads(i, k)
      BY <2>4, <2>9
    <3>2. PICK c \in Kids(flat[i]) : FirstPlace(flat, c) = k
      BY <3>1
    <3>3. flat[k] = c
      BY <2>5, <3>2
    <3> QED BY <2>7, <3>2, <3>3
  <2> HIDE DEF E, adj
  <2>10. ASSUME AttachedOnce, NEW k \in (1 .. N) \ {1}
         PROVE  \E i \in 1 .. N :
                  /\ <<i, k>> \in E /\ \A j \in (1 .. N) \ {i} : <<j, k>> \notin E
                  /\ adj[i][k] # 0 <=> rust_edge_weight(flat[i], flat[k]) # 0
                  /\ heap[flat[i]].children[heap[flat[k]].parent_idx + 1] = flat[k]
    <3>1. \A i, j \in 1 .. N : flat[i] = flat[j] => i = j
      BY <2>2, <2>10 DEF Distinct
    <3> DEFINE x == flat[k]
    <3>2. x \in Nodes /\ x \in Below(root) /\ k \in 1 .. N
      BY <2>3
    <3>3. x # root
      <4>1. 1 \in 1 .. N /\ k # 1
        BY <2>2, <2>3
      <4> QED BY <2>2, <3>1, <4>1
    <3>4. flat[k] = x
      OBVIOUS
    <3> HIDE DEF x
    <3>5. PICK p \in Below(root) : \E j \in Place(p) : Child(p, j) = x
      BY <1>3, <3>2, <3>3 DEF Under
    <3>6. PICK j \in Place(p) : Child(p, j) = x
      BY <3>5
    <3>7. PICK i \in 1 .. N : flat[i] = p
      BY <2>2 DEF Of
    <3>8. p \in Nodes
      BY <2>3, <3>7
    <3>9. x \in Kids(p)
      BY <3>6 DEF Kids, Place, Child
    <3>10. ASSUME NEW q \in Nodes, NEW m \in Place(q), Child(q, m) = x PROVE q = p
      BY <2>10, <3>6, <3>8, <3>10 DEF AttachedOnce, Place, Child
    <3>11. <<i, k>> \in E
      BY <2>7, <3>2, <3>4, <3>7, <3>9
    <3>12. ASSUME NEW u \in (1 .. N) \ {i} PROVE <<u, k>> \notin E
      <4> SUFFICES ASSUME <<u, k>> \in E PROVE FALSE
        OBVIOUS
      <4>1. x \in Kids(flat[u]) /\ flat[u] \in Nodes
        BY <2>3, <2>7, <3>2, <3>4
      <4>2. PICK m \in Place(flat[u]) : x = Child(flat[u], m)
        BY <4>1 DEF Kids, Place, Child
      <4>3. flat[u] = p
        BY <3>10, <4>1, <4>2
      <4> QED BY <3>1, <3>7, <4>3
    <3>13. adj[i][k] = edge_weight(p, x)
      <4>1. FirstPlace(flat, x) \in 1 .. N /\ flat[FirstPlace(flat, x)] = x
        BY <2>5, <3>7, <3>9
      <4>2. FirstPlace(flat, x) = k
        BY <3>1, <3>2, <3>4, <4>1
      <4>3. Leads(i, k)
        BY <3>7, <3>9, <4>2
      <4> HIDE DEF Leads
      <4> QED BY <2>4, <3>2, <3>4, <3>7, <4>3
    <3>14. heap[p].children[heap[x].parent_idx + 1] = x
      <4>1. PICK q \in Nodes : heap[x].parent_idx + 1 \in Place(q) /\ Child(q, heap[x].parent_idx + 1) = x
        BY <1>0, <3>2, <3>6, <3>8 DEF Placed
      <4>2. q = p
        BY <3>10, <4>1
      <4> QED BY <4>1, <4>2 DEF Child
    <3>15. adj[i][k] # 0 <=> rust_edge_weight(p, x) # 0
      BY <3>13, EdgeWeightsAgree
    <3> QED BY <3>4, <3>7, <3>11, <3>12, <3>14, <3>15
  <2>11. ASSUME AttachedOnce, NEW k \in (1 .. N) \ {1} PROVE \E i \in 1 .. N : IsParent(g, i, k)
    <3>1. PICK i \in 1 .. N :
            /\ <<i, k>> \in E /\ \A j \in (1 .. N) \ {i} : <<j, k>> \notin E
            /\ adj[i][k] # 0 <=> rust_edge_weight(flat[i], flat[k]) # 0
            /\ heap[flat[i]].children[heap[flat[k]].parent_idx + 1] = flat[k]
      BY <2>10, <2>11
    <3>2. g.nodes = flat /\ g.adj = adj /\ Edges(g) = E /\ DOMAIN flat = 1 .. N
      BY <2>1, <2>3, <2>6
    <3>3. IsParent(g, i, k)
      BY <3>1, <3>2, Zenon DEF IsParent
    <3> QED BY <3>3
  <2>12. g.nodes = flat /\ g.adj = adj /\ Edges(g) = E /\ DOMAIN flat = 1 .. N
    BY <2>1, <2>3, <2>6
  <2>13. DrawsTheTree(g)
    BY <2>8, <2>9, <2>11, <2>12, Zenon DEF DrawsTheTree
  <2> QED BY <2>13 DEF g
<1>5. PayloadHasNoAuthority
  BY PayloadImplied
<1> QED BY <1>4, <1>5 DEF GraphIsTheTree

\* Nothing below a payload is structural and a tree weighs what its structural
\* nodes weigh, however it was put together, of however many nodes with
\* however many children; and its graph draws the edges of the tree, each node
\* that is attached once having one edge into it, from its parent, at the place
\* it keeps.
THEOREM GraphsAreTrees == AstSpec => []GraphIsTheTree
<1>1. AstInit => AstInv
  BY AstStarts
<1>2. AstInv /\ [AstNext]_astVars => AstInv'
  BY AstInvNext
<1>3. AstInv => GraphIsTheTree
  BY GraphImplied
<1> QED BY <1>1, <1>2, <1>3, PTL DEF AstSpec

(***************************************************************************)
(* The two lexers of the constraint language.  What a lexer reads at a     *)
(* place depends on the text from there to the end of what it reads, so a  *)
(* part of a text that ends with a line is read alone as it is in the      *)
(* text, moved by where the part begins; the tokens follow by induction    *)
(* from the end.                                                           *)
(***************************************************************************)

\* A function over the places of a text that asks at each place for a later one.
Jumps(f, N, next, b, G) ==
  f = [i \in 1 .. N + 1 |-> IF i = N + 1 THEN b ELSE G[i][f[next[i]]]]

\* Induction downwards over the places 1 to N + 1.
LEMMA DownTo ==
  ASSUME NEW N \in Nat, NEW S, N + 1 \in S,
         \A i \in 1 .. N : (\A j \in i + 1 .. N + 1 : j \in S) => i \in S
  PROVE  \A i \in 1 .. N + 1 : i \in S
<1> DEFINE M == {m \in 0 .. N : \A j \in N + 1 - m .. N + 1 : j \in S}
<1>1. 0 \in M
  OBVIOUS
<1>2. ASSUME NEW m \in 0 .. N - 1, m \in M PROVE m + 1 \in M
  <2>1. \A j \in N + 1 - m .. N + 1 : j \in S
    BY <1>2
  <2> DEFINE i == N - m
  <2>2. i \in 1 .. N /\ i + 1 = N + 1 - m /\ N + 1 - (m + 1) = i /\ m + 1 \in 0 .. N
    OBVIOUS
  <2> HIDE DEF i
  <2>3. i \in S
    BY <2>1, <2>2
  <2>4. \A j \in i .. N + 1 : j = i \/ j \in N + 1 - m .. N + 1
    BY <2>2
  <2>5. \A j \in i .. N + 1 : j \in S
    BY <2>1, <2>3, <2>4
  <2> QED BY <2>2, <2>5
<1>3. \A m \in 0 .. N : m \in M
  <2> HIDE DEF M
  <2> QED BY <1>1, <1>2, UpTo
<1>4. N \in M /\ N + 1 - N = 1
  BY <1>3
<1> QED BY <1>4

\* There is such a function, and what holds of its values at later places is
\* handed down.
LEMMA JumpsExist ==
  ASSUME NEW N \in Nat, NEW next, \A i \in 1 .. N : next[i] \in i + 1 .. N + 1,
         NEW b, NEW G, NEW D, b \in D[N + 1], \A i \in 1 .. N : \A x \in D[next[i]] : G[i][x] \in D[i]
  PROVE  \E f : Jumps(f, N, next, b, G) /\ \A i \in 1 .. N + 1 : f[i] \in D[i]
<1> DEFINE AtPlace(f, i) == f[i] = IF i = N + 1 THEN b ELSE G[i][f[next[i]]]
           Good(f, m) == \A i \in N + 1 - m .. N + 1 : AtPlace(f, i) /\ f[i] \in D[i]
           S == {m \in 0 .. N : \E f : Good(f, m)}
<1>1. 0 \in S
  <2> DEFINE f == [i \in {N + 1} |-> b]
  <2>1. \A i \in N + 1 - 0 .. N + 1 : i = N + 1
    OBVIOUS
  <2>2. AtPlace(f, N + 1) /\ f[N + 1] \in D[N + 1]
    OBVIOUS
  <2> HIDE DEF f, AtPlace
  <2>3. Good(f, 0)
    BY <2>1, <2>2
  <2> QED BY <2>3
<1>2. ASSUME NEW m \in 0 .. N - 1, m \in S PROVE m + 1 \in S
  <2>1. PICK f : Good(f, m)
    BY <1>2
  <2> DEFINE k == N - m
  <2>2. k \in 1 .. N /\ N + 1 - (m + 1) = k /\ N + 1 - m = k + 1 /\ m + 1 \in 0 .. N
    OBVIOUS
  <2> DEFINE h == [i \in k .. N + 1 |-> IF i = k THEN G[k][f[next[k]]] ELSE f[i]]
  <2> HIDE DEF k
  <2>3. next[k] \in k + 1 .. N + 1
    BY <2>2
  <2>4. \A i \in k + 1 .. N + 1 : h[i] = f[i]
    BY <2>2
  <2>5. h[k] = G[k][f[next[k]]]
    BY <2>2
  <2> HIDE DEF h
  <2>6. h[k] = G[k][h[next[k]]] /\ h[k] \in D[k]
    <3>1. f[next[k]] \in D[next[k]]
      BY <2>1, <2>2, <2>3
    <3>2. G[k][f[next[k]]] \in D[k]
      BY <2>2, <3>1
    <3> QED BY <2>3, <2>4, <2>5, <3>2
  <2>7. ASSUME NEW i \in k + 1 .. N + 1 PROVE AtPlace(h, i) /\ h[i] \in D[i]
    <3>1. AtPlace(f, i) /\ f[i] \in D[i] /\ h[i] = f[i]
      BY <2>1, <2>2, <2>4
    <3>2. CASE i = N + 1
      BY <3>1, <3>2
    <3>3. CASE i # N + 1
      <4>1. i \in 1 .. N
        BY <2>2, <3>3
      <4>2. next[i] \in i + 1 .. N + 1
        BY <4>1
      <4>3. next[i] \in k + 1 .. N + 1
        BY <2>2, <4>1, <4>2
      <4>4. h[next[i]] = f[next[i]]
        BY <2>4, <4>3
      <4> QED BY <3>1, <3>3, <4>4
    <3> QED BY <3>2, <3>3
  <2>8. \A i \in k .. N + 1 : i = k \/ i \in k + 1 .. N + 1
    BY <2>2
  <2>9. k # N + 1
    BY <2>2
  <2>10. \A i \in k .. N + 1 : AtPlace(h, i) /\ h[i] \in D[i]
    BY <2>6, <2>7, <2>8, <2>9
  <2> HIDE DEF AtPlace
  <2>11. Good(h, m + 1)
    BY <2>2, <2>10
  <2> QED BY <2>2, <2>11
<1>3. \A m \in 0 .. N : m \in S
  <2> HIDE DEF S
  <2> QED BY <1>1, <1>2, UpTo
<1>4. N \in S /\ N + 1 - N = 1
  BY <1>3
<1>5. PICK f : Good(f, N)
  BY <1>4
<1> DEFINE g == [i \in 1 .. N + 1 |-> f[i]]
<1>6. \A i \in 1 .. N + 1 : g[i] = f[i]
  OBVIOUS
<1>7. ASSUME NEW i \in 1 .. N + 1
      PROVE  g[i] = (IF i = N + 1 THEN b ELSE G[i][g[next[i]]]) /\ g[i] \in D[i]
  <2>1. AtPlace(f, i) /\ f[i] \in D[i]
    BY <1>4, <1>5
  <2>2. CASE i = N + 1
    BY <2>1, <2>2
  <2>3. CASE i # N + 1
    <3>1. next[i] \in 1 .. N + 1
      BY <2>3
    <3> HIDE DEF g
    <3>2. g[i] = f[i] /\ g[next[i]] = f[next[i]]
      BY <1>6, <3>1
    <3> QED BY <2>1, <2>3, <3>2
  <2> QED BY <2>2, <2>3
<1>8. g = [i \in 1 .. N + 1 |-> g[i]]
  OBVIOUS
<1> HIDE DEF g
<1>9. Jumps(g, N, next, b, G)
  BY <1>7, <1>8 DEF Jumps
<1> QED BY <1>7, <1>9

\* What a lexer reads at the places of a text of N characters.
Found(found, N) ==
  IsSeq(found) /\ Len(found) = N /\ \A i \in 1 .. N : found[i] # Error => found[i].end \in i + 1 .. N + 1
KindsRead(found) == {Error} \cup {Token(found[i].kind, found[i].text, 0) : i \in DOMAIN found}
\* f[i] are the tokens from place i on.
Reads(f, found, N) ==
  /\ f[N + 1] = <<>> /\ \A i \in 1 .. N + 1 : f[i] \in Seq(KindsRead(found))
  /\ \A i \in 1 .. N : f[i] = IF found[i] = Error THEN <<Error>> ELSE Kept(found[i]) \o f[found[i].end]

\* What is kept of a reading is made of the kinds of token that are read.
LEMMA KeptTyped ==
  ASSUME NEW found, NEW N \in Nat, Found(found, N), NEW i \in 1 .. N
  PROVE  Kept(found[i]) \in Seq(KindsRead(found)) /\ <<Error>> \in Seq(KindsRead(found))
<1> DEFINE A == KindsRead(found)
           t == Token(found[i].kind, found[i].text, 0)
<1>1. DOMAIN found = 1 .. N
  BY SeqFacts DEF Found
<1>2. t \in A /\ Error \in A
  BY <1>1 DEF KindsRead
<1>3. Kept(found[i]) = IF found[i].kind = "skipped" THEN <<>> ELSE <<t>>
  BY DEF Kept
<1> HIDE DEF t, A
<1>4. <<t>> \in Seq(A) /\ <<Error>> \in Seq(A) /\ <<>> \in Seq(A)
  BY <1>2
<1> QED BY <1>3, <1>4 DEF A

\* The tokens of a text are those from its first place on.
LEMMA TokensFrom ==
  ASSUME NEW found, NEW N \in Nat, Found(found, N)
  PROVE  \E f : Reads(f, found, N) /\ TokensOf(found) = f[1]
<1> DEFINE A == KindsRead(found)
           V(f) == f = [i \in 1 .. N + 1 |->
                          IF i > N THEN <<>>
                          ELSE IF found[i] = Error THEN <<Error>> ELSE Kept(found[i]) \o f[found[i].end]]
           u == CHOOSE f : V(f)
<1>1. IsSeq(found) /\ Len(found) = N
  BY DEF Found
<1>2. TokensOf(found) = u[1]
  BY <1>1, Zenon DEF TokensOf
<1> DEFINE next == [i \in 1 .. N |-> IF found[i] = Error THEN N + 1 ELSE found[i].end]
           G == [i \in 1 .. N |-> [x \in Seq(A) |-> IF found[i] = Error THEN <<Error>> ELSE Kept(found[i]) \o x]]
           D == [i \in 1 .. N + 1 |-> Seq(A)]
<1>3. \A i \in 1 .. N : Kept(found[i]) \in Seq(A) /\ <<Error>> \in Seq(A)
  BY KeptTyped
<1>4. \A i \in 1 .. N : next[i] \in i + 1 .. N + 1
  BY DEF Found
<1> DEFINE E == <<Error>>
           C(i) == Kept(found[i])
<1>5. \A i \in 1 .. N : \A x \in Seq(A) : C(i) \o x \in Seq(A)
  <2> HIDE DEF A, C, E
  <2> QED BY <1>3 DEF C
<1>6. \A i \in 1 .. N : \A x \in D[next[i]] : G[i][x] \in D[i]
  <2> SUFFICES ASSUME NEW i \in 1 .. N, NEW x \in D[next[i]] PROVE G[i][x] \in D[i]
    OBVIOUS
  <2>1. next[i] \in 1 .. N + 1
    BY <1>4
  <2> HIDE DEF next, A, C
  <2>2. D[next[i]] = Seq(A) /\ D[i] = Seq(A)
    BY <2>1
  <2>3. G[i][x] = IF found[i] = Error THEN <<Error>> ELSE C(i) \o x
    BY <2>2 DEF C
  <2> QED BY <1>3, <1>5, <2>2, <2>3
<1>7. <<>> \in D[N + 1]
  <2> HIDE DEF A
  <2> QED OBVIOUS
<1>8. \E f : Jumps(f, N, next, <<>>, G) /\ \A i \in 1 .. N + 1 : f[i] \in D[i]
  <2> HIDE DEF next, G, D
  <2> QED BY <1>4, <1>6, <1>7, JumpsExist
<1>9. \E f : V(f)
  <2>1. PICK f : Jumps(f, N, next, <<>>, G) /\ \A i \in 1 .. N + 1 : f[i] \in D[i]
    BY <1>8
  <2>2. \A i \in 1 .. N + 1 : f[i] \in Seq(A)
    BY <2>1
  <2>3. ASSUME NEW i \in 1 .. N + 1
        PROVE  (IF i = N + 1 THEN <<>> ELSE G[i][f[next[i]]])
               = IF i > N THEN <<>>
                 ELSE IF found[i] = Error THEN <<Error>> ELSE Kept(found[i]) \o f[found[i].end]
    <3>1. CASE i = N + 1
      <4>1. i > N
        BY <3>1
      <4> HIDE DEF G, next
      <4> QED BY <3>1, <4>1
    <3>2. CASE i # N + 1
      <4>1. i \in 1 .. N /\ ~(i > N) /\ next[i] \in 1 .. N + 1
        BY <3>2, <1>4
      <4>2. f[next[i]] \in Seq(A)
        <5> HIDE DEF next, A
        <5> QED BY <2>2, <4>1
      <4>3. G[i][f[next[i]]] = IF found[i] = Error THEN <<Error>> ELSE Kept(found[i]) \o f[next[i]]
        <5> HIDE DEF next, A
        <5> QED BY <4>1, <4>2
      <4>4. found[i] # Error => next[i] = found[i].end
        BY <4>1
      <4> HIDE DEF next, G
      <4> QED BY <3>2, <4>1, <4>3, <4>4
    <3> QED BY <3>1, <3>2
  <2>4. f = [i \in 1 .. N + 1 |-> IF i = N + 1 THEN <<>> ELSE G[i][f[next[i]]]]
    BY <2>1 DEF Jumps
  <2> HIDE DEF G, next, D, A
  <2>5. V(f)
    BY <2>3, <2>4
  <2> QED BY <2>5
<1>10. V(u)
  <2> HIDE DEF V
  <2> QED BY <1>9
<1> HIDE DEF u, next, G, D
<1>11. \A i \in 1 .. N + 1 : u[i] = IF i > N THEN <<>>
                          ELSE IF found[i] = Error THEN <<Error>> ELSE Kept(found[i]) \o u[found[i].end]
  BY <1>10
<1>12. u[N + 1] = <<>>
  BY <1>11
<1>13. \A i \in 1 .. N : u[i] = IF found[i] = Error THEN <<Error>> ELSE Kept(found[i]) \o u[found[i].end]
  BY <1>11
<1>14. \A i \in 1 .. N + 1 : u[i] \in Seq(A)
  <2> DEFINE S == {i \in 1 .. N + 1 : u[i] \in Seq(A)}
  <2>1. N + 1 \in S
    <3>1. u[N + 1] \in Seq(A) /\ N + 1 \in 1 .. N + 1
      <4> HIDE DEF A
      <4> QED BY <1>12
    <3> HIDE DEF A
    <3> QED BY <3>1
  <2>2. ASSUME NEW i \in 1 .. N, \A j \in i + 1 .. N + 1 : j \in S PROVE i \in S
    <3>1. CASE found[i] = Error
      <4>1. u[i] = <<Error>> /\ <<Error>> \in Seq(A) /\ i \in 1 .. N + 1
        <5> HIDE DEF A
        <5> QED BY <1>3, <1>13, <3>1
      <4> HIDE DEF A
      <4> QED BY <4>1
    <3>2. CASE found[i] # Error
      <4>1. found[i].end \in i + 1 .. N + 1
        BY <3>2 DEF Found
      <4>2. u[found[i].end] \in Seq(A)
        BY <2>2, <4>1
      <4>3. u[i] = C(i) \o u[found[i].end]
        BY <1>13, <3>2
      <4>4. C(i) \o u[found[i].end] \in Seq(A)
        <5> HIDE DEF A, C
        <5> QED BY <1>5, <4>2
      <4>5. i \in 1 .. N + 1
        OBVIOUS
      <4> HIDE DEF A, C
      <4> QED BY <4>3, <4>4, <4>5
    <3> QED BY <3>1, <3>2
  <2>3. \A i \in 1 .. N + 1 : i \in S
    <3> HIDE DEF S
    <3> QED BY <2>1, <2>2, DownTo
  <2> QED BY <2>3
<1>15. Reads(u, found, N)
  <2> HIDE DEF V
  <2> QED BY <1>12, <1>13, <1>14 DEF Reads, A
<1> QED BY <1>2, <1>15

Moved(t, k) == IF t = Error THEN Error ELSE Token(t.kind, t.text, t.end + k)

\* Moving a token changes its end only.
LEMMA MovedIs ==
  ASSUME NEW t, t # Error, NEW k
  PROVE  /\ Moved(t, k) # Error /\ Kept(Moved(t, k)) = Kept(t) /\ Moved(t, k).end = t.end + k
         /\ Moved(t, k).kind = t.kind /\ Moved(t, k).text = t.text
<1>1. Moved(t, k) = [kind |-> t.kind, text |-> t.text, end |-> t.end + k]
  BY DEF Moved, Token
<1>2. Moved(t, k) # Error
  <2>1. DOMAIN Moved(t, k) = {"kind", "text", "end"} /\ DOMAIN Error = {"kind"}
    BY <1>1 DEF Error
  <2>2. "text" \notin {"kind"} /\ "text" \in {"kind", "text", "end"}
    OBVIOUS
  <2> QED BY <2>1, <2>2, Zenon
<1>3. /\ Moved(t, k).end = t.end + k /\ Moved(t, k).kind = t.kind /\ Moved(t, k).text = t.text
  BY <1>1
<1> QED BY <1>2, <1>3 DEF Kept

\* What a lexer reads in a text of k + m characters, in its first k and in the
\* rest alone: whatever it reads in the first part it reads in the whole.
Divided(whole, upper, lower, k, m) ==
  /\ Found(whole, k + m) /\ Found(upper, k) /\ Found(lower, m)
  /\ \A i \in 1 .. k : upper[i] # Error => whole[i] = upper[i]
  /\ \A i \in 1 .. m : whole[k + i] = Moved(lower[i], k)

\* The tokens of the rest are those of the rest alone.
LEMMA LowerTokens ==
  ASSUME NEW k \in Nat, NEW m \in Nat, NEW whole, NEW upper, NEW lower,
         Divided(whole, upper, lower, k, m),
         NEW f, Reads(f, whole, k + m), NEW h, Reads(h, lower, m)
  PROVE  \A i \in 1 .. m + 1 : f[k + i] = h[i]
<1> DEFINE S == {i \in 1 .. m + 1 : f[k + i] = h[i]}
<1>1. m + 1 \in S
  <2>1. k + (m + 1) = k + m + 1
    OBVIOUS
  <2>2. f[k + m + 1] = <<>> /\ h[m + 1] = <<>>
    BY DEF Reads
  <2> QED BY <2>1, <2>2
<1>2. ASSUME NEW i \in 1 .. m, \A j \in i + 1 .. m + 1 : j \in S PROVE i \in S
  <2>1. i \in 1 .. m + 1 /\ k + i \in 1 .. k + m
    OBVIOUS
  <2>2. whole[k + i] = Moved(lower[i], k)
    BY DEF Divided
  <2>3. f[k + i] = IF whole[k + i] = Error THEN <<Error>> ELSE Kept(whole[k + i]) \o f[whole[k + i].end]
    BY <2>1 DEF Reads
  <2>4. h[i] = IF lower[i] = Error THEN <<Error>> ELSE Kept(lower[i]) \o h[lower[i].end]
    BY DEF Reads
  <2>5. CASE lower[i] = Error
    <3>1. whole[k + i] = Error
      BY <2>2, <2>5 DEF Moved
    <3>2. f[k + i] = h[i]
      BY <2>3, <2>4, <2>5, <3>1
    <3> QED BY <2>1, <3>2
  <2>6. CASE lower[i] # Error
    <3>1. /\ whole[k + i] # Error /\ Kept(whole[k + i]) = Kept(lower[i])
          /\ whole[k + i].end = lower[i].end + k
      BY <2>2, <2>6, MovedIs
    <3> DEFINE e == lower[i].end
    <3>2. e \in i + 1 .. m + 1
      BY <2>6 DEF Divided, Found
    <3> HIDE DEF e
    <3>3. e + k = k + e /\ e \in S
      BY <1>2, <3>2
    <3>4. f[k + e] = h[e]
      BY <3>3
    <3>5. f[k + i] = Kept(lower[i]) \o f[k + e] /\ h[i] = Kept(lower[i]) \o h[e]
      BY <2>3, <2>4, <2>6, <3>1, <3>3 DEF e
    <3> QED BY <2>1, <3>4, <3>5
  <2> QED BY <2>5, <2>6
<1>3. \A i \in 1 .. m + 1 : i \in S
  <2> HIDE DEF S
  <2> QED BY <1>1, <1>2, DownTo
<1> QED BY <1>3

\* Put before a text without an error, tokens make none.
LEMMA ErrorStays ==
  ASSUME NEW A, NEW s \in Seq(A), NEW t \in Seq(A)
  PROVE  ToSet(s \o t) = ToSet(s) \cup ToSet(t)
<1>1. /\ s \o t \in Seq(A) /\ Len(s \o t) = Len(s) + Len(t)
      /\ \A i \in 1 .. Len(s) + Len(t) : (s \o t)[i] = IF i <= Len(s) THEN s[i] ELSE t[i - Len(s)]
  BY ConcatProperties
<1> DEFINE u == s \o t
<1>2. DOMAIN u = 1 .. Len(s) + Len(t) /\ DOMAIN s = 1 .. Len(s) /\ DOMAIN t = 1 .. Len(t)
      /\ Len(s) \in Nat /\ Len(t) \in Nat
  BY <1>1
<1>3. \A i \in 1 .. Len(s) + Len(t) : u[i] = IF i <= Len(s) THEN s[i] ELSE t[i - Len(s)]
  BY <1>1
<1> HIDE DEF u
<1>4. ASSUME NEW x \in ToSet(u) PROVE x \in ToSet(s) \cup ToSet(t)
  <2>1. PICK i \in 1 .. Len(s) + Len(t) : x = u[i]
    BY <1>2, <1>4 DEF ToSet
  <2>2. CASE i <= Len(s)
    <3>1. i \in DOMAIN s /\ x = s[i]
      BY <1>2, <1>3, <2>1, <2>2
    <3> QED BY <3>1 DEF ToSet
  <2>3. CASE ~(i <= Len(s))
    <3>1. i - Len(s) \in DOMAIN t /\ x = t[i - Len(s)]
      BY <1>2, <1>3, <2>1, <2>3
    <3> QED BY <3>1 DEF ToSet
  <2> QED BY <2>2, <2>3
<1>5. ASSUME NEW x \in ToSet(s) PROVE x \in ToSet(u)
  <2>1. PICK i \in 1 .. Len(s) : x = s[i]
    BY <1>2, <1>5 DEF ToSet
  <2>2. i \in DOMAIN u /\ u[i] = x
    BY <1>2, <1>3, <2>1
  <2> QED BY <2>2 DEF ToSet
<1>6. ASSUME NEW x \in ToSet(t) PROVE x \in ToSet(u)
  <2>1. PICK i \in 1 .. Len(t) : x = t[i]
    BY <1>2, <1>6 DEF ToSet
  <2> DEFINE j == Len(s) + i
  <2>2. j \in 1 .. Len(s) + Len(t) /\ ~(j <= Len(s)) /\ j - Len(s) = i
    BY <1>2
  <2> HIDE DEF j
  <2>3. j \in DOMAIN u /\ u[j] = x
    BY <1>2, <1>3, <2>1, <2>2
  <2> QED BY <2>3 DEF ToSet
<1> QED BY <1>4, <1>5, <1>6 DEF u

\* The tokens of the whole, of its first part and of the rest.
AllRead(f, g, h, whole, upper, lower, k, m) ==
  /\ k \in Nat /\ m \in Nat /\ Divided(whole, upper, lower, k, m)
  /\ Reads(f, whole, k + m) /\ Reads(g, upper, k) /\ Reads(h, lower, m)

Joined(f, g, h) == Error \notin ToSet(g[1]) => f[1] = g[1] \o h[1]

\* A text accepted up to the end of its first part reads as the tokens of
\* that part, and then those of the rest.
LEMMA UpperTokens ==
  ASSUME NEW k, NEW m, NEW whole, NEW upper, NEW lower, NEW f, NEW g, NEW h,
         AllRead(f, g, h, whole, upper, lower, k, m)
  PROVE  Joined(f, g, h)
<1> SUFFICES ASSUME k \in Nat, m \in Nat, Divided(whole, upper, lower, k, m),
                    Reads(f, whole, k + m), Reads(g, upper, k), Reads(h, lower, m)
             PROVE  Error \notin ToSet(g[1]) => f[1] = g[1] \o h[1]
  BY DEF AllRead, Joined
<1> DEFINE B == KindsRead(upper) \cup KindsRead(lower)
           S == {i \in 1 .. k + 1 : Error \notin ToSet(g[i]) => f[i] = g[i] \o h[1]}
<1>0. h[1] \in Seq(B) /\ \A i \in 1 .. k + 1 : g[i] \in Seq(B)
  <2>1. 1 \in 1 .. m + 1
    OBVIOUS
  <2>2. h[1] \in Seq(KindsRead(lower)) /\ \A i \in 1 .. k + 1 : g[i] \in Seq(KindsRead(upper))
    BY <2>1 DEF Reads
  <2> QED BY <2>2, SeqMonotonic
<1>1. k + 1 \in S
  <2>1. f[k + 1] = h[1] /\ g[k + 1] = <<>>
    <3>1. \A i \in 1 .. m + 1 : f[k + i] = h[i]
      BY LowerTokens
    <3>2. 1 \in 1 .. m + 1
      OBVIOUS
    <3> QED BY <3>1, <3>2 DEF Reads
  <2>2. <<>> \o h[1] = h[1]
    <3> HIDE DEF B
    <3> QED BY <1>0, ConcatEmptySeq
  <2>3. f[k + 1] = g[k + 1] \o h[1] /\ k + 1 \in 1 .. k + 1
    BY <2>1, <2>2
  <2> QED BY <2>3
<1>2. ASSUME NEW i \in 1 .. k, \A j \in i + 1 .. k + 1 : j \in S PROVE i \in S
  <2> SUFFICES ASSUME Error \notin ToSet(g[i]) PROVE f[i] = g[i] \o h[1]
    <3>1. i \in 1 .. k + 1
      OBVIOUS
    <3> QED BY <3>1
  <2>1. i \in 1 .. k + m
    OBVIOUS
  <2>2. g[i] = IF upper[i] = Error THEN <<Error>> ELSE Kept(upper[i]) \o g[upper[i].end]
    BY DEF Reads
  <2>3. upper[i] # Error
    <3> SUFFICES ASSUME upper[i] = Error PROVE FALSE
      OBVIOUS
    <3>1. g[i] = <<Error>>
      BY <2>2
    <3>2. Error \in ToSet(<<Error>>)
      BY DEF ToSet
    <3> QED BY <3>1, <3>2
  <2>4. whole[i] = upper[i]
    BY <2>3 DEF Divided
  <2>5. f[i] = Kept(upper[i]) \o f[upper[i].end]
    BY <2>1, <2>3, <2>4 DEF Reads
  <2> DEFINE e == upper[i].end  c == Kept(upper[i])
  <2>6. e \in i + 1 .. k + 1
    BY <2>3 DEF Divided, Found
  <2>7. c \in Seq(B)
    <3>1. c \in Seq(KindsRead(upper))
      BY KeptTyped DEF Divided
    <3> QED BY <3>1, SeqMonotonic
  <2>8. g[i] = c \o g[e] /\ f[i] = c \o f[e]
    BY <2>2, <2>3, <2>5
  <2> HIDE DEF e, c, B
  <2>9. e \in 1 .. k + 1 /\ g[e] \in Seq(B)
    BY <1>0, <2>6
  <2>10. Error \notin ToSet(g[e])
    <3>1. ToSet(c \o g[e]) = ToSet(c) \cup ToSet(g[e])
      BY <2>7, <2>9, ErrorStays
    <3> QED BY <2>8, <3>1
  <2>11. f[e] = g[e] \o h[1]
    BY <1>2, <2>6, <2>10
  <2>12. c \o (g[e] \o h[1]) = (c \o g[e]) \o h[1]
    <3>1. c \in Seq(B) /\ g[e] \in Seq(B) /\ h[1] \in Seq(B)
      BY <1>0, <2>7, <2>9 DEF B
    <3> DEFINE x == g[e]  y == h[1]
    <3>2. c \in Seq(B) /\ x \in Seq(B) /\ y \in Seq(B)
      BY <3>1
    <3> HIDE DEF x, y
    <3>3. (c \o x) \o y = c \o (x \o y)
      <4>1. \A s, t, w \in Seq(B) : (s \o t) \o w = s \o (t \o w)
        BY ConcatAssociative
      <4> QED BY <3>2, <4>1, Zenon
    <3> QED BY <3>3 DEF x, y
  <2> QED BY <2>8, <2>11, <2>12
<1>3. \A i \in 1 .. k + 1 : i \in S
  <2> HIDE DEF S
  <2> QED BY <1>1, <1>2, DownTo
<1> QED
  <2>1. 1 \in 1 .. k + 1
    OBVIOUS
  <2> QED BY <1>3, <2>1

\* The newline is nothing but a blank, and no character is of two classes.
LEMMA NewlineIs ==
  /\ "newline" \notin {DoubleQuote, Apostrophe, Backslash, Equals, More}
  /\ "newline" \notin Digits \cup {Point} /\ "newline" \notin WordChars
BY DEF DoubleQuote, Apostrophe, Backslash, Equals, More, Digits, Point, WordChars, Letters

\* Where a run of a class of characters ends, and a line.
IsWhile(s, i, class, w) ==
  /\ w \in i .. Len(s) + 1 /\ (w = Len(s) + 1 \/ s[w] \notin class)
  /\ \A j \in i .. w - 1 : s[j] \in class
IsLine(s, i, e) ==
  /\ e \in i .. Len(s) /\ (e = Len(s) \/ s[e] = "newline")
  /\ \A j \in i .. e - 1 : s[j] # "newline"

\* While gives the one place where a run of the class ends.
LEMMA WhileIs ==
  ASSUME NEW s, IsSeq(s), NEW i \in 1 .. Len(s) + 1, NEW class
  PROVE  /\ IsWhile(s, i, class, While(s, i, class))
         /\ \A w : IsWhile(s, i, class, w) => While(s, i, class) = w
<1> DEFINE S == {k \in i .. Len(s) + 1 : k = Len(s) + 1 \/ s[k] \notin class}
           u == While(s, i, class)
<1>0. Len(s) \in Nat
  BY SeqFacts
<1>1. S \in SUBSET Nat /\ Len(s) + 1 \in S
  BY <1>0
<1>2. Min(S) \in S /\ \A j \in S : Min(S) <= j
  <2> HIDE DEF S
  <2> QED BY <1>1, MinIsLeast
<1>3. u = Min(S)
  BY DEF While
<1> HIDE DEF u
<1>4. u \in i .. Len(s) + 1 /\ (u = Len(s) + 1 \/ s[u] \notin class)
  BY <1>2, <1>3
<1>5. \A j \in i .. u - 1 : s[j] \in class
  <2> SUFFICES ASSUME NEW j \in i .. u - 1, s[j] \notin class PROVE FALSE
    OBVIOUS
  <2>1. j \in S /\ ~(u <= j)
    BY <1>0, <1>4
  <2> QED BY <1>2, <1>3, <2>1
<1>6. ASSUME NEW w, IsWhile(s, i, class, w) PROVE u = w
  <2>1. /\ w \in i .. Len(s) + 1 /\ (w = Len(s) + 1 \/ s[w] \notin class)
        /\ \A j \in i .. w - 1 : s[j] \in class
    BY <1>6 DEF IsWhile
  <2>2. w \in S
    BY <2>1
  <2>3. u <= w
    BY <1>2, <1>3, <2>2
  <2>4. ~(u < w)
    <3> SUFFICES ASSUME u < w PROVE FALSE
      OBVIOUS
    <3>1. u \in i .. w - 1 /\ u # Len(s) + 1
      BY <1>0, <1>4, <2>1
    <3> QED BY <1>4, <2>1, <3>1
  <2> QED BY <1>0, <1>4, <2>1, <2>3, <2>4
<1> QED BY <1>4, <1>5, <1>6 DEF u, IsWhile

\* AfterLine gives the place behind the line's end, or behind the text.
LEMMA LineIs ==
  ASSUME NEW s, IsSeq(s), NEW i \in 1 .. Len(s)
  PROVE  /\ IsLine(s, i, AfterLine(s, i) - 1) /\ AfterLine(s, i) \in i + 1 .. Len(s) + 1
         /\ \A e : IsLine(s, i, e) => AfterLine(s, i) = e + 1
<1> DEFINE S == {k \in i .. Len(s) : s[k] = "newline"} \cup {Len(s)}
           u == Min(S)
<1>0. Len(s) \in Nat
  BY SeqFacts
<1>1. S \in SUBSET Nat /\ Len(s) \in S
  BY <1>0
<1>2. Min(S) \in S /\ \A j \in S : Min(S) <= j
  <2> HIDE DEF S
  <2> QED BY <1>1, MinIsLeast
<1>3. AfterLine(s, i) = u + 1
  BY DEF AfterLine
<1>4. u \in S /\ \A j \in S : u <= j
  BY <1>2
<1> HIDE DEF u
<1>5. u \in i .. Len(s) /\ (u = Len(s) \/ s[u] = "newline")
  BY <1>0, <1>4
<1>6. \A j \in i .. u - 1 : s[j] # "newline"
  <2> SUFFICES ASSUME NEW j \in i .. u - 1, s[j] = "newline" PROVE FALSE
    OBVIOUS
  <2>1. j \in S /\ ~(u <= j)
    BY <1>0, <1>5
  <2> QED BY <1>4, <2>1
<1>7. ASSUME NEW e, IsLine(s, i, e) PROVE u = e
  <2>1. /\ e \in i .. Len(s) /\ (e = Len(s) \/ s[e] = "newline")
        /\ \A j \in i .. e - 1 : s[j] # "newline"
    BY <1>7 DEF IsLine
  <2>2. u <= e
    BY <1>4, <2>1
  <2>3. ~(u < e)
    <3> SUFFICES ASSUME u < e PROVE FALSE
      OBVIOUS
    <3>1. u \in i .. e - 1 /\ u # Len(s)
      BY <1>0, <1>5, <2>1
    <3> QED BY <1>5, <2>1, <3>1
  <2> QED BY <1>0, <1>5, <2>1, <2>2, <2>3
<1>8. u + 1 \in i + 1 .. Len(s) + 1 /\ u + 1 - 1 = u
  BY <1>0, <1>5
<1> QED BY <1>3, <1>5, <1>6, <1>7, <1>8 DEF IsLine

\* p is what a text s holds behind its first a characters, up to its end or up
\* to the end of a line.
Part(s, p, a) ==
  /\ IsSeq(s) /\ IsSeq(p) /\ a \in Nat /\ a + Len(p) <= Len(s)
  /\ \A j \in 1 .. Len(p) : s[a + j] = p[j]
  /\ a + Len(p) = Len(s) \/ (Len(p) > 0 /\ p[Len(p)] = "newline")

\* What being a part gives, with the lengths as numbers.
LEMMA PartIs ==
  ASSUME NEW s, NEW p, NEW a, Part(s, p, a)
  PROVE  /\ IsSeq(s) /\ IsSeq(p) /\ a \in Nat /\ Len(s) \in Nat /\ Len(p) \in Nat
         /\ a + Len(p) <= Len(s) /\ \A j \in 1 .. Len(p) : s[a + j] = p[j]
         /\ a + Len(p) = Len(s) \/ (Len(p) > 0 /\ p[Len(p)] = "newline")
BY SeqFacts DEF Part

\* In a part, runs and lines end where they end in the text.
LEMMA WhileInPart ==
  ASSUME NEW s, NEW p, NEW a, Part(s, p, a), NEW i \in 1 .. Len(p), NEW class, "newline" \notin class
  PROVE  While(s, a + i, class) = a + While(p, i, class) /\ Run(s, a + i, class) = Run(p, i, class)
<1>0. /\ IsSeq(s) /\ IsSeq(p) /\ a \in Nat /\ Len(s) \in Nat /\ Len(p) \in Nat
      /\ a + Len(p) <= Len(s) /\ \A j \in 1 .. Len(p) : s[a + j] = p[j]
  BY PartIs
<1>1. a + Len(p) = Len(s) \/ (Len(p) > 0 /\ p[Len(p)] = "newline")
  BY PartIs
<1> DEFINE w == While(p, i, class)
<1>2. IsWhile(p, i, class, w)
  <2>1. i \in 1 .. Len(p) + 1
    BY <1>0
  <2> QED BY <1>0, <2>1, WhileIs
<1> HIDE DEF w
<1>3. /\ w \in i .. Len(p) + 1 /\ (w = Len(p) + 1 \/ p[w] \notin class)
      /\ \A j \in i .. w - 1 : p[j] \in class
  BY <1>2 DEF IsWhile
<1>4. w = Len(p) + 1 => a + Len(p) = Len(s)
  <2> SUFFICES ASSUME w = Len(p) + 1, p[Len(p)] = "newline" PROVE FALSE
    BY <1>1
  <2>1. Len(p) \in i .. w - 1
    BY <1>0
  <2> QED BY <1>3, <2>1
<1>5. IsWhile(s, a + i, class, a + w)
  <2>1. a + w \in a + i .. Len(s) + 1
    BY <1>0, <1>3, <1>4
  <2>2. a + w = Len(s) + 1 \/ s[a + w] \notin class
    <3>0. Len(s) \in Nat /\ Len(p) \in Nat /\ a \in Nat /\ w \in i .. Len(p) + 1
      BY <1>0, <1>3
    <3>1. CASE w = Len(p) + 1
      <4>1. a + Len(p) = Len(s)
        BY <1>4, <3>1
      <4>2. a + w = Len(s) + 1
        BY <3>0, <3>1, <4>1
      <4> QED BY <4>2
    <3>2. CASE w # Len(p) + 1
      <4>1. w \in 1 .. Len(p)
        BY <3>0, <3>2
      <4>2. p[w] \notin class
        BY <1>3, <3>2
      <4>3. s[a + w] = p[w]
        BY <1>0, <4>1
      <4> QED BY <4>2, <4>3
    <3> QED BY <3>1, <3>2
  <2>3. ASSUME NEW j \in a + i .. (a + w) - 1 PROVE s[j] \in class
    <3> DEFINE d == j - a
    <3>1. d \in i .. w - 1 /\ d \in 1 .. Len(p) /\ a + d = j
      BY <1>0, <1>3
    <3> HIDE DEF d
    <3>2. s[a + d] = p[d] /\ p[d] \in class
      BY <1>0, <1>3, <3>1
    <3> QED BY <3>1, <3>2
  <2> DEFINE b == a + i  c == a + w
  <2>4. c \in b .. Len(s) + 1
    BY <2>1
  <2>5. c = Len(s) + 1 \/ s[c] \notin class
    BY <2>2
  <2>6. \A j \in b .. c - 1 : s[j] \in class
    BY <2>3
  <2> HIDE DEF b, c
  <2>7. IsWhile(s, b, class, c)
    BY <2>4, <2>5, <2>6 DEF IsWhile
  <2> QED BY <2>7 DEF b, c
<1>6. While(s, a + i, class) = a + w
  <2>1. a + i \in 1 .. Len(s) + 1
    BY <1>0
  <2> QED BY <1>0, <1>5, <2>1, WhileIs
<1>7. SubSeq(s, a + i, (a + w) - 1) = SubSeq(p, i, w - 1)
  <2> DEFINE x == SubSeq(s, a + i, (a + w) - 1)  y == SubSeq(p, i, w - 1)
             b == a + i  c == (a + w) - 1  v == w - 1
  <2>1. /\ b \in Nat /\ b >= 1 /\ c \in Nat /\ c <= Len(s) /\ i \in Nat /\ i >= 1 /\ v \in Nat /\ v <= Len(p)
        /\ (b <= c <=> i <= v) /\ c - b + 1 = v - i + 1 /\ b - a = i /\ \A j \in 1 .. v - i + 1 : b + j - 1 = a + (i + j - 1)
    BY <1>0, <1>3, <1>4
  <2> HIDE DEF b, c, v
  <2>2. /\ IsSeq(SubSeq(s, b, c)) /\ Len(SubSeq(s, b, c)) = IF b <= c THEN c - b + 1 ELSE 0
        /\ \A j \in 1 .. c - b + 1 : SubSeq(s, b, c)[j] = s[b + j - 1]
    BY <1>0, <2>1, PartFacts
  <2>3. /\ IsSeq(SubSeq(p, i, v)) /\ Len(SubSeq(p, i, v)) = IF i <= v THEN v - i + 1 ELSE 0
        /\ \A j \in 1 .. v - i + 1 : SubSeq(p, i, v)[j] = p[i + j - 1]
    BY <1>0, <2>1, PartFacts
  <2>4. x = SubSeq(s, b, c) /\ y = SubSeq(p, i, v)
    BY DEF b, c, v
  <2> HIDE DEF x, y
  <2>5. IsSeq(x) /\ IsSeq(y) /\ Len(x) = Len(y)
    BY <2>1, <2>2, <2>3, <2>4
  <2>6. ASSUME NEW j \in 1 .. Len(x) PROVE x[j] = y[j]
    <3>1. j \in 1 .. v - i + 1 /\ j \in 1 .. c - b + 1
      BY <1>0, <2>1, <2>2, <2>4
    <3>2. x[j] = s[b + j - 1] /\ y[j] = p[i + j - 1] /\ b + j - 1 = a + (i + j - 1)
      BY <2>1, <2>2, <2>3, <2>4, <3>1
    <3>3. i + j - 1 \in 1 .. Len(p)
      BY <1>0, <2>1, <3>1
    <3> QED BY <1>0, <3>2, <3>3
  <2>7. x = y
    BY <2>5, <2>6, SameSeq
  <2> QED BY <2>7 DEF x, y
<1>8. Run(s, a + i, class) = SubSeq(s, a + i, (a + w) - 1)
  <2> DEFINE b == a + i  c == a + w
  <2>1. While(s, b, class) = c
    BY <1>6
  <2> HIDE DEF b, c
  <2>2. Run(s, b, class) = SubSeq(s, b, c - 1)
    BY <2>1 DEF Run
  <2> QED BY <2>2 DEF b, c
<1>9. Run(p, i, class) = SubSeq(p, i, w - 1)
  BY DEF Run, w
<1>10. Run(s, a + i, class) = Run(p, i, class)
  BY <1>7, <1>8, <1>9
<1> QED BY <1>6, <1>10 DEF w

\* A comment in a part ends where it ends in the text.
LEMMA LineInPart ==
  ASSUME NEW s, NEW p, NEW a, Part(s, p, a), NEW i \in 1 .. Len(p)
  PROVE  AfterLine(s, a + i) = a + AfterLine(p, i)
<1>0. /\ IsSeq(s) /\ IsSeq(p) /\ a \in Nat /\ Len(s) \in Nat /\ Len(p) \in Nat
      /\ a + Len(p) <= Len(s) /\ \A j \in 1 .. Len(p) : s[a + j] = p[j]
  BY PartIs
<1>1. a + Len(p) = Len(s) \/ (Len(p) > 0 /\ p[Len(p)] = "newline")
  BY PartIs
<1> DEFINE e == AfterLine(p, i) - 1
<1>2. IsLine(p, i, e) /\ AfterLine(p, i) = e + 1
  <2>1. IsLine(p, i, AfterLine(p, i) - 1) /\ AfterLine(p, i) \in i + 1 .. Len(p) + 1
    BY <1>0, LineIs
  <2> QED BY <1>0, <2>1
<1> HIDE DEF e
<1>3. /\ e \in i .. Len(p) /\ (e = Len(p) \/ p[e] = "newline")
      /\ \A j \in i .. e - 1 : p[j] # "newline"
  BY <1>2 DEF IsLine
<1>4. IsLine(s, a + i, a + e)
  <2>1. a + e \in a + i .. Len(s)
    BY <1>0, <1>3
  <2>2. a + e = Len(s) \/ s[a + e] = "newline"
    <3>1. e \in 1 .. Len(p)
      BY <1>0, <1>3
    <3> QED BY <1>0, <1>1, <1>3, <3>1
  <2>3. ASSUME NEW j \in a + i .. (a + e) - 1 PROVE s[j] # "newline"
    <3> DEFINE d == j - a
    <3>1. d \in i .. e - 1 /\ d \in 1 .. Len(p) /\ a + d = j
      BY <1>0, <1>3
    <3> HIDE DEF d
    <3>2. s[a + d] = p[d] /\ p[d] # "newline"
      BY <1>0, <1>3, <3>1
    <3> QED BY <3>1, <3>2
  <2> DEFINE b == a + i  c == a + e
  <2>4. c \in b .. Len(s)
    BY <2>1
  <2>5. c = Len(s) \/ s[c] = "newline"
    BY <2>2
  <2>6. \A j \in b .. c - 1 : s[j] # "newline"
    BY <2>3
  <2> HIDE DEF b, c
  <2>7. IsLine(s, b, c)
    BY <2>4, <2>5, <2>6 DEF IsLine
  <2> QED BY <2>7 DEF b, c
<1>5. AfterLine(s, a + i) = a + e + 1
  <2>1. a + i \in 1 .. Len(s)
    BY <1>0
  <2>2. AfterLine(s, a + i) = (a + e) + 1
    BY <1>0, <1>4, <2>1, LineIs
  <2> QED BY <2>2
<1>6. a + e + 1 = a + (e + 1)
  BY <1>0, <1>3
<1> QED BY <1>2, <1>5, <1>6

\* What a turn of read_string makes of what is read behind it.
After(s, k) == IF s[k] = Backslash /\ k < Len(s) THEN k + 2 ELSE k + 1
Turn(s, q, k, x) ==
  IF k = Len(s) /\ s[k] = Backslash THEN Error
  ELSE IF s[k] = q THEN Token("string", <<>>, k + 1)
  ELSE IF s[k] = Backslash THEN Behind(Escaped(s[k + 1]), x) ELSE Behind(s[k], x)
Chars(s) == {s[j] : j \in DOMAIN s} \cup {"newline"}
Strings(s, k) == {Error} \cup {Token("string", t, e) : t \in Seq(Chars(s)), e \in k + 1 .. Len(s) + 1}
StringRead(r, s, q) ==
  /\ r[Len(s) + 1] = Error /\ \A k \in 1 .. Len(s) + 1 : r[k] \in Strings(s, k)
  /\ \A k \in 1 .. Len(s) : r[k] = Turn(s, q, k, r[After(s, k)])

\* A token is what it was made of, and no error.
LEMMA TokenIs ==
  ASSUME NEW kind, NEW text, NEW end
  PROVE  /\ Token(kind, text, end) # Error /\ Token(kind, text, end).kind = kind
         /\ Token(kind, text, end).text = text /\ Token(kind, text, end).end = end
<1>1. Token(kind, text, end) # Error
  <2>1. DOMAIN Token(kind, text, end) = {"kind", "text", "end"} /\ DOMAIN Error = {"kind"}
    BY DEF Error, Token
  <2>2. "text" \notin {"kind"} /\ "text" \in {"kind", "text", "end"}
    OBVIOUS
  <2> QED BY <2>1, <2>2, Zenon
<1> QED BY <1>1 DEF Token

\* A character before the rest of a string: an error only if the rest is one.
LEMMA BehindIs ==
  ASSUME NEW c, NEW x, x = Error \/ x = Token("string", x.text, x.end)
  PROVE  /\ Behind(c, x) = Error <=> x = Error
         /\ x # Error => Behind(c, x) = Token("string", <<c>> \o x.text, x.end)
<1>1. CASE x = Error
  BY <1>1 DEF Behind
<1>2. CASE x # Error
  <2>1. Behind(c, x) = Token("string", <<c>> \o x.text, x.end)
    BY <1>2 DEF Behind
  <2> DEFINE w == <<c>> \o x.text  e == x.end
  <2> HIDE DEF w, e
  <2>2. Token("string", w, e) # Error
    BY TokenIs
  <2>3. Behind(c, x) # Error
    BY <2>1, <2>2 DEF w, e
  <2> QED BY <1>2, <2>1, <2>3
<1> QED BY <1>1, <1>2

\* A character before a moved rest is the moved string.
LEMMA MovedBehind ==
  ASSUME NEW c, NEW x, NEW a, x = Error \/ x = Token("string", x.text, x.end)
  PROVE  Behind(c, Moved(x, a)) = Moved(Behind(c, x), a)
<1>1. CASE x = Error
  BY <1>1 DEF Behind, Moved
<1>2. CASE x # Error
  <2> DEFINE y == Token("string", <<c>> \o x.text, x.end)
  <2>1. Behind(c, x) = y /\ y # Error /\ y.kind = "string" /\ y.text = <<c>> \o x.text /\ y.end = x.end
    <3>1. Behind(c, x) = y
      BY <1>2 DEF Behind
    <3> DEFINE w == <<c>> \o x.text  e == x.end
    <3>2. y = Token("string", w, e)
      OBVIOUS
    <3> HIDE DEF w, e, y
    <3>3. y # Error /\ y.kind = "string" /\ y.text = w /\ y.end = e
      BY <3>2, TokenIs
    <3> QED BY <3>1, <3>3 DEF w, e
  <2>2. x.kind = "string"
    BY <1>2, TokenIs
  <2>3. Moved(x, a) = Token("string", x.text, x.end + a)
    BY <1>2, <2>2 DEF Moved
  <2>4. Moved(x, a) # Error /\ Moved(x, a).text = x.text /\ Moved(x, a).end = x.end + a
    BY <2>3, TokenIs
  <2>5. Behind(c, Moved(x, a)) = Token("string", <<c>> \o x.text, x.end + a)
    BY <2>4 DEF Behind
  <2> HIDE DEF y
  <2>6. Moved(y, a) = Token("string", <<c>> \o x.text, x.end + a)
    BY <2>1 DEF Moved
  <2> QED BY <1>2, <2>1, <2>5, <2>6 DEF y
<1> QED BY <1>1, <1>2

\* A closed string of characters of the text is one of the strings.
LEMMA StringsHas ==
  ASSUME NEW s, NEW k, NEW t \in Seq(Chars(s)), NEW e \in k + 1 .. Len(s) + 1
  PROVE  Token("string", t, e) \in Strings(s, k)
<1> DEFINE S == Seq(Chars(s))  E == k + 1 .. Len(s) + 1  x == Token("string", t, e)
<1>1. t \in S /\ e \in E
  OBVIOUS
<1> HIDE DEF S, E
<1>2. \E tt \in S, ee \in E : x = Token("string", tt, ee)
  BY <1>1
<1> HIDE DEF x
<1>3. x \in {Token("string", tt, ee) : tt \in S, ee \in E}
  BY <1>2
<1> QED BY <1>3 DEF Strings, S, E, x

\* A turn keeps the type of what is read behind it.
LEMMA TurnTyped ==
  ASSUME NEW s, IsSeq(s), NEW q, NEW k \in 1 .. Len(s)
  PROVE  /\ After(s, k) \in k + 1 .. Len(s) + 1
         /\ \A x \in Strings(s, After(s, k)) : Turn(s, q, k, x) \in Strings(s, k)
<1>0. Len(s) \in Nat /\ DOMAIN s = 1 .. Len(s)
  BY SeqFacts
<1>1. After(s, k) \in k + 1 .. Len(s) + 1
  BY <1>0 DEF After
<1>9. k # Len(s) => k < Len(s)
  <2> DEFINE n == Len(s)
  <2>1. n \in Nat /\ k \in 1 .. n
    BY <1>0
  <2> HIDE DEF n
  <2>2. k # n => k < n
    BY <2>1
  <2> QED BY <2>2 DEF n
<1> DEFINE C == Chars(s)  a == After(s, k)  m == Len(s) + 1
<1>2. <<>> \in Seq(C) /\ \A c \in C : <<c>> \in Seq(C)
  <2> HIDE DEF C
  <2> QED OBVIOUS
<1>3. s[k] \in C /\ "newline" \in C /\ (k < Len(s) => s[k + 1] \in C)
  BY <1>0 DEF Chars
<1>4. k < Len(s) => Escaped(s[k + 1]) \in C
  BY <1>3 DEF Escaped
<1>5. Error \in Strings(s, k)
  BY DEF Strings
<1>6. Token("string", <<>>, k + 1) \in Strings(s, k)
  <2>1. k + 1 \in k + 1 .. m
    BY <1>0
  <2>2. <<>> \in Seq(Chars(s)) /\ k + 1 \in k + 1 .. Len(s) + 1
    BY <1>2, <2>1
  <2> DEFINE w == <<>>  e == k + 1
  <2>3. w \in Seq(Chars(s)) /\ e \in k + 1 .. Len(s) + 1
    BY <2>2
  <2> HIDE DEF w, e
  <2>4. Token("string", w, e) \in Strings(s, k)
    BY <2>3, StringsHas
  <2> QED BY <2>4 DEF w, e
<1>7. ASSUME NEW x \in Strings(s, a), NEW c \in C PROVE Behind(c, x) \in Strings(s, k)
  <2>1. CASE x = Error
    <3>1. Behind(c, x) = Error
      BY <2>1 DEF Behind
    <3> QED BY <1>5, <3>1
  <2>2. CASE x # Error
    <3>1. PICK t \in Seq(C), e \in a + 1 .. m : x = Token("string", t, e)
      BY <2>2 DEF Strings
    <3>2. x.text = t /\ x.end = e
      BY <3>1, TokenIs
    <3>3. Behind(c, x) = Token("string", <<c>> \o t, e)
      BY <2>2, <3>2 DEF Behind
    <3>4. <<c>> \o t \in Seq(C)
      <4>1. <<c>> \in Seq(C)
        BY <1>2
      <4> HIDE DEF C
      <4> QED BY <4>1, ConcatProperties
    <3>5. e \in k + 1 .. m
      <4> HIDE DEF a
      <4>1. a \in k + 1 .. m
        BY <1>1 DEF a
      <4> QED BY <1>0, <4>1
    <3> HIDE DEF C, m
    <3> DEFINE w == <<c>> \o t
    <3>6. w \in Seq(Chars(s)) /\ e \in k + 1 .. Len(s) + 1
      BY <3>4, <3>5 DEF C, m
    <3> HIDE DEF w
    <3>7. Token("string", w, e) \in Strings(s, k)
      BY <3>6, StringsHas
    <3> QED BY <3>3, <3>7 DEF w
  <2> QED BY <2>1, <2>2
<1>8. ASSUME NEW x \in Strings(s, a) PROVE Turn(s, q, k, x) \in Strings(s, k)
  <2>1. CASE k = Len(s) /\ s[k] = Backslash
    BY <1>5, <2>1 DEF Turn
  <2>2. CASE ~(k = Len(s) /\ s[k] = Backslash) /\ s[k] = q
    BY <1>6, <2>2 DEF Turn
  <2>3. CASE ~(k = Len(s) /\ s[k] = Backslash) /\ s[k] # q /\ s[k] = Backslash
    <3>1. Escaped(s[k + 1]) \in C
      <4>0. k # Len(s)
        BY <2>3
      <4>1. k < Len(s)
        BY <1>9, <4>0
      <4> HIDE DEF C
      <4> QED BY <1>4, <4>1
    <3>2. Turn(s, q, k, x) = Behind(Escaped(s[k + 1]), x)
      BY <2>3 DEF Turn
    <3> HIDE DEF C
    <3> QED BY <1>7, <3>1, <3>2
  <2>4. CASE ~(k = Len(s) /\ s[k] = Backslash) /\ s[k] # q /\ s[k] # Backslash
    <3>2. Turn(s, q, k, x) = Behind(s[k], x)
      BY <2>4 DEF Turn
    <3> HIDE DEF C
    <3> QED BY <1>3, <1>7, <3>2
  <2> QED BY <2>1, <2>2, <2>3, <2>4
<1> QED BY <1>1, <1>8 DEF a

\* read_string is such a reading of the text's strings.
LEMMA StringIsRead ==
  ASSUME NEW s, IsSeq(s), NEW q
  PROVE  \E r : StringRead(r, s, q) /\ \A i \in 1 .. Len(s) + 1 : read_string(s, i, q) = r[i]
<1> DEFINE n == Len(s)
           V(f) == f = [k \in 1 .. Len(s) + 1 |->
                     IF k > Len(s) \/ (k = Len(s) /\ s[k] = Backslash) THEN Error
                     ELSE IF s[k] = q THEN Token("string", <<>>, k + 1)
                     ELSE IF s[k] = Backslash THEN Behind(Escaped(s[k + 1]), f[k + 2])
                     ELSE Behind(s[k], f[k + 1])]
           u == CHOOSE f : V(f)
<1>0. n \in Nat
  BY SeqFacts
<1>1. \A i \in 1 .. Len(s) + 1 : read_string(s, i, q) = u[i]
  BY Zenon DEF read_string
<1> DEFINE next == [k \in 1 .. n |-> After(s, k)]
           G == [k \in 1 .. n |-> [x \in Strings(s, After(s, k)) |-> Turn(s, q, k, x)]]
           D == [k \in 1 .. n + 1 |-> Strings(s, k)]
<1>2. \A k \in 1 .. n : /\ After(s, k) \in k + 1 .. n + 1
                        /\ \A x \in Strings(s, After(s, k)) : Turn(s, q, k, x) \in Strings(s, k)
  BY TurnTyped
<1>3. \A k \in 1 .. n : next[k] \in k + 1 .. n + 1
  BY <1>2
<1>4. \A k \in 1 .. n : \A x \in D[next[k]] : G[k][x] \in D[k]
  <2> SUFFICES ASSUME NEW k \in 1 .. n, NEW x \in D[next[k]] PROVE G[k][x] \in D[k]
    OBVIOUS
  <2>1. next[k] = After(s, k) /\ After(s, k) \in 1 .. n + 1
    BY <1>2
  <2>2. D[next[k]] = Strings(s, After(s, k)) /\ D[k] = Strings(s, k)
    <3> HIDE DEF next
    <3> QED BY <2>1
  <2>3. G[k][x] = Turn(s, q, k, x)
    <3> HIDE DEF next, D
    <3> QED BY <2>2
  <2> HIDE DEF next, G, D
  <2> QED BY <1>2, <2>2, <2>3
<1>5. Error \in D[n + 1]
  BY <1>0 DEF Strings
<1>6. PICK f : Jumps(f, n, next, Error, G) /\ \A i \in 1 .. n + 1 : f[i] \in D[i]
  <2> HIDE DEF next, G, D, n
  <2> QED BY <1>0, <1>3, <1>4, <1>5, JumpsExist
<1>7. \A k \in 1 .. n + 1 : f[k] \in Strings(s, k)
  BY <1>6
<1>8. ASSUME NEW k \in 1 .. n + 1
      PROVE  (IF k = n + 1 THEN Error ELSE G[k][f[next[k]]])
             = IF k > Len(s) \/ (k = Len(s) /\ s[k] = Backslash) THEN Error
                     ELSE IF s[k] = q THEN Token("string", <<>>, k + 1)
                     ELSE IF s[k] = Backslash THEN Behind(Escaped(s[k + 1]), f[k + 2])
                     ELSE Behind(s[k], f[k + 1])
  <2>1. CASE k = n + 1
    <3>1. k > Len(s)
      BY <1>0, <2>1
    <3> QED BY <2>1, <3>1
  <2>2. CASE k # n + 1
    <3>1. k \in 1 .. n /\ ~(k > Len(s))
      BY <1>0, <2>2
    <3>2. next[k] = After(s, k) /\ After(s, k) \in 1 .. n + 1
      BY <1>0, <1>2, <3>1
    <3>3. f[After(s, k)] \in Strings(s, After(s, k))
      BY <1>7, <3>2
    <3>4. G[k][f[next[k]]] = Turn(s, q, k, f[After(s, k)])
      <4> HIDE DEF next
      <4> QED BY <3>1, <3>2, <3>3
    <3> HIDE DEF next, G
    <3>5. CASE s[k] = Backslash /\ k < Len(s)
      <4>1. After(s, k) = k + 2
        BY <3>5 DEF After
      <4> QED BY <1>0, <2>2, <3>1, <3>4, <3>5, <4>1 DEF Turn
    <3>6. CASE ~(s[k] = Backslash /\ k < Len(s))
      <4>1. After(s, k) = k + 1
        BY <3>6 DEF After
      <4>2. s[k] = Backslash => k = Len(s)
        BY <1>0, <3>1, <3>6
      <4> QED BY <2>2, <3>1, <3>4, <4>1, <4>2 DEF Turn
    <3> QED BY <3>5, <3>6
  <2> QED BY <2>1, <2>2
<1>9. V(f)
  <2>1. f = [k \in 1 .. n + 1 |-> IF k = n + 1 THEN Error ELSE G[k][f[next[k]]]]
    BY <1>6 DEF Jumps
  <2> HIDE DEF G, next, D
  <2> QED BY <1>8, <2>1
<1>10. V(u)
  <2> HIDE DEF V
  <2> QED BY <1>9
<1> HIDE DEF u, next, G, D
<1>11. \A k \in 1 .. n + 1 : u[k] = IF k > Len(s) \/ (k = Len(s) /\ s[k] = Backslash) THEN Error
                     ELSE IF s[k] = q THEN Token("string", <<>>, k + 1)
                     ELSE IF s[k] = Backslash THEN Behind(Escaped(s[k + 1]), u[k + 2])
                     ELSE Behind(s[k], u[k + 1])
  BY <1>10
<1> HIDE DEF V
<1>12. u[n + 1] = Error
  BY <1>0, <1>11
<1>13. ASSUME NEW k \in 1 .. n PROVE u[k] = Turn(s, q, k, u[After(s, k)])
  <2>1. k \in 1 .. n + 1 /\ ~(k > Len(s))
    BY <1>0
  <2>2. CASE s[k] = Backslash /\ k < Len(s)
    <3>1. After(s, k) = k + 2 /\ k # Len(s)
      BY <2>2 DEF After
    <3> QED BY <1>11, <2>1, <2>2, <3>1 DEF Turn
  <2>3. CASE ~(s[k] = Backslash /\ k < Len(s))
    <3>1. After(s, k) = k + 1
      BY <2>3 DEF After
    <3>2. s[k] = Backslash => k = Len(s)
      BY <1>0, <2>3
    <3> QED BY <1>11, <2>1, <3>1, <3>2 DEF Turn
  <2> QED BY <2>2, <2>3
<1>14. \A k \in 1 .. n + 1 : u[k] \in Strings(s, k)
  <2> DEFINE S == {k \in 1 .. n + 1 : u[k] \in Strings(s, k)}
  <2>1. n + 1 \in S
    BY <1>0, <1>12 DEF Strings
  <2>2. ASSUME NEW k \in 1 .. n, \A j \in k + 1 .. n + 1 : j \in S PROVE k \in S
    <3>1. After(s, k) \in S /\ k \in 1 .. n + 1
      BY <1>0, <1>2, <2>2
    <3>2. Turn(s, q, k, u[After(s, k)]) \in Strings(s, k)
      BY <1>2, <3>1
    <3> QED BY <1>13, <3>1, <3>2
  <2>3. \A k \in 1 .. n + 1 : k \in S
    <3> HIDE DEF S, n
    <3> QED BY <1>0, <2>1, <2>2, DownTo
  <2> QED BY <2>3
<1>15. StringRead(u, s, q)
  BY <1>12, <1>13, <1>14 DEF StringRead
<1> QED BY <1>1, <1>15

\* A string that is no error is a token, and ends behind its first place.
LEMMA StringForm ==
  ASSUME NEW s, NEW k, NEW x \in Strings(s, k)
  PROVE  /\ x = Error \/ x = Token("string", x.text, x.end)
         /\ x # Error => x.end \in k + 1 .. Len(s) + 1
<1>1. CASE x = Error
  BY <1>1
<1>2. CASE x # Error
  <2>1. PICK t \in Seq(Chars(s)), e \in k + 1 .. Len(s) + 1 : x = Token("string", t, e)
    BY <1>2 DEF Strings
  <2>2. x.text = t /\ x.end = e
    BY <2>1, TokenIs
  <2> QED BY <2>1, <2>2
<1> QED BY <1>1, <1>2

\* Of a part, strings are read as in the text, if they end in it.
LEMMA StringInPart ==
  ASSUME NEW s, NEW p, NEW a, Part(s, p, a), NEW q, q # "newline",
         NEW r, StringRead(r, s, q), NEW x, StringRead(x, p, q)
  PROVE  \A j \in 1 .. Len(p) + 1 :
           x[j] # Error \/ a + Len(p) = Len(s) => r[a + j] = Moved(x[j], a)
<1> DEFINE n == Len(s)  m == Len(p)
           S == {j \in 1 .. m + 1 : x[j] # Error \/ a + m = n => r[a + j] = Moved(x[j], a)}
<1>0. a \in Nat /\ n \in Nat /\ m \in Nat /\ a + m <= n
  BY PartIs
<1>1. \A j \in 1 .. m : s[a + j] = p[j]
  BY PartIs
<1>2. r[n + 1] = Error /\ x[m + 1] = Error
  BY DEF StringRead
<1>3. \A k \in 1 .. n : r[k] = Turn(s, q, k, r[After(s, k)])
  BY DEF StringRead
<1>4. \A k \in 1 .. m : x[k] = Turn(p, q, k, x[After(p, k)])
  BY DEF StringRead
<1>5. \A k \in 1 .. m + 1 : x[k] = Error \/ x[k] = Token("string", x[k].text, x[k].end)
  <2> SUFFICES ASSUME NEW k \in 1 .. m + 1 PROVE x[k] = Error \/ x[k] = Token("string", x[k].text, x[k].end)
    OBVIOUS
  <2>1. x[k] \in Strings(p, k)
    BY DEF StringRead
  <2> DEFINE t == x[k]
  <2>2. t \in Strings(p, k)
    BY <2>1
  <2> HIDE DEF t
  <2>3. t = Error \/ t = Token("string", t.text, t.end)
    BY <2>2, StringForm
  <2> QED BY <2>3 DEF t
<1>6. m + 1 \in S
  <2>1. m + 1 \in 1 .. m + 1
    BY <1>0
  <2>2. a + m = n => a + (m + 1) = n + 1
    BY <1>0
  <2>3. Moved(Error, a) = Error
    BY DEF Moved
  <2> QED BY <1>2, <2>1, <2>2, <2>3
<1>7. ASSUME NEW j \in 1 .. m, \A i \in j + 1 .. m + 1 : i \in S PROVE j \in S
  <2> SUFFICES ASSUME x[j] # Error \/ a + m = n PROVE r[a + j] = Moved(x[j], a)
    <3>1. j \in 1 .. m + 1
      BY <1>0
    <3> QED BY <3>1
  <2> DEFINE k == a + j
  <2>1. k \in 1 .. n /\ (j = m => (k = n <=> a + m = n)) /\ (j # m => k # n /\ k < n /\ j < m /\ j + 1 \in 1 .. m)
    BY <1>0
  <2>2. s[k] = p[j] /\ (j # m => s[k + 1] = p[j + 1])
    <3>1. s[a + j] = p[j]
      BY <1>1
    <3>2. j # m => s[a + (j + 1)] = p[j + 1]
      BY <1>1, <2>1
    <3>3. a + (j + 1) = k + 1
      BY <1>0
    <3> QED BY <3>1, <3>2, <3>3
  <2>3. k + 1 = a + (j + 1) /\ k + 2 = a + (j + 2) /\ k + 1 = (j + 1) + a
    BY <1>0
  <2> HIDE DEF k
  <2>4. r[k] = Turn(s, q, k, r[After(s, k)]) /\ x[j] = Turn(p, q, j, x[After(p, j)])
    BY <1>3, <1>4, <2>1
  <2>5. CASE p[j] = Backslash /\ j = m
    <3>1. x[j] = Error
      BY <2>4, <2>5 DEF Turn
    <3>2. r[k] = Error
      BY <2>1, <2>2, <2>4, <2>5, <3>1 DEF Turn
    <3> QED BY <3>1, <3>2 DEF k, Moved
  <2>6. CASE ~(p[j] = Backslash /\ j = m) /\ p[j] = q
    <3>1. ~(k = n /\ s[k] = Backslash)
      BY <2>1, <2>2, <2>6
    <3>2. x[j] = Token("string", <<>>, j + 1)
      BY <2>4, <2>6 DEF Turn
    <3>3. r[k] = Token("string", <<>>, k + 1)
      BY <2>2, <2>4, <2>6, <3>1 DEF Turn
    <3> DEFINE y == Token("string", <<>>, j + 1)  e == j + 1
    <3>4. y # Error /\ y.kind = "string" /\ y.text = <<>> /\ y.end = e
      <4>1. y = Token("string", <<>>, e)
        OBVIOUS
      <4> HIDE DEF y, e
      <4> QED BY <4>1, TokenIs
    <3>5. x[j] = y
      BY <3>2
    <3> HIDE DEF y
    <3>6. Moved(y, a) = Token("string", <<>>, e + a)
      BY <3>4 DEF Moved
    <3> QED BY <2>3, <3>3, <3>5, <3>6 DEF k
  <2>7. CASE p[j] # q /\ p[j] = Backslash /\ j # m
    <3> DEFINE c == Escaped(p[j + 1])  y == x[j + 2]
    <3>1. After(p, j) = j + 2 /\ After(s, k) = k + 2
      BY <2>1, <2>2, <2>7 DEF After
    <3>2. x[j] = Behind(c, y)
      BY <2>4, <2>7, <3>1 DEF Turn
    <3>3. r[k] = Behind(c, r[k + 2])
      BY <2>1, <2>2, <2>4, <2>7, <3>1 DEF Turn
    <3>4. j + 2 \in j + 1 .. m + 1 /\ j + 2 \in 1 .. m + 1
      BY <1>0, <2>1, <2>7
    <3>5. y = Error \/ y = Token("string", y.text, y.end)
      BY <1>5, <3>4
    <3>6. y # Error \/ a + m = n => r[k + 2] = Moved(y, a)
      BY <1>7, <2>3, <3>4
    <3> HIDE DEF c, y
    <3>7. Behind(c, Moved(y, a)) = Moved(Behind(c, y), a)
      BY <3>5, MovedBehind
    <3>8. Behind(c, y) = Error <=> y = Error
      BY <3>5, BehindIs
    <3> QED BY <3>2, <3>3, <3>6, <3>7, <3>8 DEF k
  <2>8. CASE p[j] # q /\ p[j] # Backslash
    <3> DEFINE c == p[j]  y == x[j + 1]
    <3>1. After(p, j) = j + 1 /\ After(s, k) = k + 1
      BY <2>2, <2>8 DEF After
    <3>2. x[j] = Behind(c, y)
      BY <2>4, <2>8, <3>1 DEF Turn
    <3>3. r[k] = Behind(c, r[k + 1])
      BY <2>2, <2>4, <2>8, <3>1 DEF Turn
    <3>4. j + 1 \in j + 1 .. m + 1 /\ j + 1 \in 1 .. m + 1
      BY <1>0
    <3>5. y = Error \/ y = Token("string", y.text, y.end)
      BY <1>5, <3>4
    <3>6. y # Error \/ a + m = n => r[k + 1] = Moved(y, a)
      BY <1>7, <2>3, <3>4
    <3> HIDE DEF c, y
    <3>7. Behind(c, Moved(y, a)) = Moved(Behind(c, y), a)
      BY <3>5, MovedBehind
    <3>8. Behind(c, y) = Error <=> y = Error
      BY <3>5, BehindIs
    <3> QED BY <3>2, <3>3, <3>6, <3>7, <3>8 DEF k
  <2> QED BY <2>5, <2>6, <2>7, <2>8
<1>8. \A j \in 1 .. m + 1 : j \in S
  <2> HIDE DEF S, m
  <2> QED BY <1>0, <1>6, <1>7, DownTo
<1> QED BY <1>8

\* What is read at place i is an error or ends behind it.
Reading(t, i, n) == t = Error \/ (t = Token(t.kind, t.text, t.end) /\ t.end \in i + 1 .. n + 1)

\* A token that ends behind its first place is a reading.
LEMMA TokenRead ==
  ASSUME NEW kind, NEW text, NEW i, NEW n, NEW e \in i + 1 .. n + 1
  PROVE  Reading(Token(kind, text, e), i, n)
<1> DEFINE t == Token(kind, text, e)
<1>1. t.kind = kind /\ t.text = text /\ t.end = e
  BY TokenIs
<1>2. t = Token(t.kind, t.text, t.end) /\ t.end \in i + 1 .. n + 1
  BY <1>1
<1> HIDE DEF t
<1>3. Reading(t, i, n)
  BY <1>2 DEF Reading
<1> QED BY <1>3 DEF t

\* A run whose first character is in the class ends behind it.
LEMMA ClassRunEnds ==
  ASSUME NEW s, IsSeq(s), NEW i \in 1 .. Len(s), NEW class, s[i] \in class
  PROVE  While(s, i, class) \in i + 1 .. Len(s) + 1
<1> DEFINE w == While(s, i, class)  n == Len(s)
<1>0. n \in Nat /\ i \in 1 .. n + 1
  BY SeqFacts
<1>1. IsWhile(s, i, class, w)
  BY <1>0, WhileIs
<1> HIDE DEF w
<1>2. w \in i .. n + 1 /\ (w = n + 1 \/ s[w] \notin class)
  BY <1>1 DEF IsWhile
<1>3. w # i
  BY <1>0, <1>2
<1> QED BY <1>0, <1>2, <1>3 DEF w

\* What read_string returns ends behind the quote, or is the error.
LEMMA StringReading ==
  ASSUME NEW s, IsSeq(s), NEW q, NEW i \in 1 .. Len(s)
  PROVE  Reading(read_string(s, i + 1, q), i, Len(s))
<1> DEFINE n == Len(s)  k == i + 1
<1>0. n \in Nat /\ k \in 1 .. n + 1 /\ \A e \in k + 1 .. n + 1 : e \in i + 1 .. n + 1
  BY SeqFacts
<1>1. PICK r : StringRead(r, s, q) /\ \A j \in 1 .. Len(s) + 1 : read_string(s, j, q) = r[j]
  BY StringIsRead
<1> DEFINE x == r[k]
<1>2. x \in Strings(s, k)
  BY <1>0, <1>1 DEF StringRead
<1>3. read_string(s, k, q) = x
  BY <1>0, <1>1
<1> HIDE DEF x, k, n
<1>4. x = Error \/ x = Token("string", x.text, x.end)
  BY <1>2, StringForm
<1>5. x # Error => x.end \in k + 1 .. n + 1
  BY <1>2, StringForm DEF n
<1>6. x # Error => x.kind = "string"
  BY <1>4, TokenIs
<1>7. Reading(x, i, n)
  BY <1>0, <1>4, <1>5, <1>6 DEF Reading
<1> QED BY <1>3, <1>7 DEF k, n

\* Whatever Lexer reads at a place is an error or ends behind it.
LEMMA ReadTyped ==
  ASSUME NEW s, IsSeq(s), NEW i \in 1 .. Len(s)
  PROVE  Reading(ReadToken(s, i), i, Len(s))
<1> DEFINE n == Len(s)  t == ReadToken(s, i)  c == s[i]
<1>0. n \in Nat /\ i + 1 \in i + 1 .. n + 1 /\ (i < n => i + 2 \in i + 1 .. n + 1)
  BY SeqFacts
<1>1. Reading(Error, i, n)
  BY DEF Reading
<1>2. CASE c \in Blank \cup {Hash}
  <2>1. t = skip_whitespace(s, i)
    BY <1>2 DEF ReadToken
  <2> DEFINE e == IF c = Hash THEN AfterLine(s, i) ELSE i + 1
  <2>2. t = Token("skipped", <<>>, e)
    BY <2>1 DEF skip_whitespace, Skipped
  <2>3. e \in i + 1 .. n + 1
    BY <1>0, LineIs
  <2> HIDE DEF e, t, n
  <2> QED BY <2>2, <2>3, TokenRead DEF t, n
<1>3. CASE c \notin Blank \cup {Hash} /\ c \in Delimiter \cup {Colon}
  <2>1. t = Token(c, <<>>, i + 1)
    BY <1>3 DEF ReadToken
  <2> HIDE DEF t, c, n
  <2> QED BY <1>0, <2>1, TokenRead DEF t, n
<1>4. CASE /\ c \notin Blank \cup {Hash} /\ c \notin Delimiter \cup {Colon}
           /\ c = Equals /\ i < Len(s) /\ s[i + 1] = More
  <2>1. t = Token("arrow", <<>>, i + 2)
    BY <1>4 DEF ReadToken
  <2>2. i + 2 \in i + 1 .. n + 1
    BY <1>0, <1>4
  <2> DEFINE e == i + 2
  <2> HIDE DEF t, c, n, e
  <2>3. t = Token("arrow", <<>>, e) /\ e \in i + 1 .. n + 1
    BY <2>1, <2>2 DEF e
  <2> QED BY <2>3, TokenRead DEF t, n
<1> DEFINE Before4 == /\ c \notin Blank \cup {Hash} /\ c \notin Delimiter \cup {Colon}
                      /\ ~(c = Equals /\ i < Len(s) /\ s[i + 1] = More)
<1>5. CASE Before4 /\ c \in {DoubleQuote, Apostrophe}
  <2>1. t = read_string(s, i + 1, c)
    BY <1>5 DEF ReadToken
  <2> HIDE DEF t, c
  <2> QED BY <2>1, StringReading DEF t
<1>6. CASE Before4 /\ c \notin {DoubleQuote, Apostrophe} /\ c \in Digits
  <2>1. t = NumberToken(s, i, Digits \cup {Point})
    BY <1>6 DEF ReadToken
  <2> DEFINE class == Digits \cup {Point}  e == While(s, i, class)
  <2>2. e \in i + 1 .. n + 1
    <3>1. s[i] \in class
      BY <1>6
    <3> HIDE DEF class
    <3> QED BY <3>1, ClassRunEnds
  <2>3. t = Token("number", Run(s, i, class), e)
    BY <2>1 DEF NumberToken
  <2> HIDE DEF e, t, n, class
  <2> QED BY <2>2, <2>3, TokenRead DEF t, n
<1>7. CASE Before4 /\ c \notin {DoubleQuote, Apostrophe} /\ c \notin Digits /\ c \in Letters \cup {"_"}
  <2>1. t = WordToken(s, i)
    BY <1>7 DEF ReadToken
  <2> DEFINE e == While(s, i, WordChars)  w == Run(s, i, WordChars)
             kind == IF w \in Keywords THEN "keyword" ELSE "ident"
  <2>2. e \in i + 1 .. n + 1
    <3>1. s[i] \in WordChars
      BY <1>7 DEF WordChars
    <3> QED BY <3>1, ClassRunEnds
  <2>3. t = Token(kind, w, e)
    BY <2>1 DEF WordToken
  <2> HIDE DEF e, t, n, w, kind
  <2> QED BY <2>2, <2>3, TokenRead DEF t, n
<1>8. CASE Before4 /\ c \notin {DoubleQuote, Apostrophe} /\ c \notin Digits /\ c \notin Letters \cup {"_"}
  <2>1. t = Error
    BY <1>8 DEF ReadToken
  <2> HIDE DEF t, c, n
  <2> QED BY <1>1, <2>1 DEF t, n
<1> QED BY <1>2, <1>3, <1>4, <1>5, <1>6, <1>7, <1>8

\* Whatever lex reads at a place ends behind it.
LEMMA LexTyped ==
  ASSUME NEW s, IsSeq(s), NEW i \in 1 .. Len(s)
  PROVE  Reading(LexToken(s, i), i, Len(s))
<1> DEFINE n == Len(s)  t == LexToken(s, i)  c == s[i]  k == i + 1
<1>0. n \in Nat /\ k \in i + 1 .. n + 1 /\ (i < n => i + 2 \in i + 1 .. n + 1) /\ k \in 1 .. n + 1 /\ k \in Nat
  BY SeqFacts
<1>1. ASSUME NEW kind, NEW text, NEW e \in i + 1 .. n + 1, t = Token(kind, text, e) PROVE Reading(t, i, n)
  <2> HIDE DEF t, n
  <2> QED BY <1>1, TokenRead
<1>2. CASE c \in Delimiter
  <2>1. t = Token(c, <<>>, k)
    BY <1>2 DEF LexToken
  <2> HIDE DEF t, c, n, k
  <2> QED BY <1>0, <1>1, <2>1 DEF t, n
<1>3. CASE c \notin Delimiter /\ c = Equals
  <2> DEFINE e == IF i < Len(s) /\ s[i + 1] = Equals THEN i + 2 ELSE i + 1
  <2>1. t = Token("equals", <<>>, e)
    BY <1>3 DEF LexToken
  <2>2. e \in i + 1 .. n + 1
    BY <1>0
  <2> HIDE DEF t, c, n, e
  <2> QED BY <1>1, <2>1, <2>2 DEF t, n
<1>4. CASE c \notin Delimiter /\ c # Equals /\ c = Less /\ i < Len(s) /\ s[i + 1] = Equals
  <2> DEFINE e == i + 2
  <2>1. t = Token("at most", <<>>, e)
    BY <1>4 DEF LexToken
  <2>2. e \in i + 1 .. n + 1
    BY <1>0, <1>4
  <2> HIDE DEF t, c, n, e
  <2> QED BY <1>1, <2>1, <2>2 DEF t, n
<1> DEFINE Before4 == /\ c \notin Delimiter /\ c # Equals
                      /\ ~(c = Less /\ i < Len(s) /\ s[i + 1] = Equals)
<1>5. CASE Before4 /\ c = DoubleQuote
  <2> DEFINE class == ToSet(s) \ {DoubleQuote}
             close == While(s, k, class)
             e == Min({close, Len(s)}) + 1
  <2>1. t = Token("string", SubSeq(s, k, close - 1), e)
    BY <1>5 DEF LexToken, QuotedToken
  <2>2. close \in k .. n + 1
    <3> HIDE DEF class
    <3>1. IsWhile(s, k, class, close)
      <4> HIDE DEF k, close
      <4> QED BY <1>0, WhileIs DEF close
    <3> HIDE DEF close
    <3> QED BY <3>1 DEF IsWhile
  <2>3. Min({close, Len(s)}) \in {close, Len(s)} /\ Min({close, Len(s)}) <= Len(s)
    <3>1. {close, Len(s)} \in SUBSET Nat /\ {close, Len(s)} # {}
      <4> HIDE DEF close
      <4> QED BY <1>0, <2>2
    <3> DEFINE S == {close, Len(s)}
    <3>2. Min(S) \in S /\ \A j \in S : Min(S) <= j
      <4> HIDE DEF S
      <4> QED BY <3>1, MinIsLeast DEF S
    <3> QED BY <3>2
  <2> HIDE DEF close
  <2>4. e \in i + 1 .. n + 1
    BY <1>0, <2>2, <2>3
  <2> HIDE DEF t, c, n, e, class
  <2> QED BY <1>1, <2>1, <2>4 DEF t, n
<1>6. CASE Before4 /\ c # DoubleQuote /\ c \in Digits
  <2> DEFINE e == While(s, i, Digits)  w == Run(s, i, Digits)
  <2>1. t = IntegerToken(s, i)
    BY <1>6 DEF LexToken
  <2>2. e \in i + 1 .. n + 1
    BY <1>6, ClassRunEnds
  <2>3. t = Token("number", w, e) \/ t = Token("skipped", <<>>, e)
    BY <2>1 DEF IntegerToken, NumberToken, Skipped
  <2> HIDE DEF e, t, n, w
  <2> QED BY <1>1, <2>2, <2>3 DEF t, n
<1>7. CASE Before4 /\ c # DoubleQuote /\ c \notin Digits /\ c \in Letters \cup {"_"}
  <2>1. t = WordToken(s, i)
    BY <1>7 DEF LexToken
  <2> DEFINE e == While(s, i, WordChars)  w == Run(s, i, WordChars)
             kind == IF w \in Keywords THEN "keyword" ELSE "ident"
  <2>2. e \in i + 1 .. n + 1
    <3>1. s[i] \in WordChars
      BY <1>7 DEF WordChars
    <3> QED BY <3>1, ClassRunEnds
  <2>3. t = Token(kind, w, e)
    BY <2>1 DEF WordToken
  <2> HIDE DEF e, t, n, w, kind
  <2> QED BY <1>1, <2>2, <2>3 DEF t, n
<1>8. CASE Before4 /\ c # DoubleQuote /\ c \notin Digits /\ c \notin Letters \cup {"_"}
  <2>1. t = Token("skipped", <<>>, k)
    BY <1>8 DEF LexToken, Skipped
  <2> HIDE DEF t, c, n, k
  <2> QED BY <1>0, <1>1, <2>1 DEF t, n
<1> QED BY <1>2, <1>3, <1>4, <1>5, <1>6, <1>7, <1>8

\* A token whose end is moved is the token moved.
LEMMA MovedToken ==
  ASSUME NEW kind, NEW text, NEW a \in Nat, NEW e \in Nat, NEW d, d = a + e
  PROVE  Token(kind, text, d) = Moved(Token(kind, text, e), a)
<1> DEFINE t == Token(kind, text, e)
<1>1. t # Error /\ t.kind = kind /\ t.text = text /\ t.end = e
  BY TokenIs
<1> HIDE DEF t
<1>2. Moved(t, a) = Token(kind, text, e + a)
  BY <1>1 DEF Moved
<1>3. e + a = d
  OBVIOUS
<1> QED BY <1>2, <1>3 DEF t

\* A part read alone gives, at each of its places, what the text gives there;
\* only where the part ends before the text may a string still be open.
LEMMA ReadInPart ==
  ASSUME NEW s, NEW p, NEW a, Part(s, p, a), NEW i \in 1 .. Len(p),
         ReadToken(p, i) # Error \/ a + Len(p) = Len(s)
  PROVE  ReadToken(s, a + i) = Moved(ReadToken(p, i), a)
<1> DEFINE n == Len(s)  m == Len(p)  c == p[i]  k == a + i  t == ReadToken(p, i)  u == ReadToken(s, k)
<1>0. a \in Nat /\ n \in Nat /\ m \in Nat /\ a + m <= n /\ i \in Nat /\ IsSeq(s) /\ IsSeq(p)
  BY PartIs
<1>1. s[k] = c /\ k \in 1 .. n
  BY <1>0, PartIs
<1>2. k + 1 = a + (i + 1) /\ k + 2 = a + (i + 2) /\ i + 1 \in Nat /\ i + 2 \in Nat
  BY <1>0
<1>4. CASE c \in Blank \cup {Hash}
  <2> DEFINE e == IF c = Hash THEN AfterLine(p, i) ELSE i + 1
             d == IF c = Hash THEN AfterLine(s, k) ELSE k + 1
  <2>1. t = Token("skipped", <<>>, e)
    BY <1>4 DEF ReadToken, skip_whitespace, Skipped
  <2>2. u = Token("skipped", <<>>, d)
    BY <1>1, <1>4 DEF ReadToken, skip_whitespace, Skipped
  <2>3. AfterLine(s, k) = a + AfterLine(p, i)
    BY LineInPart
  <2>4. AfterLine(p, i) \in Nat
    <3>1. AfterLine(p, i) \in i + 1 .. m + 1
      BY <1>0, LineIs
    <3> QED BY <1>0, <3>1
  <2> HIDE DEF c, k, n, m, t, u
  <2>5. e \in Nat /\ d = a + e
    BY <1>2, <2>3, <2>4
  <2> HIDE DEF e, d
  <2>6. u = Moved(t, a)
    BY <1>0, <2>1, <2>2, <2>5, MovedToken
  <2> QED BY <2>6 DEF t, u, k
<1>5. CASE c \notin Blank \cup {Hash} /\ c \in Delimiter \cup {Colon}
  <2>1. t = Token(c, <<>>, i + 1) /\ u = Token(c, <<>>, k + 1)
    BY <1>1, <1>5 DEF ReadToken
  <2> DEFINE e == i + 1  d == k + 1
  <2>2. t = Token(c, <<>>, e) /\ u = Token(c, <<>>, d) /\ e \in Nat /\ d = a + e
    BY <1>2, <2>1
  <2> HIDE DEF c, k, n, m, t, u, e, d
  <2>3. u = Moved(t, a)
    BY <1>0, <2>2, MovedToken
  <2> QED BY <2>3 DEF t, u, k
<1> DEFINE Arrow(x, j) == x[j] = Equals /\ j < Len(x) /\ x[j + 1] = More
<1>6. Arrow(s, k) <=> Arrow(p, i)
  <2>1. CASE i < m
    <3>1. k < n /\ i + 1 \in 1 .. m
      BY <1>0, <2>1
    <3>2. s[k + 1] = p[i + 1]
      <4>1. s[a + (i + 1)] = p[i + 1]
        BY <3>1, PartIs
      <4> QED BY <1>2, <4>1
    <3> QED BY <1>1, <2>1, <3>1, <3>2
  <2>2. CASE ~(i < m)
    <3>1. i = m
      BY <1>0, <2>2
    <3>2. CASE a + m = n
      <4>1. k = n /\ ~(k < n)
        BY <1>0, <3>1, <3>2
      <4> QED BY <2>2, <4>1
    <3>3. CASE a + m # n
      <4>1. c = "newline"
        BY <3>1, <3>3, PartIs
      <4>2. c # Equals
        BY <4>1, NewlineIs
      <4> QED BY <1>1, <4>2
    <3> QED BY <3>2, <3>3
  <2> QED BY <2>1, <2>2
<1>7. CASE c \notin Blank \cup {Hash} /\ c \notin Delimiter \cup {Colon} /\ Arrow(p, i)
  <2>1. t = Token("arrow", <<>>, i + 2) /\ u = Token("arrow", <<>>, k + 2)
    BY <1>1, <1>6, <1>7 DEF ReadToken
  <2> DEFINE e == i + 2  d == k + 2
  <2>2. t = Token("arrow", <<>>, e) /\ u = Token("arrow", <<>>, d) /\ e \in Nat /\ d = a + e
    BY <1>2, <2>1
  <2> HIDE DEF c, k, n, m, t, u, e, d
  <2>3. u = Moved(t, a)
    BY <1>0, <2>2, MovedToken
  <2> QED BY <2>3 DEF t, u, k
<1> DEFINE Before == c \notin Blank \cup {Hash} /\ c \notin Delimiter \cup {Colon} /\ ~Arrow(p, i)
<1>8. CASE Before /\ c \in {DoubleQuote, Apostrophe}
  <2>1. t = read_string(p, i + 1, c) /\ u = read_string(s, k + 1, c)
    BY <1>1, <1>6, <1>8 DEF ReadToken
  <2>2. PICK r : StringRead(r, s, c) /\ \A j \in 1 .. Len(s) + 1 : read_string(s, j, c) = r[j]
    BY <1>0, StringIsRead
  <2>3. PICK x : StringRead(x, p, c) /\ \A j \in 1 .. Len(p) + 1 : read_string(p, j, c) = x[j]
    BY <1>0, StringIsRead
  <2>4. c # "newline"
    BY <1>8, NewlineIs
  <2> DEFINE j == i + 1  l == k + 1
  <2>5. j \in 1 .. m + 1 /\ l \in 1 .. n + 1 /\ l = a + j
    BY <1>0, <1>2, <1>1
  <2>6. t = x[j] /\ u = r[l]
    BY <2>1, <2>2, <2>3, <2>5
  <2>7. x[j] # Error \/ a + m = n
    BY <2>6
  <2> HIDE DEF c, k, t, u, j, l
  <2>8. \A y \in 1 .. Len(p) + 1 : x[y] # Error \/ a + Len(p) = Len(s) => r[a + y] = Moved(x[y], a)
    BY <2>2, <2>3, <2>4, StringInPart
  <2>9. r[a + j] = Moved(x[j], a)
    BY <2>5, <2>7, <2>8
  <2>10. u = Moved(t, a)
    BY <2>5, <2>6, <2>9
  <2> QED BY <2>10 DEF t, u, k
<1>9. CASE Before /\ c \notin {DoubleQuote, Apostrophe} /\ c \in Digits
  <2> DEFINE class == Digits \cup {Point}  e == While(p, i, class)  d == While(s, k, class)
             w == Run(p, i, class)
  <2>1. "newline" \notin class /\ p[i] \in class
    BY <1>9, NewlineIs
  <2>2. t = NumberToken(p, i, class) /\ u = NumberToken(s, k, class)
    BY <1>1, <1>6, <1>9 DEF ReadToken
  <2> HIDE DEF class
  <2>3. d = a + e /\ Run(s, k, class) = w
    BY <2>1, WhileInPart
  <2>4. e \in i + 1 .. m + 1
    BY <1>0, <2>1, ClassRunEnds
  <2>5. t = Token("number", w, e) /\ u = Token("number", w, d)
    BY <2>2, <2>3 DEF NumberToken
  <2> HIDE DEF c, k, n, t, u, e, d, w
  <2>6. e \in Nat
    BY <1>0, <2>4
  <2> HIDE DEF m
  <2>7. u = Moved(t, a)
    BY <1>0, <2>3, <2>5, <2>6, MovedToken
  <2> QED BY <2>7 DEF t, u, k
<1>10. CASE Before /\ c \notin {DoubleQuote, Apostrophe} /\ c \notin Digits /\ c \in Letters \cup {"_"}
  <2> DEFINE e == While(p, i, WordChars)  d == While(s, k, WordChars)
             w == Run(p, i, WordChars)
             kind == IF w \in Keywords THEN "keyword" ELSE "ident"
  <2>1. "newline" \notin WordChars /\ p[i] \in WordChars
    BY <1>10, NewlineIs DEF WordChars
  <2>2. t = WordToken(p, i) /\ u = WordToken(s, k)
    BY <1>1, <1>6, <1>10 DEF ReadToken
  <2>3. d = a + e /\ Run(s, k, WordChars) = w
    BY <2>1, WhileInPart
  <2>4. e \in i + 1 .. m + 1
    BY <1>0, <2>1, ClassRunEnds
  <2>5. t = Token(kind, w, e) /\ u = Token(kind, w, d)
    BY <2>2, <2>3 DEF WordToken
  <2> HIDE DEF c, k, n, t, u, e, d, w, kind
  <2>6. e \in Nat
    BY <1>0, <2>4
  <2> HIDE DEF m
  <2>7. u = Moved(t, a)
    BY <1>0, <2>3, <2>5, <2>6, MovedToken
  <2> QED BY <2>7 DEF t, u, k
<1>11. CASE Before /\ c \notin {DoubleQuote, Apostrophe} /\ c \notin Digits /\ c \notin Letters \cup {"_"}
  <2>1. t = Error /\ u = Error
    BY <1>1, <1>6, <1>11 DEF ReadToken
  <2> QED BY <2>1 DEF Moved
<1> HIDE DEF Arrow
<1> QED BY <1>4, <1>5, <1>7, <1>8, <1>9, <1>10, <1>11

\* What Lexer reads at the places of a text, and lex.
ReadAll(s) == [i \in DOMAIN s |-> ReadToken(s, i)]
LexAll(s)  == [i \in DOMAIN s |-> LexToken(s, i)]

\* A reading for each place makes what a lexer found.
LEMMA FoundIs ==
  ASSUME NEW n \in Nat, NEW R, R = [i \in 1 .. n |-> R[i]], \A i \in 1 .. n : Reading(R[i], i, n)
  PROVE  Found(R, n)
<1>1. IsSeq(R) /\ Len(R) = n
  <2> DEFINE S == {R[i] : i \in 1 .. n}
  <2>1. R \in [1 .. n -> S]
    OBVIOUS
  <2> HIDE DEF S
  <2>2. R \in Seq(S) /\ Len(R) = n
    BY <2>1
  <2> QED BY <2>2, SeqIs
<1>2. \A i \in 1 .. n : R[i] # Error => R[i].end \in i + 1 .. n + 1
  BY DEF Reading
<1> QED BY <1>1, <1>2 DEF Found

\* Both lexers find a reading at each place of every text.
LEMMA AllFound ==
  ASSUME NEW s, IsSeq(s)
  PROVE  Found(ReadAll(s), Len(s)) /\ Found(LexAll(s), Len(s))
<1> DEFINE n == Len(s)
<1>1. n \in Nat /\ DOMAIN s = 1 .. n
  BY SeqFacts
<1>2. ReadAll(s) = [i \in 1 .. n |-> ReadAll(s)[i]] /\ LexAll(s) = [i \in 1 .. n |-> LexAll(s)[i]]
  BY <1>1 DEF ReadAll, LexAll
<1>3. \A i \in 1 .. n : ReadAll(s)[i] = ReadToken(s, i) /\ LexAll(s)[i] = LexToken(s, i)
  BY <1>1 DEF ReadAll, LexAll
<1>4. \A i \in 1 .. n : Reading(ReadAll(s)[i], i, n) /\ Reading(LexAll(s)[i], i, n)
  BY <1>3, ReadTyped, LexTyped
<1> DEFINE R == ReadAll(s)  L == LexAll(s)
<1> HIDE DEF R, L, n
<1>5. Found(R, n)
  BY <1>1, <1>2, <1>4, FoundIs DEF R
<1>6. Found(L, n)
  BY <1>1, <1>2, <1>4, FoundIs DEF L
<1> QED BY <1>5, <1>6 DEF R, L, n

\* Moved by nothing, a reading is itself.
LEMMA NotMoved ==
  ASSUME NEW t, NEW i \in Nat, NEW n \in Nat, Reading(t, i, n)
  PROVE  Moved(t, 0) = t
<1>1. CASE t = Error
  BY <1>1 DEF Moved
<1>2. CASE t # Error
  <2>1. t = Token(t.kind, t.text, t.end) /\ t.end \in i + 1 .. n + 1
    BY <1>2 DEF Reading
  <2>2. t.end + 0 = t.end
    BY <2>1
  <2>3. Moved(t, 0) = Token(t.kind, t.text, t.end + 0)
    BY <1>2 DEF Moved
  <2> QED BY <2>1, <2>2, <2>3
<1> QED BY <1>1, <1>2

\* Reading a text and reading what is before and behind the end of one of its
\* lines is the same.
LEMMA LineDivides ==
  ASSUME NEW s, IsSeq(s), NEW k \in DOMAIN s, s[k] = "newline"
  PROVE  LET u == SubSeq(s, 1, k)  l == SubSeq(s, k + 1, Len(s))
         IN /\ IsSeq(u) /\ IsSeq(l) /\ Len(u) = k /\ Len(l) = Len(s) - k
            /\ Divided(ReadAll(s), ReadAll(u), ReadAll(l), k, Len(s) - k)
<1> DEFINE n == Len(s)  u == SubSeq(s, 1, k)  l == SubSeq(s, k + 1, n)  m == n - k
<1>0. n \in Nat /\ DOMAIN s = 1 .. n /\ k \in 1 .. n /\ m \in Nat /\ k + m = n /\ k \in Nat
  <2>1. n \in Nat /\ DOMAIN s = 1 .. n
    BY SeqFacts
  <2> HIDE DEF n
  <2> QED BY <2>1
<1>1. IsSeq(u) /\ Len(u) = k /\ \A j \in 1 .. k : u[j] = s[j]
  <2>1. /\ IsSeq(u) /\ Len(u) = IF 1 <= k THEN k - 1 + 1 ELSE 0
        /\ \A j \in 1 .. k - 1 + 1 : u[j] = s[1 + j - 1]
    BY <1>0, PartFacts
  <2>2. 1 <= k /\ k - 1 + 1 = k /\ \A j \in 1 .. k : 1 + j - 1 = j
    BY <1>0
  <2> HIDE DEF u
  <2> QED BY <2>1, <2>2
<1>2. IsSeq(l) /\ Len(l) = m /\ \A j \in 1 .. m : l[j] = s[k + j]
  <2> DEFINE b == k + 1
  <2>1. b \in Nat /\ b >= 1 /\ n <= n
    BY <1>0
  <2>2. /\ IsSeq(SubSeq(s, b, n)) /\ Len(SubSeq(s, b, n)) = IF b <= n THEN n - b + 1 ELSE 0
        /\ \A j \in 1 .. n - b + 1 : SubSeq(s, b, n)[j] = s[b + j - 1]
    <3> HIDE DEF b
    <3> QED BY <1>0, <2>1, PartFacts
  <2>3. n - b + 1 = m /\ (b <= n \/ m = 0) /\ \A j \in 1 .. m : b + j - 1 = k + j
    BY <1>0
  <2>4. l = SubSeq(s, b, n)
    OBVIOUS
  <2> HIDE DEF l, b, n, m
  <2> QED BY <2>2, <2>3, <2>4
<1> HIDE DEF u, l, n, m
<1>3. Part(s, u, 0)
  <2>1. \A j \in 1 .. k : 0 + j = j
    BY <1>0
  <2>2. 0 \in Nat /\ 0 + Len(u) <= Len(s) /\ Len(u) > 0 /\ u[Len(u)] = "newline"
    BY <1>0, <1>1 DEF n
  <2> QED BY <1>1, <2>1, <2>2 DEF Part
<1>4. Part(s, l, k)
  <2>1. k + Len(l) <= Len(s) /\ k + Len(l) = Len(s)
    BY <1>0, <1>2 DEF n
  <2> QED BY <1>0, <1>2, <2>1 DEF Part
<1>5. ASSUME NEW i \in 1 .. k, ReadAll(u)[i] # Error PROVE ReadAll(s)[i] = ReadAll(u)[i]
  <2>1. i \in DOMAIN u /\ i \in DOMAIN s /\ i \in 1 .. Len(u) /\ 0 + i = i
    BY <1>0, <1>1, SeqFacts
  <2>2. ReadAll(u)[i] = ReadToken(u, i) /\ ReadAll(s)[i] = ReadToken(s, i)
    BY <2>1 DEF ReadAll
  <2>3. ReadToken(s, 0 + i) = Moved(ReadToken(u, i), 0)
    BY <1>3, <1>5, <2>1, <2>2, ReadInPart
  <2>4. Reading(ReadToken(u, i), i, k)
    BY <1>1, <2>1, ReadTyped
  <2>5. Moved(ReadToken(u, i), 0) = ReadToken(u, i)
    <3> DEFINE t == ReadToken(u, i)
    <3> HIDE DEF t
    <3> QED BY <1>0, <2>1, <2>4, NotMoved DEF t
  <2> QED BY <2>1, <2>2, <2>3, <2>5
<1>6. ASSUME NEW i \in 1 .. m PROVE ReadAll(s)[k + i] = Moved(ReadAll(l)[i], k)
  <2>1. i \in DOMAIN l /\ k + i \in DOMAIN s /\ i \in 1 .. Len(l) /\ k + Len(l) = Len(s)
    BY <1>0, <1>2, SeqFacts DEF n
  <2>2. ReadAll(l)[i] = ReadToken(l, i) /\ ReadAll(s)[k + i] = ReadToken(s, k + i)
    BY <2>1 DEF ReadAll
  <2>3. ReadToken(s, k + i) = Moved(ReadToken(l, i), k)
    BY <1>4, <2>1, ReadInPart
  <2> QED BY <2>2, <2>3
<1>7. Found(ReadAll(s), k + m) /\ Found(ReadAll(u), k) /\ Found(ReadAll(l), m)
  BY <1>0, <1>1, <1>2, AllFound DEF n
<1>8. Divided(ReadAll(s), ReadAll(u), ReadAll(l), k, m)
  BY <1>5, <1>6, <1>7 DEF Divided
<1> QED BY <1>1, <1>2, <1>8 DEF u, l, m, n

\* tokenize_source returns the tokens from the first place on, or the error.
LEMMA TokenizedIs ==
  ASSUME NEW s, IsSeq(s)
  PROVE  \E f : /\ Reads(f, ReadAll(s), Len(s))
                /\ tokenize_source(s) = IF Error \in ToSet(f[1]) THEN <<Error>> ELSE f[1]
<1>1. Found(ReadAll(s), Len(s)) /\ Len(s) \in Nat
  BY AllFound, SeqFacts
<1>2. PICK f : Reads(f, ReadAll(s), Len(s)) /\ TokensOf(ReadAll(s)) = f[1]
  <2> DEFINE R == ReadAll(s)  n == Len(s)
  <2> HIDE DEF R, n
  <2> QED BY <1>1, TokensFrom DEF R, n
<1>3. tokenize_source(s) = IF Error \in ToSet(TokensOf(ReadAll(s))) THEN <<Error>> ELSE TokensOf(ReadAll(s))
  BY DEF tokenize_source, ReadAll
<1> QED BY <1>2, <1>3

\* The text of an error holds nothing but the error.
LEMMA ErrorAlone == ToSet(<<Error>>) = {Error}
<1> DEFINE x == Error
<1> HIDE DEF x
<1>1. ToSet(<<x>>) = {x}
  BY DEF ToSet
<1> QED BY <1>1 DEF x

\* A text the lexer accepts up to the end of a line.
LEMMA LinesApart ==
  ASSUME NEW s, IsSeq(s), NEW k \in DOMAIN s, s[k] = "newline",
         tokenize_source(SubSeq(s, 1, k)) # <<Error>>
  PROVE  tokenize_source(s) = IF tokenize_source(SubSeq(s, k + 1, Len(s))) = <<Error>> THEN <<Error>>
                              ELSE tokenize_source(SubSeq(s, 1, k)) \o tokenize_source(SubSeq(s, k + 1, Len(s)))
<1> DEFINE n == Len(s)  u == SubSeq(s, 1, k)  l == SubSeq(s, k + 1, n)  m == n - k
<1>0. n \in Nat /\ k \in 1 .. n /\ m \in Nat /\ k + m = n /\ k \in Nat
  <2>1. n \in Nat /\ DOMAIN s = 1 .. n
    BY SeqFacts
  <2> HIDE DEF n
  <2> QED BY <2>1
<1>1. IsSeq(u) /\ IsSeq(l) /\ Len(u) = k /\ Len(l) = m /\ Divided(ReadAll(s), ReadAll(u), ReadAll(l), k, m)
  BY LineDivides
<1>2. tokenize_source(u) # <<Error>>
  OBVIOUS
<1> HIDE DEF u, l, n, m
<1>3. PICK f : Reads(f, ReadAll(s), n) /\ tokenize_source(s) = IF Error \in ToSet(f[1]) THEN <<Error>> ELSE f[1]
  BY TokenizedIs DEF n
<1>4. PICK g : Reads(g, ReadAll(u), k) /\ tokenize_source(u) = IF Error \in ToSet(g[1]) THEN <<Error>> ELSE g[1]
  BY <1>1, TokenizedIs
<1>5. PICK h : Reads(h, ReadAll(l), m) /\ tokenize_source(l) = IF Error \in ToSet(h[1]) THEN <<Error>> ELSE h[1]
  BY <1>1, TokenizedIs
<1>6. Error \notin ToSet(g[1]) /\ tokenize_source(u) = g[1]
  BY <1>2, <1>4
<1>7. f[1] = g[1] \o h[1]
  <2> DEFINE W == ReadAll(s)  U == ReadAll(u)  L == ReadAll(l)
  <2>1. Divided(W, U, L, k, m) /\ Reads(f, W, k + m) /\ Reads(g, U, k) /\ Reads(h, L, m)
    BY <1>0, <1>1, <1>3, <1>4, <1>5
  <2> HIDE DEF W, U, L
  <2>2. k \in Nat /\ m \in Nat
    BY <1>0
  <2>3. Error \notin ToSet(g[1]) => f[1] = g[1] \o h[1]
    <3>1. AllRead(f, g, h, W, U, L, k, m)
      BY <2>1, <2>2 DEF AllRead
    <3>2. Joined(f, g, h)
      BY <3>1, UpperTokens
    <3> QED BY <3>2 DEF Joined
  <2> QED BY <1>6, <2>3
<1>8. ToSet(f[1]) = ToSet(g[1]) \cup ToSet(h[1])
  <2> DEFINE B == KindsRead(ReadAll(u)) \cup KindsRead(ReadAll(l))  x == g[1]  y == h[1]
  <2>1. x \in Seq(KindsRead(ReadAll(u))) /\ y \in Seq(KindsRead(ReadAll(l)))
    BY <1>0, <1>4, <1>5 DEF Reads
  <2>2. x \in Seq(B) /\ y \in Seq(B)
    BY <2>1, SeqMonotonic
  <2> HIDE DEF B, x, y
  <2>3. ToSet(x \o y) = ToSet(x) \cup ToSet(y)
    BY <2>2, ErrorStays
  <2> QED BY <1>7, <2>3 DEF x, y
<1>9. tokenize_source(l) = <<Error>> <=> Error \in ToSet(h[1])
  BY <1>5, ErrorAlone
<1>10. tokenize_source(s) = IF tokenize_source(l) = <<Error>> THEN <<Error>> ELSE tokenize_source(u) \o tokenize_source(l)
  <2> HIDE DEF tokenize_source
  <2> QED BY <1>3, <1>5, <1>6, <1>7, <1>8, <1>9
<1> QED BY <1>10 DEF u, l, n

\* What both lexers know has nothing of what only one of them knows, and each
\* character is of one kind.
LEMMA CommonApart ==
  /\ {Hash, Colon, Equals, Less, More, Point, Backslash, Apostrophe} \cap Common = {}
  /\ Blank \cap (Delimiter \cup Digits \cup Letters \cup {"_", DoubleQuote}) = {}
  /\ Delimiter \cap (Digits \cup Letters \cup {"_", DoubleQuote}) = {}
  /\ Digits \cap (Letters \cup {"_", DoubleQuote}) = {} /\ DoubleQuote \notin Letters \cup {"_"}
BY DEF Hash, Colon, Equals, Less, More, Point, Backslash, Apostrophe, Common, Blank, Delimiter, Digits,
       Letters, DoubleQuote

\* A part of a text is its first character and the rest of the part.
LEMMA PartHead ==
  ASSUME NEW s, IsSeq(s), NEW i \in 1 .. Len(s), NEW e \in i .. Len(s)
  PROVE  SubSeq(s, i, e) = <<s[i]>> \o SubSeq(s, i + 1, e)
<1> DEFINE n == Len(s)  b == i + 1  x == SubSeq(s, i, e)  y == SubSeq(s, b, e)  h == <<s[i]>>
           z == h \o y
<1>0. n \in Nat /\ i \in Nat /\ i >= 1 /\ b \in Nat /\ b >= 1 /\ e \in Nat /\ e <= n /\ i <= e
  BY SeqFacts
<1>1. /\ IsSeq(x) /\ Len(x) = IF i <= e THEN e - i + 1 ELSE 0
      /\ \A j \in 1 .. e - i + 1 : x[j] = s[i + j - 1]
  BY <1>0, PartFacts
<1>2. /\ IsSeq(y) /\ Len(y) = IF b <= e THEN e - b + 1 ELSE 0
      /\ \A j \in 1 .. e - b + 1 : y[j] = s[b + j - 1]
  <2> HIDE DEF b
  <2> QED BY <1>0, PartFacts
<1>3. IsSeq(h) /\ Len(h) = 1 /\ h[1] = s[i]
  <2> DEFINE c == s[i]
  <2>1. <<c>> \in Seq({c}) /\ Len(<<c>>) = 1 /\ <<c>>[1] = c
    <3> HIDE DEF c
    <3> QED OBVIOUS
  <2> QED BY <2>1, SeqIs
<1>4. IsSeq(z) /\ Len(z) = Len(h) + Len(y) /\ \A j \in 1 .. Len(h) + Len(y) : z[j] = IF j <= Len(h) THEN h[j] ELSE y[j - Len(h)]
  <2> HIDE DEF h, y
  <2> QED BY <1>2, <1>3, JoinFacts
<1>5. Len(x) = e - i + 1 /\ Len(y) = e - i
  BY <1>0, <1>1, <1>2
<1> HIDE DEF x, y, h, z, n
<1>6. Len(x) = Len(z)
  BY <1>0, <1>3, <1>4, <1>5
<1>7. ASSUME NEW j \in 1 .. Len(x) PROVE x[j] = z[j]
  <2>1. j \in 1 .. e - i + 1 /\ x[j] = s[i + j - 1]
    BY <1>0, <1>1, <1>5
  <2>2. CASE j = 1
    <3>1. i + j - 1 = i /\ j \in 1 .. Len(h) + Len(y) /\ j <= Len(h)
      BY <1>0, <1>3, <1>5, <2>2
    <3>2. z[j] = h[1] /\ x[j] = s[i]
      BY <1>4, <2>1, <2>2, <3>1
    <3> QED BY <1>3, <3>2
  <2>3. CASE j # 1
    <3>1. j - 1 \in 1 .. e - b + 1 /\ b + (j - 1) - 1 = i + j - 1
      BY <1>0, <2>1, <2>3
    <3>2. j \in 1 .. Len(h) + Len(y) /\ ~(j <= Len(h)) /\ j - Len(h) = j - 1
      BY <1>0, <1>3, <1>5, <2>1, <2>3
    <3>3. z[j] = y[j - 1]
      BY <1>4, <3>2
    <3>4. y[j - 1] = s[b + (j - 1) - 1]
      BY <1>2, <3>1
    <3> QED BY <2>1, <3>1, <3>3, <3>4
  <2> QED BY <2>2, <2>3
<1>8. x = z
  BY <1>1, <1>4, <1>6, <1>7, SameSeq
<1> QED BY <1>8 DEF x, y, z, h, b

\* A string that is closed is what is up to the end of a run of the class.
ClosedByRun(r, s, class) ==
  \A i \in 1 .. Len(s) + 1 : r[i] # Error =>
    \E w \in i .. Len(s) : IsWhile(s, i, class, w) /\ r[i] = Token("string", SubSeq(s, i, w - 1), w + 1)

\* Where no backslash is, a string that is closed is what is up to its next quote.
LEMMA StringToQuote ==
  ASSUME NEW s, IsSeq(s), Backslash \notin ToSet(s), NEW r, StringRead(r, s, DoubleQuote),
         NEW class, class = ToSet(s) \ {DoubleQuote}
  PROVE  ClosedByRun(r, s, class)
<1> DEFINE n == Len(s)
           Good(i, w) == w \in i .. n /\ IsWhile(s, i, class, w) /\ r[i] = Token("string", SubSeq(s, i, w - 1), w + 1)
           S == {i \in 1 .. n + 1 : r[i] # Error => \E w : Good(i, w)}
<1>0. n \in Nat /\ DOMAIN s = 1 .. n /\ \A i \in 1 .. n : s[i] \in ToSet(s)
  BY SeqFacts DEF ToSet
<1>1. n + 1 \in S
  <2>1. r[n + 1] = Error
    BY DEF StringRead
  <2> QED BY <1>0, <2>1
<1>2. ASSUME NEW i \in 1 .. n, \A j \in i + 1 .. n + 1 : j \in S PROVE i \in S
  <2> SUFFICES ASSUME r[i] # Error PROVE \E w : Good(i, w)
    <3>1. i \in 1 .. n + 1
      BY <1>0
    <3> QED BY <3>1
  <2>1. r[i] = Turn(s, DoubleQuote, i, r[After(s, i)]) /\ s[i] # Backslash
    BY <1>0 DEF StringRead
  <2>2. i \in Nat /\ i + 1 \in i + 1 .. n + 1 /\ i + 1 \in 1 .. n + 1
    BY <1>0
  <2>3. CASE s[i] = DoubleQuote
    <3>1. r[i] = Token("string", <<>>, i + 1)
      BY <2>1, <2>3 DEF Turn
    <3>2. SubSeq(s, i, i - 1) = <<>>
      <4> DEFINE x == SubSeq(s, i, i - 1)
      <4>1. i \in Nat /\ i >= 1 /\ i - 1 \in Nat /\ i - 1 <= n /\ ~(i <= i - 1)
        BY <1>0
      <4>2. IsSeq(x) /\ Len(x) = 0
        BY <4>1, PartFacts
      <4> HIDE DEF x
      <4>3. x = <<>>
        BY <4>2, SeqFacts
      <4> QED BY <4>3 DEF x
    <3>3. IsWhile(s, i, class, i)
      <4>1. i \in i .. Len(s) + 1 /\ s[i] \notin class /\ \A j \in i .. i - 1 : FALSE
        BY <1>0, <2>2, <2>3
      <4> QED BY <4>1 DEF IsWhile
    <3>4. i \in i .. n
      BY <1>0, <2>2
    <3>5. Good(i, i)
      <4> HIDE DEF n
      <4> QED BY <3>1, <3>2, <3>3, <3>4
    <3> QED BY <3>5
  <2>4. CASE s[i] # DoubleQuote
    <3> DEFINE c == s[i]  b == i + 1  y == r[b]
    <3>1. After(s, i) = b
      BY <2>1 DEF After
    <3>2. r[i] = Behind(c, y)
      BY <2>1, <2>4, <3>1 DEF Turn
    <3>3. y = Error \/ y = Token("string", y.text, y.end)
      <4>1. y \in Strings(s, b)
        BY <1>0, <2>2 DEF StringRead
      <4> HIDE DEF y, b
      <4> QED BY <4>1, StringForm
    <3>4. y # Error
      <4> HIDE DEF y, c
      <4> QED BY <3>2, <3>3, BehindIs
    <3>5. \E w : Good(b, w)
      <4>1. b \in S
        BY <1>2, <2>2
      <4> HIDE DEF Good
      <4> QED BY <3>4, <4>1
    <3>6. PICK w : Good(b, w)
      BY <3>5
    <3>7. w \in b .. n /\ IsWhile(s, b, class, w) /\ y = Token("string", SubSeq(s, b, w - 1), w + 1)
      BY <3>6
    <3>8. y.text = SubSeq(s, b, w - 1) /\ y.end = w + 1
      <4> DEFINE x == SubSeq(s, b, w - 1)  e == w + 1
      <4>1. y = Token("string", x, e)
        BY <3>7
      <4> HIDE DEF y, x, e
      <4>2. y.text = x /\ y.end = e
        BY <4>1, TokenIs
      <4> QED BY <4>2 DEF x, e
    <3>9. r[i] = Token("string", <<c>> \o SubSeq(s, b, w - 1), w + 1)
      <4>1. Behind(c, y) = Token("string", <<c>> \o y.text, y.end)
        <5> HIDE DEF y, c
        <5> QED BY <3>3, <3>4, BehindIs
      <4> QED BY <3>2, <3>8, <4>1
    <3>10. w \in i .. n /\ w - 1 \in i .. Len(s) /\ w \in Nat
      BY <1>0, <2>2, <3>7
    <3>11. SubSeq(s, i, w - 1) = <<c>> \o SubSeq(s, b, w - 1)
      <4> DEFINE e == w - 1
      <4>1. e \in i .. Len(s)
        BY <3>10
      <4> HIDE DEF e
      <4>2. SubSeq(s, i, e) = <<s[i]>> \o SubSeq(s, i + 1, e)
        BY <4>1, PartHead
      <4> QED BY <4>2 DEF e
    <3>12. IsWhile(s, i, class, w)
      <4>1. w \in b .. n + 1 /\ (w = n + 1 \/ s[w] \notin class) /\ \A j \in b .. w - 1 : s[j] \in class
        BY <3>7 DEF IsWhile
      <4>2. s[i] \in class
        BY <1>0, <2>4
      <4>3. w \in i .. n + 1 /\ \A j \in i .. w - 1 : j = i \/ j \in b .. w - 1
        BY <1>0, <2>2, <3>10
      <4>4. \A j \in i .. w - 1 : s[j] \in class
        BY <4>1, <4>2, <4>3
      <4> QED BY <4>1, <4>3, <4>4 DEF IsWhile
    <3>13. Good(i, w)
      <4> HIDE DEF n, b, c
      <4> QED BY <3>9, <3>10, <3>11, <3>12
    <3> QED BY <3>13
  <2> QED BY <2>3, <2>4
<1>3. \A i \in 1 .. n + 1 : i \in S
  <2> HIDE DEF S, n
  <2> QED BY <1>0, <1>1, <1>2, DownTo
<1>4. \A i \in 1 .. n + 1 : r[i] # Error => \E w : Good(i, w)
  BY <1>3
<1> QED BY <1>4 DEF ClosedByRun

\* Where no backslash is, both lexers read a closed string the same.
LEMMA QuotedIs ==
  ASSUME NEW s, IsSeq(s), Backslash \notin ToSet(s), NEW i \in 1 .. Len(s) + 1,
         read_string(s, i, DoubleQuote) # Error
  PROVE  QuotedToken(s, i) = read_string(s, i, DoubleQuote)
<1> DEFINE class == ToSet(s) \ {DoubleQuote}  n == Len(s)  close == While(s, i, class)
<1>0. n \in Nat
  BY SeqFacts
<1>1. PICK r : StringRead(r, s, DoubleQuote) /\ \A j \in 1 .. Len(s) + 1 : read_string(s, j, DoubleQuote) = r[j]
  BY StringIsRead
<1>2. r[i] # Error /\ read_string(s, i, DoubleQuote) = r[i]
  BY <1>1
<1>3. PICK w \in i .. Len(s) : IsWhile(s, i, class, w) /\ r[i] = Token("string", SubSeq(s, i, w - 1), w + 1)
  <2> DEFINE D == class
  <2>1. D = ToSet(s) \ {DoubleQuote}
    OBVIOUS
  <2> HIDE DEF D
  <2>2. ClosedByRun(r, s, D)
    BY <1>1, <2>1, StringToQuote
  <2>3. \E w \in i .. Len(s) : IsWhile(s, i, D, w) /\ r[i] = Token("string", SubSeq(s, i, w - 1), w + 1)
    BY <1>2, <2>2 DEF ClosedByRun
  <2> QED BY <2>3 DEF D
<1>4. close = w
  <2> HIDE DEF class
  <2> QED BY <1>3, WhileIs
<1>5. w \in Nat /\ w <= n
  BY <1>0, <1>3
<1>6. Min({w, n}) = w
  <2> DEFINE S == {w, n}
  <2>1. S \in SUBSET Nat /\ S # {} /\ \A j \in S : w <= j
    BY <1>0, <1>5
  <2>2. w \in S
    OBVIOUS
  <2>3. Min(S) \in S /\ \A j \in S : Min(S) <= j
    <3> HIDE DEF S
    <3> QED BY <2>1, MinIsLeast
  <2>4. Min(S) \in Nat /\ Min(S) <= w /\ w <= Min(S)
    BY <2>1, <2>2, <2>3
  <2> HIDE DEF S
  <2>5. Min(S) = w
    BY <1>5, <2>4
  <2> QED BY <2>5 DEF S
<1>7. QuotedToken(s, i) = Token("string", SubSeq(s, i, close - 1), Min({close, n}) + 1)
  BY DEF QuotedToken
<1> HIDE DEF close, n
<1> QED BY <1>2, <1>3, <1>4, <1>6, <1>7

\* A run of digits and points, where no point is, is one of digits.
LEMMA WholeNumber ==
  ASSUME NEW s, IsSeq(s), Point \notin ToSet(s), NEW i \in 1 .. Len(s)
  PROVE  NumberToken(s, i, Digits \cup {Point}) = NumberToken(s, i, Digits)
<1> DEFINE n == Len(s)  A == Digits \cup {Point}  B == Digits  w == While(s, i, A)
<1>0. n \in Nat /\ DOMAIN s = 1 .. n /\ i \in Nat /\ i \in 1 .. Len(s) + 1 /\ \A j \in 1 .. n : s[j] # Point
  BY SeqFacts DEF ToSet
<1>1. IsWhile(s, i, A, w)
  <2> HIDE DEF A
  <2> QED BY <1>0, WhileIs
<1>2. w \in i .. n + 1 /\ (w = n + 1 \/ s[w] \notin A) /\ \A j \in i .. w - 1 : s[j] \in A
  <2> HIDE DEF w, A
  <2> QED BY <1>1 DEF IsWhile
<1> HIDE DEF w
<1>3. \A j \in i .. w - 1 : j \in 1 .. n
  BY <1>0, <1>2
<1>4. \A j \in i .. w - 1 : s[j] \in B
  BY <1>0, <1>2, <1>3
<1>5. IsWhile(s, i, B, w)
  BY <1>2, <1>4 DEF IsWhile
<1> HIDE DEF A, B
<1>6. While(s, i, B) = w
  BY <1>0, <1>5, WhileIs
<1>7. While(s, i, A) = While(s, i, B)
  BY <1>6 DEF w
<1>8. Run(s, i, A) = Run(s, i, B)
  BY <1>7 DEF Run
<1>9. NumberToken(s, i, A) = NumberToken(s, i, B)
  BY <1>7, <1>8 DEF NumberToken
<1> QED BY <1>9 DEF A, B

\* In what both lexers know, lex reads what Lexer reads without an error.
LEMMA BothRead ==
  ASSUME NEW s, IsSeq(s), ToSet(s) \subseteq Common, NEW i \in 1 .. Len(s), ReadToken(s, i) # Error,
         FitsInt64(ReadToken(s, i))
  PROVE  LexToken(s, i) = ReadToken(s, i)
<1> DEFINE c == s[i]
<1>1. c \in Common /\ Point \notin ToSet(s) /\ Backslash \notin ToSet(s)
  <2>1. c \in ToSet(s)
    BY SeqFacts DEF ToSet
  <2> QED BY <2>1, CommonApart
<1>2. c \notin {Hash, Colon, Equals, Less, More, Apostrophe}
  BY <1>1, CommonApart
<1>3. CASE c \in Blank
  <2>1. ReadToken(s, i) = Skipped(i + 1)
    BY <1>2, <1>3 DEF ReadToken, skip_whitespace
  <2>2. c \notin Delimiter /\ c \notin Digits /\ c \notin Letters \cup {"_"} /\ c # DoubleQuote
    BY <1>3, CommonApart
  <2>3. LexToken(s, i) = Skipped(i + 1)
    BY <1>2, <2>2 DEF LexToken
  <2> QED BY <2>1, <2>3
<1>4. CASE c \in Delimiter
  <2>1. c \notin Blank \cup {Hash}
    BY <1>2, <1>4, CommonApart
  <2>2. ReadToken(s, i) = Token(c, <<>>, i + 1)
    BY <1>4, <2>1 DEF ReadToken
  <2>3. LexToken(s, i) = Token(c, <<>>, i + 1)
    BY <1>4 DEF LexToken
  <2> QED BY <2>2, <2>3
<1> DEFINE Before == c \notin Blank \cup {Hash} /\ c \notin Delimiter \cup {Colon} /\ c # Equals /\ c # Less
<1>5. CASE c = DoubleQuote
  <2>1. Before
    BY <1>2, <1>5, CommonApart
  <2>2. ReadToken(s, i) = read_string(s, i + 1, DoubleQuote)
    BY <1>5, <2>1 DEF ReadToken
  <2>3. LexToken(s, i) = QuotedToken(s, i + 1)
    BY <1>5, <2>1 DEF LexToken
  <2> DEFINE k == i + 1
  <2>4. k \in 1 .. Len(s) + 1
    BY SeqFacts
  <2> HIDE DEF k
  <2>5. read_string(s, k, DoubleQuote) # Error => QuotedToken(s, k) = read_string(s, k, DoubleQuote)
    BY <1>1, <2>4, QuotedIs
  <2> QED BY <2>2, <2>3, <2>5 DEF k
<1>6. CASE c \in Digits
  <2>1. Before /\ c \notin {DoubleQuote, Apostrophe}
    BY <1>2, <1>6, CommonApart
  <2> DEFINE x == NumberToken(s, i, Digits)  w == Run(s, i, Digits)
  <2>2. ReadToken(s, i) = NumberToken(s, i, Digits \cup {Point})
    BY <1>6, <2>1 DEF ReadToken
  <2>3. LexToken(s, i) = IntegerToken(s, i)
    BY <1>6, <2>1 DEF LexToken
  <2>4. ReadToken(s, i) = x
    BY <1>1, <2>2, WholeNumber
  <2>5. x.kind = "number" /\ x.text = w
    <3> DEFINE e == While(s, i, Digits)
    <3>1. x = Token("number", w, e)
      BY DEF NumberToken
    <3> HIDE DEF x, w, e
    <3> QED BY <3>1, TokenIs
  <2>6. w \in Int64Numbers
    <3> HIDE DEF x, w
    <3> QED BY <2>4, <2>5 DEF FitsInt64
  <2> QED BY <2>3, <2>4, <2>6 DEF IntegerToken
<1>7. CASE c \in Letters \cup {"_"}
  <2>1. Before /\ c \notin {DoubleQuote, Apostrophe} /\ c \notin Digits
    BY <1>2, <1>7, CommonApart
  <2>2. ReadToken(s, i) = WordToken(s, i)
    BY <1>7, <2>1 DEF ReadToken
  <2>3. LexToken(s, i) = WordToken(s, i)
    BY <1>7, <2>1 DEF LexToken
  <2> QED BY <2>2, <2>3
<1> QED BY <1>1, <1>3, <1>4, <1>5, <1>6, <1>7 DEF Common

\* Of the tokens of a lexer that reads what another reads, where that is no
\* error and no number too large, are the same as the other's.
LEMMA SameTokens ==
  ASSUME NEW N \in Nat, NEW R, Found(R, N), NEW L, Found(L, N),
         \A i \in 1 .. N : R[i] # Error /\ FitsInt64(R[i]) => L[i] = R[i],
         NEW f, Reads(f, R, N), NEW g, Reads(g, L, N)
  PROVE  (Error \notin ToSet(f[1]) /\ \A t \in ToSet(f[1]) : FitsInt64(t)) => g[1] = f[1]
<1> DEFINE Fine(x) == Error \notin ToSet(x) /\ \A t \in ToSet(x) : FitsInt64(t)
           S == {i \in 1 .. N + 1 : Fine(f[i]) => g[i] = f[i]}  B == KindsRead(R)
<1>1. N + 1 \in S
  BY DEF Reads
<1>2. ASSUME NEW i \in 1 .. N, \A j \in i + 1 .. N + 1 : j \in S PROVE i \in S
  <2> SUFFICES ASSUME Fine(f[i]) PROVE g[i] = f[i]
    <3>1. i \in 1 .. N + 1
      OBVIOUS
    <3> QED BY <3>1
  <2>1. f[i] = IF R[i] = Error THEN <<Error>> ELSE Kept(R[i]) \o f[R[i].end]
    BY DEF Reads
  <2>2. g[i] = IF L[i] = Error THEN <<Error>> ELSE Kept(L[i]) \o g[L[i].end]
    BY DEF Reads
  <2>3. R[i] # Error
    <3> SUFFICES ASSUME R[i] = Error PROVE FALSE
      OBVIOUS
    <3>1. f[i] = <<Error>>
      BY <2>1
    <3> QED BY <3>1, ErrorAlone
  <2> DEFINE e == R[i].end  c == Kept(R[i])  t == R[i]
  <2>4. f[i] = c \o f[e]
    BY <2>1, <2>3
  <2>5. e \in i + 1 .. N + 1
    BY <2>3 DEF Found
  <2>6. c \in Seq(B)
    BY KeptTyped
  <2> HIDE DEF e, B
  <2>7. f[e] \in Seq(B) /\ e \in S
    <3>1. e \in 1 .. N + 1
      BY <2>5
    <3> QED BY <1>2, <2>5, <3>1 DEF Reads, B
  <2>8. ToSet(c \o f[e]) = ToSet(c) \cup ToSet(f[e])
    <3> HIDE DEF c
    <3> QED BY <2>6, <2>7, ErrorStays
  <2>9. Fine(c) /\ Fine(f[e])
    <3> HIDE DEF c
    <3> QED BY <2>4, <2>8
  <2>10. FitsInt64(t)
    <3> SUFFICES ASSUME t.kind = "number" PROVE t.text \in Int64Numbers
      BY DEF FitsInt64
    <3> DEFINE x == Token(t.kind, t.text, 0)
    <3>1. c = <<x>>
      BY DEF Kept
    <3>2. x.kind = t.kind /\ x.text = t.text
      <4> DEFINE k == t.kind  w == t.text  z == 0
      <4>1. x = Token(k, w, z)
        OBVIOUS
      <4> HIDE DEF x, k, w, z
      <4>2. x.kind = k /\ x.text = w
        BY <4>1, TokenIs
      <4> QED BY <4>2 DEF k, w
    <3> HIDE DEF x
    <3>3. x \in ToSet(<<x>>)
      BY DEF ToSet
    <3>4. FitsInt64(x)
      <4> HIDE DEF c, t
      <4> QED BY <2>9, <3>1, <3>3
    <3> QED BY <3>2, <3>4 DEF FitsInt64
  <2>11. L[i] = R[i]
    BY <2>3, <2>10
  <2>12. g[i] = c \o g[e]
    BY <2>2, <2>3, <2>11 DEF e
  <2>13. g[e] = f[e]
    <3> HIDE DEF c, Fine
    <3> QED BY <2>7, <2>9
  <2> QED BY <2>4, <2>12, <2>13
<1>3. \A i \in 1 .. N + 1 : i \in S
  <2> HIDE DEF S
  <2> QED BY <1>1, <1>2, DownTo
<1>4. 1 \in 1 .. N + 1
  OBVIOUS
<1> QED BY <1>3, <1>4

\* A text of what both lexers know, which Lexer accepts, reads the same to both.
LEMMA CommonTexts ==
  ASSUME NEW s, IsSeq(s), ToSet(s) \subseteq Common, tokenize_source(s) # <<Error>>,
         \A t \in ToSet(tokenize_source(s)) : FitsInt64(t)
  PROVE  lex(s) = tokenize_source(s)
<1> DEFINE n == Len(s)  R == ReadAll(s)  L == LexAll(s)
<1>1. n \in Nat /\ DOMAIN s = 1 .. n /\ Found(R, n) /\ Found(L, n)
  BY SeqFacts, AllFound
<1>2. PICK f : Reads(f, R, n) /\ tokenize_source(s) = IF Error \in ToSet(f[1]) THEN <<Error>> ELSE f[1]
  BY TokenizedIs
<1>3. /\ Error \notin ToSet(f[1]) /\ tokenize_source(s) = f[1]
      /\ \A t \in ToSet(f[1]) : FitsInt64(t)
  BY <1>2
<1>4. lex(s) = TokensOf(L)
  BY DEF lex, LexAll
<1>5. PICK g : Reads(g, L, n) /\ TokensOf(L) = g[1]
  <2> HIDE DEF L, n
  <2> QED BY <1>1, TokensFrom
<1>6. \A i \in 1 .. n : R[i] # Error /\ FitsInt64(R[i]) => L[i] = R[i]
  <2> SUFFICES ASSUME NEW i \in 1 .. n, R[i] # Error, FitsInt64(R[i]) PROVE L[i] = R[i]
    OBVIOUS
  <2>1. R[i] = ReadToken(s, i) /\ L[i] = LexToken(s, i)
    BY <1>1 DEF ReadAll, LexAll
  <2> QED BY <2>1, BothRead
<1> HIDE DEF n, R, L
<1>7. g[1] = f[1]
  BY <1>1, <1>2, <1>3, <1>5, <1>6, SameTokens
<1> QED BY <1>3, <1>4, <1>5, <1>7

\* The property holds of every sequence of characters.
LEMMA LinesAlone ==
  ASSUME IsSeq(typed)
  PROVE  LinesReadAlone
<1>1. ASSUME NEW k \in DOMAIN typed, typed[k] = "newline", tokenize_source(SubSeq(typed, 1, k)) # <<Error>>
      PROVE  tokenize_source(typed)
               = IF tokenize_source(SubSeq(typed, k + 1, Len(typed))) = <<Error>> THEN <<Error>>
                 ELSE tokenize_source(SubSeq(typed, 1, k)) \o tokenize_source(SubSeq(typed, k + 1, Len(typed)))
  BY <1>1, LinesApart
<1>2. ASSUME ToSet(typed) \subseteq Common, tokenize_source(typed) # <<Error>>,
             \A t \in ToSet(tokenize_source(typed)) : FitsInt64(t)
      PROVE  lex(typed) = tokenize_source(typed)
  BY <1>2, CommonTexts
<1> QED BY <1>1, <1>2, Zenon DEF LinesReadAlone

\* A text the Lexer of hyperkitty-constraints accepts up to the end of a line
\* reads as the tokens so far and then those of the rest read alone, and lex of
\* hyperkitty-parser reads the same tokens of every accepted text that uses what
\* both know: for every alphabet, every keyword and every length.
THEOREM LinesAlwaysReadAlone == LexSpec => []LinesReadAlone
<1> DEFINE Inv == typed \in Seq(Typed)
<1>1. LexInit => Inv
  BY DEF LexInit
<1>2. Inv /\ [LexNext]_lexVars => Inv'
  <2> SUFFICES ASSUME Inv, [LexNext]_lexVars PROVE Inv'
    OBVIOUS
  <2>1. CASE LexNext
    <3>1. PICK c \in Typed : typed' = Append(typed, c)
      BY <2>1 DEF LexNext, Type
    <3> QED BY <3>1
  <2>2. CASE UNCHANGED lexVars
    BY <2>2 DEF lexVars
  <2> QED BY <2>1, <2>2
<1>3. Inv => LinesReadAlone
  <2> SUFFICES ASSUME Inv PROVE LinesReadAlone
    OBVIOUS
  <2>1. IsSeq(typed)
    BY SeqIs
  <2> QED BY <2>1, LinesAlone
<1> HIDE DEF Inv
<1> QED BY <1>1, <1>2, <1>3, PTL DEF LexSpec
=============================================================================
