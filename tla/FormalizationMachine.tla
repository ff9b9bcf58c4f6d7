------------------------ MODULE FormalizationMachine ------------------------
(***************************************************************************)
(* The formalization machine of hyperkitty-constraints                     *)
(* (xslt_processor.rs): it registers invariants, emits an artifact per     *)
(* prover, records what the provers say of them, and checks that the       *)
(* artifacts of one invariant correspond.  Its operations are public and   *)
(* may be called in any order: the schedule of twelve phases is a list     *)
(* that nothing enforces.                                                  *)
(***************************************************************************)
EXTENDS ConstraintProgram, SequencesExt

CONSTANTS Ids,           \* ids of invariants
          Multiplicity,  \* agda_iteration_multiplicity
          MaxRecords     \* bound on what the machine holds, of all kinds together
ASSUME MachineBounds == Multiplicity \in Nat /\ MaxRecords \in Nat

VARIABLES registry,    \* polarity of every registered invariant
          artifacts,   \* per prover, what was emitted, in order
          obligations, \* correspondences, in order
          iterations   \* Agda derivation obligations, in order
fmVars == <<registry, artifacts, obligations, iterations>>

Provers  == {"HOL", "Lean4", "Agda"}
Polarity == {"Positive", "Negative", "Neutral"}
ProverStatus == {"GeneratedUnverified", "CompiledUnverified", "Verified", "Failed"}

FMInit == /\ registry = <<>> /\ artifacts = [p \in Provers |-> <<>>]
          /\ obligations = <<>> /\ iterations = <<>>

Held == Cardinality(DOMAIN registry) + Len(artifacts["HOL"]) + Len(artifacts["Lean4"])
        + Len(artifacts["Agda"]) + Len(obligations) + Len(iterations)
Room(n) == Held + n <= MaxRecords

\* The registry is a map: the second invariant of an id replaces the first.
add_invariant(held, id, polarity) ==
  [i \in DOMAIN held \cup {id} |-> IF i = id THEN polarity ELSE held[i]]
register_invariant(id, polarity) ==
  /\ id \notin DOMAIN registry => Room(1)
  /\ registry' = add_invariant(registry, id, polarity)
  /\ UNCHANGED <<artifacts, obligations, iterations>>

\* emit_hol_artifact and its two siblings: the artifact id is made from the
\* prover and the id of the invariant, and emitting again adds another one.
emit_artifact(p, id) ==
  /\ Room(1)
  /\ artifacts' = [artifacts EXCEPT ![p] =
                     Append(@, [id |-> id, status |-> "GeneratedUnverified"])]
  /\ UNCHANGED <<registry, obligations, iterations>>

\* record_hol_status and its siblings: the first artifact of that id is
\* updated; with none the call is an error and changes nothing.
record_status(p, id, status) ==
  \E k \in DOMAIN artifacts[p] :
    /\ artifacts[p][k].id = id
    /\ \A j \in 1 .. k - 1 : artifacts[p][j].id # id
    /\ artifacts' = [artifacts EXCEPT ![p][k].status = status]
    /\ UNCHANGED <<registry, obligations, iterations>>

create_correspondence(from, to, id) ==
  /\ Room(1)
  /\ obligations' = Append(obligations, [id |-> id, from |-> from, to |-> to,
                                         status |-> "Unresolved"])
  /\ UNCHANGED <<registry, artifacts, iterations>>
create_hol_lean_correspondence(id)  == create_correspondence("HOL", "Lean4", id)
create_lean_agda_correspondence(id) == create_correspondence("Lean4", "Agda", id)

Emitted(p, id) == \E k \in DOMAIN artifacts[p] : artifacts[p][k].id = id

\* The source is looked up among the HOL artifacts, whoever it belongs to,
\* the target among the Lean and the Agda ones.
ArtifactsExist(o) == /\ o.from = "HOL" /\ Emitted("HOL", o.id)
                     /\ o.to \in {"Lean4", "Agda"} /\ Emitted(o.to, o.id)
Matching(id)      == {k \in DOMAIN obligations : obligations[k].id = id}
\* Mutant: any obligation will do.
X_AllValid(id)    == \E k \in Matching(id) : ArtifactsExist(obligations[k])
AllValid(id)      == Matching(id) # {} /\ \A k \in Matching(id) : ArtifactsExist(obligations[k])
\* With a single obligation that does not hold nothing is marked at all.
validate_correspondence(id) ==
  /\ AllValid(id)
  /\ obligations' = [k \in DOMAIN obligations |->
                       IF k \in Matching(id) THEN [obligations[k] EXCEPT !.status = "Validated"]
                       ELSE obligations[k]]
  /\ UNCHANGED <<registry, artifacts, iterations>>

\* One obligation for each index from 1, from the invariant derived last.
AgdaIterations(id) ==
  [n \in 1 .. Multiplicity |-> [id |-> id, index |-> n, source |-> n - 1, derived |-> n]]
generate_agda_iterations(id) ==
  /\ Room(Multiplicity)
  /\ iterations' = iterations \o AgdaIterations(id)
  /\ UNCHANGED <<registry, artifacts, obligations>>

\* One constraint per registered invariant, in the order of a hash map: a
\* failing check rejects when the invariant is negative and else is accepted.
\* Mutant: only the positive ones are accepted.
X_to_constraint_program ==
  [k \in 1 .. Cardinality(DOMAIN registry) |->
     LET id == SetToSeq(DOMAIN registry)[k] IN
     Constraint(id, id, <<Predicate(id)>>,
                IF registry[id] = "Positive" THEN "Accept" ELSE "Reject")]
to_constraint_program ==
  [k \in 1 .. Cardinality(DOMAIN registry) |->
     LET id == SetToSeq(DOMAIN registry)[k] IN
     Constraint(id, id, <<Predicate(id)>>,
                IF registry[id] = "Negative" THEN "Reject" ELSE "Accept")]

FMNext == \E id \in Ids :
  \/ \E q \in Polarity : register_invariant(id, q)
  \/ \E p \in Provers : emit_artifact(p, id)
  \/ \E p \in Provers, s \in ProverStatus : record_status(p, id, s)
  \/ create_hol_lean_correspondence(id) \/ create_lean_agda_correspondence(id)
  \/ validate_correspondence(id) \/ generate_agda_iterations(id)

FMSpec == FMInit /\ [][FMNext]_fmVars

Verified(p) == {k \in DOMAIN artifacts[p] : artifacts[p][k].status = "Verified"}
Validated   == {k \in DOMAIN obligations : obligations[k].status = "Validated"}
summary == [total_invariants |-> Cardinality(DOMAIN registry),
            artifacts |-> [p \in Provers |-> Len(artifacts[p])],
            verified |-> [p \in Provers |-> Cardinality(Verified(p))],
            correspondence_obligations |-> Len(obligations), agda_iterations |-> Len(iterations),
            correspondences_validated |-> Cardinality(Validated)]

(***************************************************************************)
(* Properties                                                              *)
(***************************************************************************)

\* What validate_correspondence marks was checked together with everything
\* the invariant owed at the time: whatever is marked has its artifacts, and
\* so has every obligation of the same invariant that was created before it.
ValidatedIsAPrefix ==
  \A k \in Validated :
    \A j \in Matching(obligations[k].id) :
      j <= k => j \in Validated /\ ArtifactsExist(obligations[j])

\* However often an invariant is emitted again, a prover counts as many
\* verified artifacts as invariants at most, each the oldest of its name: a
\* re-emitted artifact can never be recorded (first match in record_*_status).
OldestIsRecorded ==
  \A p \in Provers : \A j, k \in DOMAIN artifacts[p] :
    j < k /\ artifacts[p][j].id = artifacts[p][k].id =>
      artifacts[p][k].status = "GeneratedUnverified"

\* Both marks, "Validated" and the provers', rest on what was there first.
MarksGoToTheOldest == ValidatedIsAPrefix /\ OldestIsRecorded

\* The program made of the registry rejects exactly when the check of some
\* negative invariant fails, in whatever order the map is walked and however
\* often invariants were registered again with another polarity; and it has a
\* constraint for each of the invariants the summary counts, of which no prover
\* can have verified more than there are ids.
ProgramRejectsNegatives ==
  /\ Len(to_constraint_program) = summary.total_invariants
  /\ \A p \in Provers : summary.verified[p] <= Cardinality({artifacts[p][k].id : k \in DOMAIN artifacts[p]})
  /\ \A T \in SUBSET Ids :
       evaluate(to_constraint_program, [i \in T |-> TRUE])
         <=> \A id \in DOMAIN registry : registry[id] = "Negative" => id \in T

\* What phase 12 of the schedule promises: an invariant whose artifacts all
\* exist has its Lean-to-Agda correspondence checked like the HOL-to-Lean one.
\* The code does not keep this: see the README.
EmittedIsValid ==
  \A id \in Ids : Matching(id) # {} /\ (\A p \in Provers : Emitted(p, id)) => AllValid(id)
=============================================================================
