--------------------------- MODULE ModelProperties ---------------------------
(* The property campaign of formal/tools/check-model-properties.mjs: each        *)
(* challenge injects a fault into a Quint source and must see its invariant      *)
(* violated, its reproducer fail exactly at the declared checkpoint and, for a   *)
(* fault in a library, every importing profile detect or tolerate it as listed.  *)
(* Challenges run side by side and share measurements of identical texts.        *)
EXTENDS Naturals, Sequences, TLC

CONSTANTS Challenges,   \* the catalog
          Reproduced,   \* those with a reproducer
          FaultOf,      \* the text a challenge's fault makes of its source
          Reaches,      \* profiles that import that source; {} if it is no library
          Proven,       \* profiles whose evidence the reproducer already gave
          Profiles,     \* the scheduled profiles, a sequence
          Lists,        \* declarations a challenge may carry
          Runs,         \* the runs of a profile
          Null

VARIABLES only,         \* the challenges named on the command line, or Null
          lists,        \* the profiles each challenge lists and excludes
          entry,        \* the report's entry of each challenge
          at,           \* where its measurement stands
          partitionCache, \* measurements by key; "pending" while one runs
          complete,
          shown,        \* history: the evidence the runs of a challenge gave
          truth         \* history: what each text really does
campaignVars == <<only, lists, entry, at, partitionCache, complete, shown, truth>>

Entry == [baseline |-> "pending", mutant |-> "pending", reproducer |-> "pending",
          partition |-> [p \in {} |-> Null], error |-> FALSE]
At(stage) == [stage |-> stage, k |-> 1, tested |-> Null, owns |-> FALSE]

\* A filtered run is a local aid; an unknown id never starts.
selectChallenges == IF only = Null THEN Challenges ELSE only

\* measureModelProperties: entries hold catalog order from the start.
Init ==
    /\ only \in {Null} \cup SUBSET Challenges
    /\ lists \in [Challenges -> Lists]
    /\ entry = [c \in selectChallenges |-> Entry]
    /\ at = [c \in selectChallenges |-> At("baseline")]
    /\ partitionCache = [key \in {} |-> Null] /\ truth = [key \in {} |-> Null]
    /\ complete = FALSE /\ shown = [c \in Challenges |-> {}]

-----------------------------------------------------------------------------
(* Results of the evaluator (external: Quint) *)

Results == [errors : BOOLEAN, trace : {0, 1}, status : {"ok", "violation"},
            exit : {0, 1}]
\* testOutcome: how the output reports one named run.
testOutcome == {"absent", "passed", "expect", "false", "other", "undiagnosed"}
Probe == {"absent", "passed", "expect", "other"}
Tests == [run : Probe, before : Probe, through : Probe, exit : {0, 1, 2}]
Suites == [of : [Runs -> testOutcome], exit : {0, 1}]

validatePropertyResult(r, expectation) ==
    /\ ~r.errors /\ r.trace > 0
    /\ IF expectation = "baseline" THEN r.exit = 0 /\ r.status = "ok"
                                   ELSE r.exit = 1 /\ r.status = "violation"

\* The fault must pass the chain before the checkpoint and fail the expectation
\* at it; any other failure is no detection.
validateReproducerResult(t, expectation) ==
    /\ "absent" \notin {t.run, t.before, t.through}
    /\ IF expectation = "baseline"
       THEN t.exit = 0 /\ {t.run, t.before, t.through} = {"passed"}
       ELSE t.exit = 1 /\ t.run # "passed" /\ t.before = "passed" /\ t.through = "expect"

\* Every scheduled run must end; a run that failed otherwise is kept apart.
validateProfileTests(t) ==
    LET failed == {r \in Runs : t.of[r] \in {"expect", "false"}}
        inconclusive == {r \in Runs : t.of[r] = "other"} IN
    IF \/ \E r \in Runs : t.of[r] \in {"absent", "undiagnosed"}
       \/ t.exit # (IF failed \cup inconclusive = {} THEN 0 ELSE 1)
    THEN "throws"
    ELSE IF failed # {} THEN "failed"
    ELSE IF inconclusive # {} THEN "inconclusive" ELSE "passed"

-----------------------------------------------------------------------------
(* One challenge *)

Reproducer(label) ==
    IF label = "baseline" THEN "baselineReproducer" ELSE "mutantReproducer"
Goes(c, stage) == at' = [at EXCEPT ![c] = At(stage)]
Throws(c) == /\ entry' = [entry EXCEPT ![c].error = TRUE] /\ Goes(c, "failed")

\* challengePartitionPlan: only for a reproduced library fault; every profile that
\* imports it is listed or excluded, and no other is listed.
challengePartitionPlan(c) ==
    IF c \notin Reproduced \/ Reaches[c] = {} THEN <<>>
    ELSE [k \in DOMAIN Profiles |->
             IF Profiles[k] \in lists[c].listed THEN "listed"
             ELSE IF Profiles[k] \in Reaches[c] THEN "excluded" ELSE "structural"]
Planned(c) ==
    c \in Reproduced /\ Reaches[c] # {} =>
       /\ lists[c].listed \subseteq Reaches[c]
       /\ Reaches[c] \subseteq lists[c].listed \cup lists[c].excluded

\* The challenge's own invariant, on the clean copy and on the faulty one.
measure(c, label, r) ==
    /\ at[c].stage = label
    /\ IF validatePropertyResult(r, label)
       THEN /\ entry' = [entry EXCEPT ![c][label] =
                            IF label = "baseline" THEN "passed" ELSE "detected"]
            /\ shown' = [shown EXCEPT ![c] = @ \cup
                            {<<label, r.status, r.trace > 0 /\ ~r.errors>>}]
            /\ Goes(c, IF c \in Reproduced THEN Reproducer(label)
                       ELSE IF label = "baseline" THEN "mutant" ELSE "done")
       ELSE Throws(c) /\ UNCHANGED shown
    /\ UNCHANGED <<only, lists, partitionCache, complete, truth>>

\* The named run and the two probes cut from it at the checkpoint.
measureReproducer(c, label, t) ==
    /\ at[c].stage = Reproducer(label)
    /\ IF validateReproducerResult(t, label) /\ (label = "mutant" => Planned(c))
       THEN /\ entry' = [entry EXCEPT ![c].reproducer = label]
            /\ shown' = [shown EXCEPT ![c] = @ \cup {<<label, t.before, t.through>>}]
            /\ Goes(c, IF label = "baseline" THEN "mutant"
                       ELSE IF challengePartitionPlan(c) = <<>> THEN "done"
                       ELSE "partition")
       ELSE Throws(c) /\ UNCHANGED shown
    /\ UNCHANGED <<only, lists, partitionCache, complete, truth>>

-----------------------------------------------------------------------------
(* The partition of a library fault *)

Profile(c) == Profiles[at[c].k]
Mode(c) == challengePartitionPlan(c)[at[c].k]

Records(c, state) ==
    /\ entry' = [entry EXCEPT ![c].partition = (Profile(c) :> state) @@ @]
    /\ at' = [at EXCEPT ![c] = [At(IF at[c].k < Len(Profiles) THEN "partition"
                                   ELSE "done")
                                EXCEPT !.k = at[c].k + 1]]

\* A key that names the label and not the text.
closure_Label(c, p, label) == label

\* The text of a profile's import closure in the challenge's workspace.
closure(c, p, label) ==
    IF label = "mutant" /\ p \in Reaches[c] THEN FaultOf[c] ELSE "clean"

Label(stage) == IF stage \in {"testsClean", "invariantsClean"} THEN "baseline" ELSE "mutant"
Kind(stage) == IF stage \in {"testsClean", "testsFault"} THEN "tests" ELSE "invariants"
Measuring == {"testsClean", "testsFault", "invariantsClean", "invariantsFault"}
Key(c) == <<Profile(c), closure(c, Profile(c), Label(at[c].stage)), Kind(at[c].stage)>>

\* The profile's turn: a structural or already proven one needs no measurement.
checkChallengePartition(c) ==
    /\ at[c].stage = "partition"
    /\ \/ Mode(c) = "structural" /\ Records(c, "structural")
       \/ /\ Mode(c) = "listed" /\ Profile(c) \in Proven[c]
          /\ Records(c, "detects")
       \/ /\ Mode(c) # "structural"
          /\ ~(Mode(c) = "listed" /\ Profile(c) \in Proven[c])
          /\ at' = [at EXCEPT ![c].stage = "testsClean"] /\ UNCHANGED entry
    /\ UNCHANGED <<only, lists, partitionCache, complete, shown, truth>>

\* profileMeasurement: the first to ask runs the evaluator in its own workspace,
\* others await the same promise.
profileMeasurement(c) ==
    /\ at[c].stage \in Measuring /\ Key(c) \notin DOMAIN partitionCache
    /\ partitionCache' = (Key(c) :> "pending") @@ partitionCache
    /\ at' = [at EXCEPT ![c].owns = TRUE]
    /\ UNCHANGED <<only, lists, entry, complete, shown, truth>>

\* The evaluator ends; under the pinned seed a text has one result.
Evaluated(c, status) ==
    LET text == IF Label(at[c].stage) = "mutant" /\ Profile(c) \in Reaches[c]
                THEN FaultOf[c] ELSE "clean"
        key == <<Profile(c), text, Kind(at[c].stage)>> IN
    /\ at[c].owns
    /\ key \in DOMAIN truth => truth[key] = status
    /\ truth' = (key :> status) @@ truth
    /\ partitionCache' = [partitionCache EXCEPT ![Key(c)] = status]
    /\ at' = [at EXCEPT ![c].owns = FALSE]
    /\ UNCHANGED <<only, lists, entry, complete, shown>>

executeTests(c, t) ==
    Kind(at[c].stage) = "tests" /\ Evaluated(c, validateProfileTests(t))
executeInvariants(c, r) ==
    /\ Kind(at[c].stage) = "invariants"
    /\ Evaluated(c, IF r.status = "violation" /\ validatePropertyResult(r, "mutant")
                    THEN "failed"
                    ELSE IF validatePropertyResult(r, "baseline") THEN "passed"
                    ELSE "throws")

\* The measurement's promise settles and the partition goes on.  A complete
\* campaign takes an exclusion's scheduled invariants on trust.
resume(c) ==
    LET status == partitionCache[Key(c)]
        stage == at[c].stage
        To(s) == at' = [at EXCEPT ![c].stage = s,
                            ![c].tested = IF stage = "testsFault" THEN status ELSE @]
                 /\ UNCHANGED entry IN
    /\ stage \in Measuring /\ Key(c) \in DOMAIN partitionCache /\ status # "pending"
    /\ IF status = "throws" THEN Throws(c)
       ELSE IF Label(stage) = "baseline" THEN
          IF status = "passed"
          THEN To(IF stage = "testsClean" THEN "testsFault" ELSE "invariantsFault")
          ELSE Throws(c)
       ELSE IF stage = "testsFault" /\ status = "failed" THEN
          IF Mode(c) = "excluded" THEN Throws(c) ELSE Records(c, "detects")
       ELSE IF stage = "testsFault" /\ (Mode(c) = "listed" \/ only # Null) THEN
          To("invariantsClean")
       ELSE IF stage = "testsFault" THEN
          IF status = "passed" THEN Records(c, "holds") ELSE Throws(c)
       ELSE IF Mode(c) = "listed" THEN
          IF status = "failed" THEN Records(c, "detects") ELSE Throws(c)
       ELSE IF status = "passed" /\ at[c].tested = "passed"
       THEN Records(c, "holds") ELSE Throws(c)
    /\ UNCHANGED <<only, lists, partitionCache, complete, shown, truth>>

-----------------------------------------------------------------------------

Ended(c) == at[c].stage \in {"done", "failed"}

\* A failed challenge never stops the others; one failure fails the campaign, and
\* a filtered campaign never completes.
runChallengeMeasurements ==
    /\ ~complete /\ only = Null
    /\ \A c \in DOMAIN at : at[c].stage = "done"
    /\ complete' = TRUE
    /\ UNCHANGED <<only, lists, entry, at, partitionCache, shown, truth>>

Next ==
    \/ \E c \in DOMAIN at :
          \/ \E label \in {"baseline", "mutant"} :
                \/ \E r \in Results : measure(c, label, r)
                \/ \E t \in Tests : measureReproducer(c, label, t)
          \/ checkChallengePartition(c) \/ profileMeasurement(c) \/ resume(c)
          \/ \E t \in Suites : executeTests(c, t)
          \/ \E r \in Results : executeInvariants(c, r)
    \/ runChallengeMeasurements

-----------------------------------------------------------------------------

\* A complete campaign is evidence for its whole catalog: no challenge failed,
\* each saw the clean model hold and its own fault violate the invariant and, if
\* reproduced, break the expectation at the checkpoint and not before; and of a
\* library fault every importing profile detects it on its own text, against a
\* clean baseline, or is excluded and passes its runs, although challenges share
\* measurements.
CampaignIsEvidence ==
    complete =>
       \A c \in Challenges :
          /\ ~entry[c].error
          /\ {<<"baseline", "ok", TRUE>>, <<"mutant", "violation", TRUE>>} \subseteq shown[c]
          /\ c \in Reproduced => {<<"baseline", "passed", "passed">>,
                                  <<"mutant", "passed", "expect">>} \subseteq shown[c]
          /\ c \in Reproduced /\ Reaches[c] # {} =>
             \A k \in DOMAIN Profiles :
                LET p == Profiles[k]
                    Did(text, kind, status) == /\ <<p, text, kind>> \in DOMAIN truth
                                               /\ truth[<<p, text, kind>>] = status
                IN  CASE entry[c].partition[p] = "structural" -> p \notin Reaches[c]
                      [] entry[c].partition[p] = "detects" ->
                           /\ p \in lists[c].listed
                           /\ \/ p \in Proven[c]
                              \/ \E kind \in {"tests", "invariants"} :
                                    /\ Did("clean", kind, "passed")
                                    /\ Did(FaultOf[c], kind, "failed")
                      [] OTHER -> /\ p \in lists[c].excluded
                                  /\ Did(FaultOf[c], "tests", "passed")
=============================================================================
