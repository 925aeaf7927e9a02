---------------------------- MODULE EvidenceLanes ----------------------------
(* The validation lanes of formal/tools: validation.mjs runs a target's steps,   *)
(* conformance.mjs fingerprints what a replay is about to read, the native       *)
(* suites replay (external), and the adapters turn their reports into a          *)
(* completion that must still describe the tree.  Processes share the files of   *)
(* .formal-traces, and a developer may edit the tree at any moment.              *)
EXTENDS Naturals, Sequences

CONSTANTS LaneOrder,    \* the replayed ports, in the order make formal runs them
          Processes,    \* concurrent make invocations
          Targets,      \* targets they may run
          Cases,        \* the conformance inventory
          NoFile,       \* an absent file
          MaxRuns,      \* bound on make invocations
          MaxTreeEdits  \* bound on edits of the tree and on generations

LanePorts == {LaneOrder[k] : k \in DOMAIN LaneOrder}

\* A port's lane, the generation and their aggregate have names of their own.
ASSUME LanesAssumption ==
    /\ LaneOrder \in Seq(STRING \ {"formal", "generate"})
    /\ Targets \subseteq LanePorts \cup {"formal", "generate"}

VARIABLES laneTree,     \* [spec, impl, corpus]: versions of what is fingerprinted
          whole,        \* FALSE while a generation has emptied the corpus
          context, native, completion,   \* the files of each port
          process,      \* [targets, steps, replay] of each invocation
          clock, runs,
          accepted      \* completions a lane has ended with
lanesVars == <<laneTree, whole, context, native, completion, process, clock, runs,
               accepted>>

Group == {"spec", "impl", "corpus"}
Idle == [targets |-> <<>>, steps |-> <<>>, replay |-> NoFile]

LanesInit ==
    /\ laneTree = [g \in Group |-> 0] /\ whole = TRUE
    /\ context = [l \in LanePorts |-> NoFile]
    /\ native = [l \in LanePorts |-> NoFile]
    /\ completion = [l \in LanePorts |-> NoFile]
    /\ process = [p \in Processes |-> Idle]
    /\ clock = 1 /\ runs = 0 /\ accepted = {}

-----------------------------------------------------------------------------
(* Targets and steps *)

\* formal aggregates the generation and every port's lane.
expandTargets(target) ==
    IF target = "formal" THEN <<"generate">> \o LaneOrder ELSE <<target>>

validationPlan(target) ==
    IF target = "generate"
    THEN <<"invalidate", "generate", "generated">>
    ELSE <<"invalidate", "prepare", "replay", "check", "adapt", "complete">>

\* An invocation with these targets before it, at the first step of the first.
Before(targets) ==
    IF targets = <<>> THEN Idle
    ELSE [targets |-> targets, steps |-> validationPlan(Head(targets)),
          replay |-> NoFile]

\* runTarget: prerequisites, then the steps of every expanded target.
runTarget(p, target) ==
    /\ process[p] = Idle /\ runs < MaxRuns
    /\ runs' = runs + 1
    /\ process' = [process EXCEPT ![p] = Before(expandTargets(target))]
    /\ UNCHANGED <<laneTree, whole, context, native, completion, clock, accepted>>

\* executeSteps: the process's next step, its target, and what is left when it
\* succeeds; a failed step ends the invocation.
AtStep(p, step) == process[p].steps # <<>> /\ Head(process[p].steps) = step
Of(p) == Head(process[p].targets)
Left(p) ==
    IF Tail(process[p].steps) = <<>> THEN Before(Tail(process[p].targets))
    ELSE [process[p] EXCEPT !.steps = Tail(@), !.replay = NoFile]
Rest(p) == [process EXCEPT ![p] = Left(p)]
Fails(p) == [process EXCEPT ![p] = Idle]

\* A step with `remove`: the prior completions of its languages.
removeCompletions(p) ==
    /\ AtStep(p, "invalidate")
    /\ completion' = [l \in LanePorts |->
           IF Of(p) \in {"generate", l} THEN NoFile ELSE completion[l]]
    /\ process' = Rest(p)
    /\ UNCHANGED <<laneTree, whole, context, native, clock, runs, accepted>>

\* run-models generate empties each corpus directory before its job refills it.
generate(p) ==
    /\ AtStep(p, "generate")
    /\ whole' = FALSE /\ process' = Rest(p)
    /\ UNCHANGED <<laneTree, context, native, completion, clock, runs, accepted>>

generated(p) ==
    /\ AtStep(p, "generated") /\ laneTree["corpus"] < MaxTreeEdits
    /\ \/ /\ laneTree' = [laneTree EXCEPT !["corpus"] = @ + 1]
          /\ whole' = TRUE /\ process' = Rest(p)
       \/ process' = Fails(p) /\ UNCHANGED <<laneTree, whole>>
    /\ UNCHANGED <<context, native, completion, clock, runs, accepted>>

-----------------------------------------------------------------------------
(* Contexts *)

\* prepareContext hashes the specification, the implementation and the corpus,
\* whose directories must hold exactly the inventory's histories.
prepare(p) ==
    /\ AtStep(p, "prepare")
    /\ IF whole
       THEN /\ context' = [context EXCEPT ![Of(p)] =
                   [tree |-> laneTree, createdAt |-> clock, runId |-> clock]]
            /\ clock' = clock + 1
            /\ process' = Rest(p)
       ELSE process' = Fails(p) /\ UNCHANGED <<context, clock>>
    /\ UNCHANGED <<laneTree, whole, native, completion, runs, accepted>>

\* validateContext with `current`: every fingerprint is recomputed.
validateContext(c) == c # NoFile /\ whole /\ c.tree = laneTree

\* A check that forgets when the replay started.
checkCompletion_AnyTime(report, c) ==
    /\ validateContext(c)
    /\ report.contextSha256 = c
    /\ report.results = Cases

\* The report names this context, started after it was prepared, and holds one
\* passed result for each case of the inventory.
checkCompletion(report, c) ==
    /\ validateContext(c)
    /\ report.contextSha256 = c
    /\ report.startedAt >= c.createdAt
    /\ report.finishedAt >= report.startedAt
    /\ report.results = Cases

-----------------------------------------------------------------------------
(* Replay and its report *)

\* The native suite reads the tree from its start to its end.
replay(p) ==
    /\ AtStep(p, "replay") /\ process[p].replay = NoFile
    /\ process' = [process EXCEPT ![p].replay =
                      [startedAt |-> clock, saw |-> {laneTree}]]
    /\ clock' = clock + 1
    /\ UNCHANGED <<laneTree, whole, context, native, completion, runs, accepted>>

\* It ends with a report of the cases that passed, or crashes and fails the step.
replayed(p, passed) ==
    /\ AtStep(p, "replay") /\ process[p].replay # NoFile
    /\ native' = [native EXCEPT ![Of(p)] =
           [startedAt |-> process[p].replay.startedAt, finishedAt |-> clock,
            saw |-> process[p].replay.saw \cup {laneTree}, passed |-> passed]]
    /\ process' = IF passed = Cases THEN Rest(p) ELSE Fails(p)
    /\ clock' = clock + 1
    /\ UNCHANGED <<laneTree, whole, context, completion, runs, accepted>>

\* The port's report gate; TypeScript's is part of its adapter.
check(p) ==
    /\ AtStep(p, "check")
    /\ process' = IF native[Of(p)] # NoFile /\ native[Of(p)].passed = Cases
                  THEN Rest(p) ELSE Fails(p)
    /\ UNCHANGED <<laneTree, whole, context, native, completion, clock, runs, accepted>>

\* adaptReport: validates the context, parses the report, checks the completion
\* it is about to write.  The output file is opened, and so emptied, first.
adapt(p) ==
    /\ AtStep(p, "adapt")
    /\ LET l == Of(p)
           n == native[l]
           report == [contextSha256 |-> context[l], startedAt |-> n.startedAt,
                      finishedAt |-> n.finishedAt, results |-> n.passed,
                      saw |-> n.saw]
       IN  IF n # NoFile /\ n.passed = Cases /\ checkCompletion(report, context[l])
           THEN /\ completion' = [completion EXCEPT ![l] = report]
                /\ process' = Rest(p)
           ELSE /\ completion' = [completion EXCEPT ![l] = NoFile]
                /\ process' = Fails(p)
    /\ UNCHANGED <<laneTree, whole, context, native, clock, runs, accepted>>

\* The lane's last step reads both files again.
completes(p) ==
    /\ AtStep(p, "complete")
    /\ LET l == Of(p)
           r == completion[l]
       IN  IF r # NoFile /\ checkCompletion(r, context[l])
           THEN /\ accepted' = accepted \cup
                       {[saw |-> r.saw, now |-> laneTree, cases |-> r.results]}
                /\ process' = Rest(p)
           ELSE process' = Fails(p) /\ UNCHANGED accepted
    /\ UNCHANGED <<laneTree, whole, context, native, completion, clock, runs>>

\* A developer edits the specification or an implementation.
EditTree(g) ==
    /\ laneTree[g] < MaxTreeEdits
    /\ laneTree' = [laneTree EXCEPT ![g] = @ + 1]
    /\ UNCHANGED <<whole, context, native, completion, process, clock, runs,
                   accepted>>

LanesNext ==
    \/ \E p \in Processes :
          \/ \E t \in Targets : runTarget(p, t)
          \/ removeCompletions(p) \/ generate(p) \/ generated(p) \/ prepare(p)
          \/ replay(p) \/ \E passed \in SUBSET Cases : replayed(p, passed)
          \/ check(p) \/ adapt(p) \/ completes(p)
    \/ \E g \in {"spec", "impl"} : EditTree(g)

LanesSpec == LanesInit /\ [][LanesNext]_lanesVars

-----------------------------------------------------------------------------
(* Properties *)

\* A lane that completes vouches for the tree as it is at that moment: the
\* replay read only that specification, implementation and corpus, from its
\* first assertion to its last, and passed every case, whatever another lane or
\* a developer did meanwhile (conformance.mjs: "edits after a native assertion
\* cannot escape the completion check").
CompletionIsCurrent ==
    \A a \in accepted : a.saw = {a.now} /\ a.cases = Cases
=============================================================================
