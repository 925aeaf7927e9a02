----------------------------- MODULE Exploration -----------------------------
(* formal/tools/explore.mjs: one random seed run through a snapshot of the        *)
(* checkout.  Its models are generated, its witnesses evaluated, each port        *)
(* replays its histories, and a report keeps the verdict and the bytes it is      *)
(* about, from which the run can be repeated.                                     *)
EXTENDS Naturals, Sequences

CONSTANTS Ports,       \* the native steps in plan order
          Seeds, Own,  \* seeds; the one explored
          Profiles,    \* witness profiles of the snapshot
          MaxSourceEdits, MaxReplays, Null

\* The plan names each port once; Null is no version of a source and no status.
ASSUME ExplorationAssumption ==
    /\ Ports \in Seq(STRING)
    /\ \A j, k \in DOMAIN Ports : Ports[j] = Ports[k] => j = k
    /\ Null \notin Nat /\ Null \notin {"native-failure", "witness-check-failure"}

VARIABLES phase, report, workspace, origin, seedContext, edits, replays,
          ran,         \* what each port's command did (history)
          judged       \* the workspace's bytes when the verdict was given (history)
explorationVars == <<phase, report, workspace, origin, seedContext, edits, replays, ran,
                     judged>>

NewReport == [status |-> "running", sources |-> Null, native |-> <<>>,
              witnesses |-> Null, linked |-> FALSE, finished |-> FALSE]
NoPorts == [p \in {} |-> Null]

ExplorationInit ==
    /\ phase = "snapshot" /\ report = NewReport /\ workspace = Null
    /\ origin = Null /\ seedContext = NoPorts /\ edits = 0 /\ replays = 0
    /\ ran = NoPorts /\ judged = Null

\* The catch block: whatever threw, the run is no longer running.
Catch(r) == [r EXCEPT !.status = IF @ = "running" THEN "infrastructure-failure" ELSE @]
Throw == /\ report' = Catch(report) /\ phase' = "finally"
         /\ UNCHANGED <<workspace, origin, seedContext, edits, replays, ran, judged>>

verifyHashes(expected) == workspace = expected

\* The tracked files of the checkout, or of the workspace a saved report names.
\* A symbolic link, a file deleted while copying, bytes that differ from the saved
\* ones: the run ends.
snapshotSources ==
    /\ phase = "snapshot"
    /\ \/ /\ phase' = "link"
          /\ workspace' = edits
          /\ report' = [report EXCEPT !.sources = edits]
          /\ origin # Null => origin = edits
          /\ UNCHANGED <<origin, seedContext, edits, replays, ran, judged>>
       \/ Throw

\* A replay needs the dependency manifests of the saved sources.
linkDependencies ==
    /\ phase = "link"
    /\ \/ /\ phase' = "generate"
          /\ report' = [report EXCEPT !.linked = TRUE]
          /\ UNCHANGED <<workspace, origin, seedContext, edits, replays, ran, judged>>
       \/ Throw

\* The plan's model jobs, under the explored seed.
explorationPlan ==
    /\ phase = "generate"
    /\ \/ /\ phase' = "witnesses"
          /\ UNCHANGED <<report, workspace, origin, seedContext, edits, replays, ran, judged>>
       \/ Throw

\* The evaluator's step is tolerated: it may end badly, with or without a report.
tolerated(w) ==
    /\ phase = "witnesses"
    /\ phase' = "native"
    /\ report' = [report EXCEPT !.witnesses = w]
    /\ UNCHANGED <<workspace, origin, seedContext, edits, replays, ran, judged>>

Port == Ports[Len(report.native) + 1]

\* prepareContext over the snapshot's own inventory.
prepareExplorationContext ==
    /\ phase = "native" /\ Len(report.native) < Len(Ports)
    /\ Port \notin DOMAIN seedContext
    /\ seedContext' = [p \in DOMAIN seedContext \cup {Port} |->
                      IF p = Port THEN [bytes |-> workspace] ELSE seedContext[p]]
    /\ UNCHANGED <<phase, report, workspace, origin, edits, replays, ran, judged>>

\* What a native report says.  An unclassified failure is no counterexample.
nativeExplorationResult(c) ==
    IF "other" \in c.failed THEN "infrastructure-failure"
    ELSE IF "case" \in c.failed THEN "native-failure"
    ELSE IF "witness" \in c.failed THEN "witness-check-failure" ELSE "passed"

\* One port's command.  Its old report is removed first; the command may leave
\* none or an unfinished one (complete = FALSE), change its context, or exit
\* against what its report says.
runExplorationSteps(c) ==
    LET status == nativeExplorationResult(c)
        kept == [report EXCEPT !.native = Append(@, [port |-> Port, status |-> status])] IN
    /\ phase = "native" /\ Len(report.native) < Len(Ports) /\ Port \in DOMAIN seedContext
    /\ ran' = [p \in DOMAIN ran \cup {Port} |-> IF p = Port THEN c ELSE ran[p]]
    /\ IF \/ ~c.keepsContext \/ ~c.complete
          \/ (c.exit # 0) # (status # "passed")
          \/ ~verifyHashes(seedContext[Port].bytes)
       THEN report' = Catch(report) /\ phase' = "finally"
       ELSE IF status = "infrastructure-failure"
       THEN report' = Catch(kept) /\ phase' = "finally"
       ELSE report' = kept /\ UNCHANGED phase
    /\ UNCHANGED <<workspace, origin, seedContext, edits, replays, judged>>

\* A completed evaluation under the explored seed, of every profile scheduled.
witnessReportProblem(w) ==
    w = Null \/ ~w.completed \/ w.seed # Own \/ ~(Profiles \subseteq w.profiles)

\* Witness shortfalls before counterexamples.
nativeStatus_WitnessFirst ==
    LET has(s) == \E k \in DOMAIN report.native : report.native[k].status = s IN
    IF has("witness-check-failure") THEN "witness-check-failure"
    ELSE IF has("native-failure") THEN "native-failure" ELSE Null

nativeStatus ==
    LET has(s) == \E k \in DOMAIN report.native : report.native[k].status = s IN
    IF has("native-failure") THEN "native-failure"
    ELSE IF has("witness-check-failure") THEN "witness-check-failure" ELSE Null

\* The rest of executeExploration's try block: unchanged sources, every port
\* finished, then the witness gate.  Any status but passed throws too.
executeExploration ==
    /\ phase = "native" /\ Len(report.native) = Len(Ports)
    /\ phase' = "finally" /\ judged' = workspace
    /\ LET w == report.witnesses
           problem == witnessReportProblem(w) IN
       report' = IF ~verifyHashes(report.sources) THEN Catch(report)
                 ELSE [report EXCEPT !.status =
                    IF nativeStatus # Null THEN nativeStatus
                    ELSE IF problem THEN "infrastructure-failure"
                    ELSE IF w.shortfall THEN "coverage-gate-failure" ELSE "passed"]
    /\ UNCHANGED <<workspace, origin, seedContext, edits, replays, ran>>

\* The dependency links go; when they cannot, that is the verdict.
finally ==
    /\ phase = "finally"
    /\ phase' = "done"
    /\ \E unlinked \in BOOLEAN :
          /\ unlinked \/ report.linked
          /\ report' = [report EXCEPT !.finished = TRUE,
                           !.status = IF unlinked THEN @ ELSE "infrastructure-failure"]
    /\ UNCHANGED <<workspace, origin, seedContext, edits, replays, ran, judged>>

\* A saved report is replayed from its workspace if that still holds the bytes.
savedExploration ==
    /\ phase = "done" /\ replays < MaxReplays
    /\ report.sources # Null /\ verifyHashes(report.sources)
    /\ replays' = replays + 1
    /\ origin' = report.sources
    /\ phase' = "snapshot" /\ report' = NewReport /\ workspace' = Null
    /\ seedContext' = NoPorts /\ ran' = NoPorts /\ judged' = Null
    /\ UNCHANGED edits

\* A step, or somebody, writes to a source of the workspace.
EditSource ==
    /\ edits < MaxSourceEdits
    /\ edits' = edits + 1
    /\ workspace' = IF workspace = Null THEN Null ELSE edits + 1
    /\ UNCHANGED <<phase, report, origin, seedContext, replays, ran, judged>>

Evaluations == {Null} \cup [completed : BOOLEAN, seed : Seeds,
                            profiles : SUBSET Profiles, shortfall : BOOLEAN]
Commands == [complete : BOOLEAN, failed : SUBSET {"case", "witness", "other"},
             exit : {0, 1}, keepsContext : BOOLEAN]

ExplorationNext ==
    \/ snapshotSources \/ linkDependencies \/ explorationPlan
    \/ \E w \in Evaluations : tolerated(w)
    \/ prepareExplorationContext \/ \E c \in Commands : runExplorationSteps(c)
    \/ executeExploration \/ finally \/ savedExploration \/ EditSource

ExplorationSpec == ExplorationInit /\ [][ExplorationNext]_explorationVars

-----------------------------------------------------------------------------

Sound == /\ DOMAIN ran = {Ports[k] : k \in DOMAIN Ports}
         /\ judged # Null /\ judged = report.sources
         /\ origin # Null => judged = origin

\* A finished exploration's verdict is what its ports did.  It passes only when
\* every port replayed the saved bytes without a failure and this seed's witnesses
\* were evaluated in full and met; a counterexample is reported as one, whatever
\* the witnesses say.
VerdictIsEarned ==
    report.finished =>
       /\ report.status # "running"
       /\ report.status = "passed" =>
             /\ Sound
             /\ \A p \in DOMAIN ran : ran[p].complete /\ ran[p].failed = {} /\ ran[p].exit = 0
             /\ ~witnessReportProblem(report.witnesses) /\ ~report.witnesses.shortfall
       /\ report.status = "native-failure" =>
             Sound /\ \E p \in DOMAIN ran : "case" \in ran[p].failed
       /\ report.status \in {"witness-check-failure", "coverage-gate-failure"} =>
             Sound /\ \A p \in DOMAIN ran : "case" \notin ran[p].failed
=============================================================================
