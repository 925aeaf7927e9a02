--------------------------- MODULE CohortEvidence ---------------------------
(* How formal/tools judges one mutant of a port: the evaluators of the native    *)
(* test reports, the classification of a cohort that threw, the portable cohort, *)
(* the boundary replays and the gate over all of them.  Nothing but a completed  *)
(* run with comparison evidence may count as a detection.                        *)
EXTENDS Integers, Sequences, SequencesExt

CONSTANTS Tests,       \* how many tests a cohort selects
          Fields,      \* observation fields a boundary may declare
          Counters,    \* those of them that are cumulative
          LastStep,    \* last step of a boundary history
          Pending      \* not judged yet

VARIABLES port,        \* "typescript", "go" or "rust"
          cohorts,     \* the recorded state of each cohort
          shown,       \* history: what its run really showed
          baseline,    \* last step of the boundary history's clean replay
          boundary,    \* the recorded boundary of the mutant
          crossed,     \* history: the checkpoint at which the fault was visible
          gate         \* what the gate said
evidenceVars == <<port, cohorts, shown, baseline, boundary, crossed, gate>>

Cohorts == {"ordinary", "generated", "fixed"}

Init ==
    /\ port \in {"typescript", "go", "rust"}
    /\ cohorts = [c \in Cohorts |-> Pending] /\ shown = [c \in Cohorts |-> Pending]
    /\ baseline = Pending /\ boundary = Pending /\ crossed = {} /\ gate = Pending

-----------------------------------------------------------------------------
(* Native test reports (external)

   A run selects Tests tests.  A failed test carries the text of a comparison or
   of a causal property, a settlement violation, or no evidence.  `crash` stands
   for a panic, an unhandled error or a collection error, `ended` for the report's
   footer, `agrees` for totals and statuses that match the listed tests.          *)

Outcomes == [status : {"pass", "skip", "running"}, evidence : {"none"}]
            \cup [status : {"fail"},
                  evidence : {"comparison", "causal", "settlement", "none"}]
Reports == [tests : BoundedSeq(Outcomes, Tests), crash : BOOLEAN, ended : BOOLEAN,
            agrees : BOOLEAN, exit : {0, 1}, killed : BOOLEAN]

Of(r, status) == SelectSeq(r.tests, LAMBDA t : t.status = status)
Failed(r) == Of(r, "fail")
Executed(r) == Len(Failed(r)) + Len(Of(r, "pass"))
Settled(r) == \E k \in DOMAIN Failed(r) : Failed(r)[k].evidence = "settlement"
Verdict(r) == IF Failed(r) = <<>> THEN "survived" ELSE "detected"

\* A failed test of a replay cohort needs a comparison or a validated causal
\* property; the first test without either ends the evaluation.
causalPropertyAssertion(test) == test.evidence = "causal"
Evident(test) == test.evidence = "comparison" \/ causalPropertyAssertion(test)
Unfounded(r) == SelectSeq(Failed(r), LAMBDA t : ~Evident(t))

evaluateSemanticTestReport(r) ==
    IF \/ Settled(r) \/ ~r.agrees \/ ~r.ended
       \/ r.crash /\ Failed(r) = <<>>
       \/ Executed(r) = 0
       \/ (r.exit = 0) # (Failed(r) = <<>>)
    THEN IF Settled(r) THEN "settlement" ELSE "throws"
    ELSE Verdict(r)

evaluateGoTestEvents(r, cohort) ==
    IF \/ r.tests = <<>> \/ r.crash \/ ~r.ended
       \/ Of(r, "skip") # <<>> \/ Of(r, "running") # <<>>
    THEN "throws"
    ELSE IF cohort # "ordinary" /\ Unfounded(r) # <<>>
    THEN IF Unfounded(r)[1].evidence = "settlement" THEN "settlement" ELSE "throws"
    ELSE IF ~r.agrees \/ (r.exit = 0) # (Failed(r) = <<>>) THEN "throws"
    ELSE Verdict(r)

evaluateCargoTestOutput(r) ==
    IF ~r.ended \/ ~r.agrees \/ (r.exit = 0) # (Failed(r) = <<>>) THEN "throws"
    ELSE Verdict(r)

evaluateRustReport(r) ==
    IF \/ r.crash \/ ~r.ended \/ ~r.agrees \/ Executed(r) = 0
       \/ Unfounded(r) # <<>>
       \/ (r.exit = 0) # (Failed(r) = <<>>)
    THEN "throws"
    ELSE Verdict(r)

-----------------------------------------------------------------------------
(* Cohorts *)

\* Under a mutant an ordinary suite that throws, or a settlement violation, is a
\* crashed cohort; any other throw ends the measurement.
classifyCohort(cohort, evaluated) ==
    IF evaluated = "settlement" THEN "crashed"
    ELSE IF evaluated # "throws" THEN evaluated
    ELSE IF cohort = "ordinary" THEN "crashed"
    ELSE "aborted"

\* One cohort under a mutant, which the baseline executed in full.  A process that
\* died of a signal or its time limit ends the measurement, and so does a run
\* that survived on fewer tests than the baseline's.
runTypescript(cohort, r) ==
    LET e == classifyCohort(cohort, evaluateSemanticTestReport(r)) IN
    IF r.killed \/ (e = "survived" /\ Executed(r) # Tests) THEN "aborted" ELSE e

\* Go wants every selected test to have run, unless the cohort crashed.
runGo(cohort, r) ==
    LET e == classifyCohort(cohort, evaluateGoTestEvents(r, cohort)) IN
    IF r.killed \/ (e # "crashed" /\ Executed(r) # Tests) THEN "aborted" ELSE e

\* Rust keeps the strict rule for every cohort.
runRust(cohort, r) ==
    LET e == IF cohort = "ordinary" THEN evaluateCargoTestOutput(r)
             ELSE evaluateRustReport(r) IN
    IF r.killed \/ e = "throws" \/ Executed(r) # Tests THEN "aborted" ELSE e

run(cohort, r) ==
    CASE port = "typescript" -> runTypescript(cohort, r)
      [] port = "go" -> runGo(cohort, r)
      [] OTHER -> runRust(cohort, r)

\* Portable evidence that counts the component that did run.
portableCohort_Either(generated, fixed) ==
    IF "detected" \in {generated, fixed} THEN "detected"
    ELSE IF "crashed" \in {generated, fixed} THEN "crashed"
    ELSE "survived"

\* Both replay cohorts together; one that crashed leaves nothing to say.
portableCohort(generated, fixed) ==
    IF "crashed" \in {generated, fixed} THEN "crashed"
    ELSE IF "detected" \in {generated, fixed} THEN "detected"
    ELSE "survived"

\* Reference: the run went to its end, and shows a failed comparison or, with
\* every test executed, none.
Shows(cohort, r) ==
    IF r.killed \/ ~r.ended \/ (cohort # "ordinary" /\ Settled(r)) THEN "nothing"
    ELSE IF /\ Failed(r) # <<>>
            /\ \/ port = "typescript" \/ cohort = "ordinary"
               \/ Unfounded(r) = <<>>
    THEN "detected"
    ELSE IF Failed(r) = <<>> /\ Executed(r) = Tests THEN "survived"
    ELSE "nothing"

\* The cohorts run one after the other; the boundaries follow.
Measured == \A c \in Cohorts : cohorts[c] \notin {Pending, "aborted"}
Order == <<"ordinary", "generated", "fixed">>

measure(k) ==
    LET cohort == Order[k] IN
    /\ cohorts[cohort] = Pending
    /\ port # "rust" => baseline # Pending /\ baseline >= 0
    /\ \A j \in 1..(k - 1) : cohorts[Order[j]] \notin {Pending, "aborted"}
    /\ \E r \in Reports :
          /\ cohorts' = [cohorts EXCEPT ![cohort] = run(cohort, r)]
          /\ shown' = [shown EXCEPT ![cohort] = Shows(cohort, r)]
    /\ UNCHANGED <<port, baseline, boundary, crossed, gate>>

-----------------------------------------------------------------------------
(* Boundary replays

   One history is replayed alone while the coordinator records every divergence.  *)

Recordings == [valid : BOOLEAN, completed : BOOLEAN, error : BOOLEAN,
               lastStep : 0..LastStep, paths : [0..LastStep -> SUBSET Fields],
               exit : {0, 1}]

\* One recording of this history whose divergences lie within its steps.
validRecording(rec) ==
    /\ rec.valid
    /\ \A s \in 0..LastStep : rec.paths[s] # {} => s <= rec.lastStep

\* Neither a missing recording nor a failed process is ever a completed replay.
readBoundaryRecording(rec) ==
    [rec EXCEPT !.completed = validRecording(rec) /\ rec.completed /\ ~rec.error
                              /\ rec.exit = 0]

\* A cumulative counter counts only where it was still right one step before.
countingPaths(fields, at, before) ==
    {f \in fields \cap at : f \notin Counters \/ f \notin before}

assessBoundary(step, fields, rec) ==
    LET r == readBoundaryRecording(rec) IN
    IF ~r.completed \/ r.lastStep < step THEN "unreached"
    ELSE IF countingPaths(fields, r.paths[step], r.paths[step - 1]) # {}
    THEN "confirmed"
    ELSE IF \E s \in 0..LastStep : r.paths[s] # {} THEN "side-effect-only"
    ELSE "not-divergent"

\* A vector boundary has one answer to compare: the identity and fingerprints of
\* the request, then its fields, where elapsed server time may explain a shorter
\* but still positive time to live.
Answers == [fits : BOOLEAN, valid : BOOLEAN, ttl : 0..2, elapsed : 0..1,
            differs : SUBSET Fields]
assessVectorBoundary(fields, a) ==
    LET explained == a.ttl <= 2 /\ a.ttl + a.elapsed >= 2 IN
    IF ~a.fits \/ ~a.valid THEN "unreached"
    ELSE IF a.differs \cap fields # {} THEN "confirmed"
    ELSE IF a.differs # {} \/ ~explained THEN "side-effect-only"
    ELSE "not-divergent"

\* The history replayed without a fault: it must complete with no divergence, or
\* the measurement ends.
boundaryBaselines ==
    /\ baseline = Pending /\ port # "rust"
    /\ \E rec \in Recordings :
          LET r == readBoundaryRecording(rec) IN
          baseline' = IF r.completed /\ \A s \in 0..LastStep : r.paths[s] = {}
                      THEN r.lastStep ELSE -1
    /\ UNCHANGED <<port, cohorts, shown, boundary, crossed, gate>>

Visible(step, fields, really) ==
    IF really /\ step <= baseline THEN {[step |-> step, fields |-> fields]} ELSE {}

\* mutationBoundaries: each declared checkpoint is assessed on its history's
\* recording, replayed once.
replayBoundary(step, fields) ==
    /\ boundary = Pending /\ port # "rust" /\ Measured
    /\ \E rec \in Recordings :
          /\ boundary' = [step |-> step, fields |-> fields,
                          state |-> assessBoundary(step, fields, rec)]
          /\ crossed' = Visible(step, fields,
                /\ rec.valid /\ rec.completed /\ ~rec.error /\ rec.exit = 0
                /\ \E f \in fields : /\ f \in rec.paths[step]
                                     /\ f \in Counters => f \notin rec.paths[step - 1])
    /\ UNCHANGED <<port, cohorts, shown, baseline, gate>>

runVectorBoundary(fields, a) ==
    /\ boundary = Pending /\ port # "rust" /\ Measured
    /\ boundary' = [step |-> 0, fields |-> fields,
                    state |-> assessVectorBoundary(fields, a)]
    /\ crossed' = Visible(0, fields, a.fits /\ a.valid /\ fields \cap a.differs # {})
    /\ UNCHANGED <<port, cohorts, shown, baseline, gate>>

\* The verdict recomputed for the current declaration: a recording made for
\* another one, or a baseline that ended before the step, reaches nothing.
boundaryReview(declared) ==
    IF \/ boundary.step # declared.step \/ boundary.fields # declared.fields
       \/ baseline < declared.step
    THEN "unreached" ELSE boundary.state

\* The required cohorts and boundary of the mutant that were not detected.
requiredDetectionRegressions(required, declared) ==
    LET state(c) == IF c = "portable"
                    THEN portableCohort(cohorts["generated"], cohorts["fixed"])
                    ELSE cohorts[c] IN
    {c \in required : state(c) # "detected"}
       \cup (IF port = "rust" \/ boundaryReview(declared) = "confirmed" THEN {}
             ELSE {"boundary"})

gateDetections(required, declared) ==
    /\ gate = Pending /\ Measured
    /\ boundary # Pending \/ port = "rust"
    /\ gate' = IF requiredDetectionRegressions(required, declared) = {}
               THEN [held |-> TRUE, required |-> required, declared |-> declared]
               ELSE [held |-> FALSE]
    /\ UNCHANGED <<port, cohorts, shown, baseline, boundary, crossed>>

Next ==
    \/ \E k \in 1..3 : measure(k)
    \/ boundaryBaselines
    \/ \E step \in 1..LastStep, fields \in SUBSET Fields \ {{}} :
          replayBoundary(step, fields)
    \/ \E fields \in SUBSET Fields \ {{}}, a \in Answers : runVectorBoundary(fields, a)
    \/ \E required \in SUBSET (Cohorts \cup {"portable"}),
          declared \in [step : 0..LastStep, fields : SUBSET Fields \ {{}}] :
             gateDetections(required, declared)

-----------------------------------------------------------------------------

\* The gate holds a mutant's detections only on evidence: every required cohort
\* ran to its end and showed a failed comparison, portable needs both replay
\* cohorts to have run, and the boundary declared now counts only where one of
\* its fields went wrong at its step of a replay that completed, while the clean
\* replay went through that step without a divergence.
CreditNeedsEvidence ==
    gate # Pending /\ gate.held =>
       /\ \A c \in gate.required \cap Cohorts : shown[c] = "detected"
       /\ "portable" \in gate.required =>
             /\ shown["generated"] # "nothing" /\ shown["fixed"] # "nothing"
             /\ "detected" \in {shown["generated"], shown["fixed"]}
       /\ port # "rust" => gate.declared \in crossed
=============================================================================
