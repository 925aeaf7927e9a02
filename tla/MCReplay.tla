------------------------------ MODULE MCReplay ------------------------------
(* A TLC instance of the tools around models and replays: witness gates,      *)
(* model and challenge schedules, the replay coordinator, the projection of   *)
(* journals, replay reports, the Quint job pool and the differential          *)
(* comparison of two revisions.  A behaviour exercises one of them, the others *)
(* rest in an initial state.                                                  *)
EXTENDS Witnesses, TLC

CONSTANT NoInputs, RefusedInput

VARIABLES component,
          imports, program, challenges, waived, accepted,
          profile, record, session, recording, refused, lastRequest, ledger, driver,
          inputs, library, fault,
          projected, outcome, predicted, journal,
          language, gate, passes, failed, ended,
          commands, concurrency, next, failure, results, worker, log, settled,
          tree, phase, histories, verdicts, pool, threw, lost, report

scheduleVars == <<imports, program, challenges, waived, accepted>>
replayVars == <<profile, record, session, recording, refused, lastRequest, ledger,
                driver, inputs, library, fault>>
projectionVars == <<projected, outcome, predicted, journal>>
reportVars == <<language, gate, passes, failed, ended>>
poolVars == <<commands, concurrency, next, failure, results, worker, log, settled>>
differentialVars == <<tree, phase, histories, verdicts, pool, threw, lost, report>>

-----------------------------------------------------------------------------
(* Witnesses: corpora in which a label has full, partial and no support, one  *)
(* whose private state drifted, and a classifier before and after an edit.    *)

Step(a, o) == [action |-> a, outcome |-> o]
History(x, y) == [steps |-> <<Step("init", "none"), Step("read", x), Step("write", y)>>,
                  shadow |-> <<1>>, private |-> <<1>>]
Full == History("hit", "stored")
Half == History("hit", "dropped")
Miss == History("miss", "stored")
Drift == [Full EXCEPT !.private = <<2>>]
Files(a, b, r) == [n \in {"s1", "s2", "s3", "r1"} |->
    CASE n = "s1" -> a [] n \in {"s2", "s3"} -> b [] OTHER -> r]
Generations ==
    {Files(Full, Half, Full), Files(Half, Miss, Full), Files(Miss, Miss, Miss),
     Files(Full, Full, Drift)}

Rule(checkpoints) == [name |-> "served", commands |-> <<"init", "read", "write">>,
                      checkpoints |-> checkpoints]
Classifiers == << <<Rule(1 :> "hit")>>, <<Rule((1 :> "hit") @@ (2 :> "stored"))>> >>

-----------------------------------------------------------------------------
(* Schedules: two models that share a library through another, a vector       *)
(* model, regressions with repeated, nested and hidden steps, and challenges  *)
(* that are right and that are wrong in one respect.                          *)

Calls(n) == [op |-> "call", name |-> n]
Chain(e, parts) == [op |-> "chain", first |-> e, parts |-> parts]
Then(e) == [method |-> "then", arg |-> e]
Expect(c) == [method |-> "expect", arg |-> c]
Declaration(kind, assigns, records, body) ==
    [kind |-> kind, assigns |-> assigns, records |-> records, keeps |-> FALSE,
     body |-> body]
Atomic(refs) == [op |-> "all", refs |-> refs]
Text(records) ==
    [init |-> Declaration("action", TRUE, TRUE, Atomic({})),
     put |-> Declaration("action", TRUE, records, Atomic({})),
     twice |-> Declaration("action", FALSE, FALSE,
                           Chain(Calls("put"), <<Then(Calls("put"))>>)),
     hidden |-> Declaration("action", FALSE, FALSE, Atomic({"twice"})),
     putTest |-> Declaration("run", FALSE, FALSE,
        Chain(Calls("init"),
              <<Expect("private"),
                Then([op |-> "reps", times |-> 2, arg |-> Calls("put")]),
                Expect("seen"), Then(Calls("twice")), Expect("done")>>)),
     hiddenTest |-> Declaration("run", FALSE, FALSE,
        Chain(Calls("init"), <<Then(Calls("hidden")), Expect("seen")>>))]

Sound == [source |-> "l2", model |-> "m1", fault |-> 1, measures |-> FALSE,
          kind |-> "exported-regression", cited |-> Null, run |-> "putTest",
          failure |-> "done", profiles |-> {"m1"}, exclusions |-> {},
          native |-> "mapped", mutant |-> "M01", contract |-> "C01",
          crossContract |-> FALSE, written |-> Null]
Written ==
    {Sound,
     [Sound EXCEPT !.profiles = {"m1", "m2"}],
     [Sound EXCEPT !.model = "m2", !.profiles = {"m2"}],
     [Sound EXCEPT !.source = "m1", !.failure = "seen", !.fault = 2],
     [Sound EXCEPT !.source = "m1", !.run = "hiddenTest", !.failure = "seen",
                   !.fault = 2],
     [Sound EXCEPT !.source = "m1", !.fault = 2, !.measures = TRUE,
                   !.native = "model-only", !.mutant = Null],
     [Sound EXCEPT !.model = "v1", !.cited = "m2", !.profiles = {"v1", "m2"},
                   !.measures = TRUE, !.exclusions = {"m1"}],
     [Sound EXCEPT !.source = "v1", !.model = "v1", !.kind = "model-run",
                   !.profiles = {"v1"}, !.written = 1]}

Schedule == INSTANCE Schedules WITH
    Models <- {"m1", "m2", "v1"}, VectorModels <- {"v1"}, Libraries <- {"l1", "l2"},
    Edges <- {<<"m1", "l1">>, <<"l1", "l2">>, <<"m2", "l2">>},
    Programs <- [m \in {"m1", "m2", "v1"} |->
                    IF m = "m1" THEN {Text(TRUE), Text(FALSE)} ELSE {Text(TRUE)}],
    Challenges <- Written, PublicConditions <- {"seen", "done"},
    Catalog <- [m \in {"M01"} |-> [contracts |-> {"C01"}, generated |-> TRUE]],
    MaxChallenges <- 2

-----------------------------------------------------------------------------
(* Replays of every short history of each profile that its driver can run.    *)

Bindings == INSTANCE Replay WITH Profiles <- {}, SourceWorkMs <- 2

ActionsOf ==
    [features |-> {"beginCall", "releaseRead", "rejectLoader", "advance",
                   "rollbackWall", "openScope", "closeScope", "seed", "readFault",
                   "policy"},
     schedule |-> {"beginCall", "releaseRead", "resolveLoader", "holdReads",
                   "passReads", "beginThenPass"},
     effects |-> {"beginCall", "releaseRead", "failWrite", "resolveLoader", "tick",
                  "seed"},
     core |-> {"localCall", "bumpSource"},
     local_clock |-> {"call", "advanceTicks", "constructInstance"}]

Runnable(p) ==
    \A n \in 1 .. Len(p.history) :
        LET before == Bindings!Predicted(p, n - 1) IN
        \A c \in Range(Bindings!commands(p.name, p.history[n])) :
            Bindings!Runs(before, c) /\ (c.op = "closeScope" => before.scopes > 0)

HistoriesOf(name, actions, length) ==
    {p \in [name : {name}, history : UNION {[1 .. n -> actions] : n \in 1 .. length}] :
        Runnable(p)}

ReplayedHistories ==
    HistoriesOf("schedule", ActionsOf.schedule, 3)
    \cup HistoriesOf("features", ActionsOf.features, 3)
    \cup HistoriesOf("effects", ActionsOf.effects, 4)
    \cup HistoriesOf("core", ActionsOf.core, 2)
    \cup HistoriesOf("local-clock", ActionsOf.local_clock, 2)

Session == INSTANCE Replay WITH Profiles <- ReplayedHistories, SourceWorkMs <- 2

-----------------------------------------------------------------------------
(* Journals: the channels of the feature profiles and of the effects profile.  *)

Splits(flags, age, observe) == [flags |-> flags, age |-> age, observe |-> observe]
Journals == INSTANCE Projection WITH
    Profiles <- {Splits({"readIO"}, "", {"readContext", "readAbort"}),
                 Splits({}, "none", {"coalesced", "error"}),
                 Splits({}, "recoveryAge", {"recoveryAge", "error"}),
                 Splits({"policyErrorIO"}, "", {"error"}),
                 Splits({"futureOffsets"}, "shadowAge",
                        {"mismatchWarning", "futureOffset"}),
                 Splits({"warnings"}, "shadowAge",
                        {"shadowAge", "mismatchWarning", "shadowMismatchLogging"}),
                 Splits({"configErrors", "inspections"}, "shadowAge",
                        {"error", "coalescingState"}),
                 Splits({"markerIO", "compressionIO"}, "", {"marker", "compression"}),
                 Splits({"readIO", "configErrors"}, "shadowAge",
                        {"error", "readContext"}),
                 Splits({"effects"}, "",
                        {"readContext", "readAbort", "error", "writeDispatch"})},
    Outcomes <- {[calls |-> <<"pending", "one", "two", "source", "timeout", "other">>,
                  ages |-> <<"match">>]},
    MaxEvents <- 2, profile <- projected, history <- predicted

\* Two required cases, one of which replays a history, and the names a report may
\* carry beside them: the root, a history outside the inventory, a descendant and
\* another root.
Reports == INSTANCE ReplayReports WITH
    MaxPasses <- 2, Required <- {<<"R", "a">>, <<"R", "b">>},
    Others <- {<<"R">>, <<"R", "x">>, <<"R", "a", "c">>, <<"S">>},
    Histories <- {<<"R", "a">>, <<"R", "x">>}

-----------------------------------------------------------------------------
(* Jobs and revisions *)

Jobs == INSTANCE QuintPool WITH
    Models <- <<[name |-> "core", generates |-> TRUE, regressions |-> TRUE,
                 vectors |-> FALSE],
                [name |-> "keys", generates |-> FALSE, regressions |-> FALSE,
                 vectors |-> TRUE],
                [name |-> "effects", generates |-> TRUE, regressions |-> TRUE,
                 vectors |-> FALSE]>>,
    Modes <- {"check", "generate"}, Jobs <- {Null, 1}, Available <- 2, Memory <- 3

\* Texts that differ from the base in the observation after one history, that
\* refuse one history and its extensions, that lack an action, and that differ
\* at the start and refuse early; and revisions that are not comparable.
Inputs == {"a", "b"}
InputLists == UNION {[1 .. n -> Inputs] : n \in 0 .. 2}
Base == [generates |-> TRUE, behaviorVersion |-> 0, schemaVersion |-> 1,
         actions |-> Inputs, does |-> [h \in InputLists |-> 0]]
Observes(h) == [Base EXCEPT !.does[h] = 1]
Refuses(p) == [Base EXCEPT !.does = [h \in InputLists |->
                  IF IsPrefix(p, h) THEN RefusedInput ELSE 0]]
Lacks(a) == [Base EXCEPT !.actions = @ \ {a}, !.does = [h \in InputLists |->
                IF a \in Range(h) THEN RefusedInput ELSE 0]]
StartsApart == [Refuses(<<"a">>) EXCEPT !.does[<<>>] = 1]
Texts == {Observes(h) : h \in InputLists} \cup {Lacks("b"), StartsApart, Base}
         \cup {Refuses(p) : p \in InputLists \ {<<>>}}

Revisions == INSTANCE Differential WITH
    Pairs <- ({Base} \X Texts) \cup (Texts \X {Base})
        \cup {<<Base, [Base EXCEPT ![f] = 7]>> : f \in {"behaviorVersion", "schemaVersion"}}
        \cup {<<Base, [Base EXCEPT !.generates = FALSE]>>,
              <<[Base EXCEPT !.generates = FALSE], Base>>},
    MaxLength <- 2, Refused <- RefusedInput, Chunk <- 2,
    Corpus <- {<<<<"a", "b">>, <<"b">>>>, <<<<"b", "a">>, <<"a">>>>, <<<<"a">>>>},
    corpus <- histories, failed <- threw

-----------------------------------------------------------------------------

\* A component that rests does so in one of its own initial states.
MCInit ==
    /\ component \in {"witnesses", "schedule", "session", "journals", "reports", "jobs",
                      "revisions"}
    /\ Init /\ (component # "witnesses" => manifestSeed = 1)
    /\ Schedule!Init
    /\ component # "schedule" => imports = {} /\ program["m1"] = Text(TRUE)
    /\ Journals!Init /\ (component # "journals" => projected.age = "none")
    /\ Reports!Init /\ (component # "reports" => language = "go")
    /\ Jobs!Init /\ (component # "jobs" => concurrency = 1 /\ Len(commands) = 5)
    /\ Revisions!prepare
    /\ component # "revisions" => tree = [reference |-> Base, candidate |-> Base]
    /\ Session!Init
    /\ component # "session" =>
          /\ profile = [name |-> "core", history |-> <<"localCall">>]
          /\ record /\ library = "correct"

\* Only the component of the behaviour moves.
Rests(c) ==
    /\ component = c /\ UNCHANGED component
    /\ c # "witnesses" => UNCHANGED witnessVars
    /\ c # "schedule" => UNCHANGED scheduleVars
    /\ c # "session" => UNCHANGED replayVars
    /\ c # "journals" => UNCHANGED projectionVars
    /\ c # "reports" => UNCHANGED reportVars
    /\ c # "jobs" => UNCHANGED poolVars
    /\ c # "revisions" => UNCHANGED differentialVars

MCNext ==
    \/ Rests("witnesses") /\ Next
    \/ Rests("schedule") /\ Schedule!Next
    \/ Rests("session") /\ Session!Next
    \/ Rests("journals") /\ Journals!Next
    \/ Rests("reports") /\ Reports!Next
    \/ Rests("jobs") /\ Jobs!Next
    \/ Rests("revisions") /\ Revisions!Next

MCSpec ==
    MCInit /\ [][MCNext]_<<component, witnessVars, scheduleVars, replayVars,
                           projectionVars, reportVars, poolVars, differentialVars>>

-----------------------------------------------------------------------------
(* The properties of the instances *)

\* An accepted schedule rests on the imports and the runs as they are
\* (Schedules, importClosure).
AcceptedScheduleIsFounded ==
    component = "schedule" => Schedule!AcceptedScheduleIsFounded

\* A recorded divergence is the library's, not the driver's, and a driver that
\* settled as the contract says is never refused (Replay, Judge and issueOne).
DivergenceMeansLibrary == component = "session" => Session!DivergenceMeansLibrary

\* A projection that equals the prediction has every event of it, in order
\* (Projection, projectObservation).
ProjectionLosesNothing == component = "journals" => Journals!ProjectionLosesNothing

\* An accepted report holds every required case, passed once (ReplayReports).
AcceptedReportsAreComplete == component = "reports" => Reports!AcceptedReportsAreComplete

\* The pool runs each model's jobs in order, and settles when nothing runs
\* (QuintPool, runPool).
PoolIsOrderly == component = "jobs" => Jobs!PoolIsOrderly

\* The differential report names exactly the histories on which the revisions
\* differ (Differential, compareHistory).
ReportIsExact == component = "revisions" => Revisions!ReportIsExact
=============================================================================
