---------------------------- MODULE SymbolicCheck ----------------------------
(* formal/tools/check-symbolic-models.mjs: the scheduled models are verified by  *)
(* an Apalache server the checker starts, owns and stops.  The server may die at *)
(* any moment, another process may take the port it should have had, and the     *)
(* sources and the installation may be edited meanwhile.                         *)
EXTENDS Naturals, Sequences, SequencesExt

CONSTANTS Plan,         \* symbolicPlan: the scheduled models, in order
          Exchanges,    \* what a reflection request may meet: the events, the answer
          Nothing,      \* an absent report, field or process
          MaxChecks,    \* bound on runs of the checker
          MaxChanges    \* bound on edits of each input

VARIABLES inputs,       \* [sources, install]: versions of what is fingerprinted
          report,       \* report.json
          step,         \* where the checker is
          evidence,     \* what the checker has in memory of its report
          server,       \* the owned server: "none", "starting", "bound", "ready", "exited"
          port,         \* who listens on the selected port
          job,          \* of the running job: who may have answered, what it may have read
          checks        \* number of runs so far

symbolicVars == <<inputs, report, step, evidence, server, port, job, checks>>

Fresh == [complete |-> FALSE, error |-> FALSE, sources |-> Nothing,
          solver |-> Nothing, passed |-> <<>>]

NoJob == [by |-> {}, of |-> {}]

Init ==
    /\ inputs = [sources |-> 0, install |-> 0]
    /\ report = Nothing /\ step = "idle" /\ evidence = Fresh
    /\ server = "none" /\ port = Nothing /\ job = NoJob /\ checks = 0

\* assertAlive.  An exit has been observed by the event loop's next turn.
assertAlive == server \in {"starting", "bound", "ready"}

-----------------------------------------------------------------------------
(* checkSymbolicModels *)

\* A previous pass is invalidated before anything is read.
start ==
    /\ step = "idle" /\ checks < MaxChecks
    /\ checks' = checks + 1
    /\ report' = Fresh /\ evidence' = Fresh /\ step' = "manifest"
    /\ UNCHANGED <<inputs, server, port, job>>

\* save() and go on.
Saves(next, e) ==
    /\ evidence' = e /\ report' = e /\ step' = next
    /\ UNCHANGED <<inputs, checks>>

\* The catch: the report names the error; the finally stops the server.
Throws == Saves("stopping", [evidence EXCEPT !.error = TRUE])

\* The manifest is valid and its inputs are hashed, or the run is refused.
readManifest ==
    /\ step = "manifest"
    /\ \/ Saves("install", [evidence EXCEPT !.sources = inputs.sources])
       \/ Throws
    /\ UNCHANGED <<server, port, job>>

\* A free port is chosen, given up again, and the server started on it.
Spawns == server' = "starting" /\ port' = Nothing

\* The Quint version and the pinned installation, then the server.
startSymbolicServer ==
    /\ step = "install"
    /\ \/ /\ step' = "banner" /\ Spawns
          /\ UNCHANGED <<inputs, report, evidence, checks>>
       \/ Throws /\ UNCHANGED <<server, port>>
    /\ UNCHANGED job

\* Its catch: the server is stopped before the report names the error.
StartFails ==
    /\ Throws
    /\ server' = "none" /\ port' = IF port = "owned" THEN Nothing ELSE port

\* A poll of the log: the version and the bind banner, which only a server that
\* has the port prints; anything else in time is waited for.
pollBanner ==
    /\ step = "banner"
    /\ \/ /\ assertAlive /\ server # "starting"
          /\ step' = "reflect"
          /\ UNCHANGED <<inputs, report, evidence, server, port, checks>>
       \/ StartFails
    /\ UNCHANGED job

\* The answer is one uncompressed frame holding one list of named descriptors.
descriptorResponse(answer) == answer.framed /\ answer.descriptors = 1

\* The exchange's first deciding event settles it: its timer, an error, a close, an
\* oversized answer, or the end of a complete one.
reflect(exchange) ==
    LET deciding == SelectSeq(exchange.events, LAMBDA e :
                        e \in {"timeout", "error", "close", "oversized", "end"}) IN
    /\ deciding # <<>> /\ Head(deciding) = "end"
    /\ exchange.answer.status = "ok" /\ descriptorResponse(exchange.answer)

\* Who can answer on the port: its owner once it is warm, or whoever took it.
Answers == server = "ready" \/ port = "foreign"

\* Reflection is asked for until an answer describes the solver, and the server
\* must have been alive before and after; retries leave everything as it is.
waitForApalache(exchange) ==
    /\ step = "reflect"
    /\ \/ /\ Answers /\ reflect(exchange) /\ assertAlive
          /\ Saves("verify", [evidence EXCEPT !.solver = inputs.install])
          /\ UNCHANGED <<server, port>>
       \/ StartFails
    /\ UNCHANGED job

Job == Plan[Len(evidence.passed) + 1]

\* One quint verify, from its start to its end: it asks on the port once, and
\* launches a solver of its own when nobody answers there.
runJob ==
    /\ step = "verify" /\ Len(evidence.passed) < Len(Plan)
    /\ step' = "verifying"
    /\ job' = [by |-> {IF Answers THEN port ELSE "launched"}, of |-> {inputs}]
    /\ UNCHANGED <<inputs, report, evidence, server, port, checks>>

\* The server is still there, and the result file of this job says stage
\* verifying, status ok and no error, with exit code 0.
validateSymbolicResult(result) == assertAlive /\ result = "ok"

endJob(result) ==
    /\ step = "verifying"
    /\ IF validateSymbolicResult(result)
       THEN Saves("verify", [evidence EXCEPT !.passed =
                Append(@, [model |-> Job, by |-> job.by, of |-> job.of])])
       ELSE Throws
    /\ job' = NoJob
    /\ UNCHANGED <<server, port>>

\* The inputs are hashed again before the report is complete.
finish ==
    /\ step = "verify" /\ Len(evidence.passed) = Len(Plan)
    /\ IF evidence.sources = inputs.sources /\ evidence.solver = inputs.install
       THEN Saves("stopping", [evidence EXCEPT !.complete = TRUE])
       ELSE Throws
    /\ UNCHANGED <<server, port, job>>

\* stop: SIGTERM, SIGKILL after three seconds, and its exit is awaited.
stop ==
    /\ step = "stopping"
    /\ step' = "idle"
    /\ server' = "none"
    /\ port' = IF port = "owned" THEN Nothing ELSE port
    /\ UNCHANGED <<inputs, report, evidence, job, checks>>

-----------------------------------------------------------------------------
(* The surroundings *)

\* The server binds its port and prints the banner; on a port that is taken it
\* exits.
Bind ==
    /\ server = "starting"
    /\ IF port = Nothing THEN server' = "bound" /\ port' = "owned"
       ELSE server' = "exited" /\ UNCHANGED port
    /\ UNCHANGED <<inputs, report, step, evidence, job, checks>>

\* Its reflection service is up some time after the banner.
Warm ==
    /\ server = "bound"
    /\ server' = "ready"
    /\ UNCHANGED <<inputs, report, step, evidence, port, job, checks>>

Die ==
    /\ assertAlive
    /\ server' = "exited"
    /\ port' = IF port = "owned" THEN Nothing ELSE port
    /\ UNCHANGED <<inputs, report, step, evidence, job, checks>>

\* Another process listens on the port, perhaps another solver.
Intrude ==
    /\ port = Nothing
    /\ port' = "foreign"
    /\ job' = IF job = NoJob THEN NoJob ELSE [job EXCEPT !.by = @ \cup {"foreign"}]
    /\ UNCHANGED <<inputs, report, step, evidence, server, checks>>

Change(i) ==
    /\ inputs[i] < MaxChanges
    /\ inputs' = [inputs EXCEPT ![i] = @ + 1]
    /\ job' = IF job = NoJob THEN NoJob ELSE [job EXCEPT !.of = @ \cup {inputs'}]
    /\ UNCHANGED <<report, step, evidence, server, port, checks>>

\* The checker is killed: no handler runs, and its server is left to itself.
Kill ==
    /\ step # "idle"
    /\ step' = "idle" /\ server' = "none" /\ port' = Nothing /\ job' = NoJob
    /\ UNCHANGED <<inputs, report, evidence, checks>>

Next ==
    \/ start \/ readManifest \/ startSymbolicServer \/ pollBanner
    \/ \E exchange \in Exchanges : waitForApalache(exchange)
    \/ runJob \/ (\E result \in {"ok", "violation", "none"} : endJob(result))
    \/ finish \/ stop
    \/ Bind \/ Warm \/ Die \/ Intrude \/ Kill
    \/ \E i \in {"sources", "install"} : Change(i)

-----------------------------------------------------------------------------

\* A complete report is a pass of every scheduled model, in order, each answered
\* by the owned server alone and read from the inputs the report names ("a process
\* racing for the freed port cannot pass this", "a concurrent edit cannot inherit
\* an earlier model-check result"), and a report with an error is not complete.
SymbolicPassIsOwned ==
    report # Nothing /\ report.complete =>
       /\ ~report.error
       /\ Len(report.passed) = Len(Plan)
       /\ \A k \in DOMAIN report.passed :
             /\ report.passed[k].model = Plan[k]
             /\ report.passed[k].by = {"owned"}
             /\ report.passed[k].of =
                   {[sources |-> report.sources, install |-> report.solver]}
=============================================================================
