---------------------------- MODULE ReplayReports ----------------------------
(* The gates that read a finished native replay report, one record at a time:    *)
(* check-go-replay, check-rust-replay, check-python-replay and the TypeScript    *)
(* half of conformance-adapters.  The harness that writes the report is          *)
(* external; it may write any record, in any order, or stop early.               *)
EXTENDS Naturals, Sequences, FiniteSets

CONSTANTS Required,     \* names of the required cases: sequences of tokens
          Others,       \* every other name a report may carry
          Histories,    \* the names whose titles replay a conformance history
          MaxPasses     \* bound on records of one name

VARIABLES language, gate, passes, failed, ended
reportVars == <<language, gate, passes, failed, ended>>

Names == Required \cup Others

\* gate holds the loop's locals: tests (or cases), unfinished descendants, started
\* and complete (or finish), the suites in order and whether the last one is still
\* without assertions, and whether a record was refused.
Init ==
    /\ language \in {"go", "rust", "python", "typescript"}
    /\ gate = [tests |-> [n \in Names |-> "none"], unfinished |-> [n \in Names |-> 0],
               started |-> FALSE, complete |-> FALSE, suites |-> <<>>, empty |-> TRUE,
               refused |-> FALSE]
    /\ passes = [n \in Names |-> 0]
    /\ failed = FALSE /\ ended = FALSE

Refused(g) == [g EXCEPT !.refused = TRUE]
ancestors(name) == {SubSeq(name, 1, k) : k \in 1..(Len(name) - 1)} \cap Names
Seen(g) == {n \in Names : g.tests[n] # "none"}
Passed(g) == {n \in Names : g.tests[n] = "pass"}

-----------------------------------------------------------------------------
(* Go: test2json events *)

\* One test2json event: a test runs once, under a running root and no finished
\* ancestor, and finishes when none of its descendants is unfinished; what is left is
\* the result of the package.
goRecord(g, e) ==
    IF e.action \in {"fail", "skip", "build-fail"} \/ g.complete THEN Refused(g)
    ELSE IF e.action = "start" THEN
        IF g.started THEN Refused(g) ELSE [g EXCEPT !.started = TRUE]
    ELSE IF ~g.started THEN Refused(g)
    ELSE IF e.action = "run" THEN
        IF \/ g.tests[e.name] # "none"
           \/ Len(e.name) > 1 /\ g.tests[<<e.name[1]>>] # "running"
           \/ \E p \in ancestors(e.name) : g.tests[p] = "pass"
        THEN Refused(g)
        ELSE [g EXCEPT !.tests[e.name] = "running",
                       !.unfinished = [n \in Names |->
                           @[n] + IF n \in ancestors(e.name) THEN 1 ELSE 0]]
    ELSE IF e.action = "pause" THEN
        IF g.tests[e.name] # "running" THEN Refused(g)
        ELSE [g EXCEPT !.tests[e.name] = "paused"]
    ELSE IF e.action = "cont" THEN
        IF g.tests[e.name] # "paused" THEN Refused(g)
        ELSE [g EXCEPT !.tests[e.name] = "running"]
    ELSE IF e.action = "pass" THEN
        IF g.tests[e.name] # "running" \/ g.unfinished[e.name] # 0
        THEN Refused(g)
        ELSE [g EXCEPT !.tests[e.name] = "pass",
                       !.unfinished = [n \in Names |->
                           @[n] - IF n \in ancestors(e.name) THEN 1 ELSE 0]]
    ELSE IF Seen(g) = {} \/ Seen(g) # Passed(g) THEN Refused(g)
    ELSE [g EXCEPT !.complete = TRUE]

nonleaves(g) == UNION {ancestors(n) : n \in Seen(g)}
protectedRoots == {n[1] : n \in Required}

\* After the loop: required cases are passed leaves, and a protected root has
\* no other leaf.
goAccepts(g) ==
    /\ g.complete
    /\ \A n \in Required : g.tests[n] = "pass" /\ n \notin nonleaves(g)
    /\ \A n \in Seen(g) \ nonleaves(g) : n[1] \in protectedRoots => n \in Required

-----------------------------------------------------------------------------
(* Rust and Python: start, case and finish records *)

\* A Rust case must lie within the run; the finish totals must agree.
rustRecord(g, e) ==
    IF g.complete THEN Refused(g)
    ELSE IF e.action = "start" THEN
        IF g.started \/ Seen(g) # {} THEN Refused(g)
        ELSE [g EXCEPT !.started = TRUE]
    ELSE IF ~g.started THEN Refused(g)
    ELSE IF e.action \in {"fail", "skip"} THEN Refused(g)
    ELSE IF e.action = "pass" THEN
        IF g.tests[e.name] # "none" \/ e.name \notin Required \/ ~e.timed
        THEN Refused(g) ELSE [g EXCEPT !.tests[e.name] = "pass"]
    ELSE IF e.action = "finish" THEN
        IF e.cases # Cardinality(Seen(g)) \/ ~e.ok THEN Refused(g)
        ELSE [g EXCEPT !.complete = TRUE]
    ELSE Refused(g)

\* Python also refuses a partial run at its start record, a history whose
\* fingerprint is not the corpus's, and a case that ends after the run.
pythonRecord(g, e) ==
    IF g.complete THEN Refused(g)
    ELSE IF e.action = "start" THEN
        IF g.started \/ Seen(g) # {} \/ e.partial THEN Refused(g)
        ELSE [g EXCEPT !.started = TRUE]
    ELSE IF e.action = "pass" THEN
        IF \/ ~g.started \/ e.name \notin Required \/ g.tests[e.name] # "none"
           \/ ~e.timed \/ ~e.current
        THEN Refused(g)
        ELSE [g EXCEPT !.tests[e.name] = "pass"]
    ELSE IF e.action = "finish" THEN
        IF ~g.started \/ ~e.ok \/ e.cases # Cardinality(Seen(g))
        THEN Refused(g) ELSE [g EXCEPT !.complete = TRUE]
    ELSE Refused(g)

\* A gate that trusts the totals of the finish record.
casesAccept_Totals(g) == g.complete

\* checkRustReplay and checkPythonReplay after the loop.
casesAccept(g) == g.complete /\ \A n \in Required : g.tests[n] = "pass"

-----------------------------------------------------------------------------
(* TypeScript: the vitest JSON report, suite by suite *)

\* A name's first token is the base name of its suite's file.  A suite comes once
\* and has assertions; an assertion outside the inventory is only counted, unless
\* it replays a history.
typescriptRecord(g, e) ==
    IF e.action \in {"fail", "skip"} \/ g.complete THEN Refused(g)
    ELSE IF e.action = "start" THEN
        IF g.started THEN Refused(g) ELSE [g EXCEPT !.started = TRUE]
    ELSE IF ~g.started THEN Refused(g)
    ELSE IF e.action = "suite" THEN
        IF \/ ~e.timed
           \/ g.suites # <<>> /\ g.empty
           \/ \E k \in DOMAIN g.suites : g.suites[k] = e.file
        THEN Refused(g)
        ELSE [g EXCEPT !.suites = Append(@, e.file), !.empty = TRUE]
    ELSE IF e.action = "pass" THEN
        IF g.tests[e.name] # "none" \/ e.name \in Histories \ Required
        THEN Refused(g)
        ELSE [g EXCEPT !.tests[e.name] = "pass", !.empty = FALSE]
    ELSE IF e.action = "finish" THEN
        IF g.empty \/ e.cases # Cardinality(Seen(g)) \/ ~e.ok THEN Refused(g)
        ELSE [g EXCEPT !.complete = TRUE]
    ELSE Refused(g)

-----------------------------------------------------------------------------
(* The harness writes; the gate reads *)

record(g, e) == CASE language = "go" -> goRecord(g, e)
                  [] language = "rust" -> rustRecord(g, e)
                  [] language = "python" -> pythonRecord(g, e)
                  [] language = "typescript" -> typescriptRecord(g, e)

Accepts == ~gate.refused /\ (IF language = "go" THEN goAccepts(gate)
                             ELSE casesAccept(gate))

Read(e) == ~gate.refused /\ gate' = record(gate, e) /\ UNCHANGED language

Begin(partial) ==
    /\ Read([action |-> "start", partial |-> partial])
    /\ UNCHANGED <<passes, failed, ended>>

Progress(action, n) ==
    /\ language = "go"
    /\ Read([action |-> action, name |-> n])
    /\ UNCHANGED <<passes, failed, ended>>

\* vitest groups its assertions by test file.
Suite(file, timed) ==
    /\ language = "typescript"
    /\ Read([action |-> "suite", file |-> file, timed |-> timed])
    /\ UNCHANGED <<passes, failed, ended>>

Pass(n, timed, current) ==
    /\ passes[n] < MaxPasses
    /\ language = "typescript" => gate.suites # <<>> /\ n[1] = gate.suites[Len(gate.suites)]
    /\ Read([action |-> "pass", name |-> n, timed |-> timed, current |-> current])
    /\ passes' = [passes EXCEPT ![n] = @ + 1]
    /\ UNCHANGED <<failed, ended>>

Fail(action) ==
    /\ Read([action |-> action])
    /\ failed' = TRUE /\ UNCHANGED <<passes, ended>>

End(cases, ok) ==
    /\ Read([action |-> IF language = "go" THEN "package" ELSE "finish",
             cases |-> cases, ok |-> ok])
    /\ ended' = TRUE /\ UNCHANGED <<passes, failed>>

Next ==
    \/ \E b \in BOOLEAN : Begin(b)
    \/ \E a \in {"run", "pause", "cont"}, n \in Names : Progress(a, n)
    \/ \E n \in Names, timed \in BOOLEAN : Suite(n[1], timed)
    \/ \E n \in Names, timed, current \in BOOLEAN : Pass(n, timed, current)
    \/ \E a \in {"fail", "skip"} : Fail(a)
    \/ \E n \in 0..Cardinality(Names), ok \in BOOLEAN : End(n, ok)

-----------------------------------------------------------------------------
(* Properties *)

\* The names under which a gate tolerates nothing but the inventory: a protected
\* root's tests in Go, replayed histories in TypeScript, all cases elsewhere.
Guarded(n) ==
    IF language = "go" THEN n[1] \in protectedRoots
    ELSE language = "typescript" => n \in Histories

\* An accepted report shows the whole inventory: every required case has one
\* passing record, nothing failed or was skipped, the run was finished, and no
\* case that the gate guards lies outside the inventory; for Go, whose events
\* nest, no test was left running and none started under a finished parent.
AcceptedReportsAreComplete ==
    Accepts =>
        /\ \A n \in Required : passes[n] = 1
        /\ ~failed /\ ended
        /\ \A n \in Names : passes[n] > 0 /\ Guarded(n) =>
               \/ n \in Required
               \/ language = "go" /\ \E r \in Required : n \in ancestors(r)
        /\ \A n \in Names : gate.tests[n] \in {"none", "pass"}
=============================================================================
