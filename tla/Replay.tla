-------------------------------- MODULE Replay --------------------------------
(* The conformance replay of formal/replay: a coordinator that walks a recorded  *)
(* history, a native driver that runs its commands against a library, and the    *)
(* settlement ledger that tells a driver which has not settled from a library    *)
(* that behaves differently.  The driver and its library are external: a call    *)
(* starts a read, a read that was let through starts a source, and a settled     *)
(* source starts a write.                                                        *)
EXTENDS Integers, Sequences, FiniteSets, SequencesExt

CONSTANTS Profiles,       \* [name, history]: recorded sequences of actions
          SourceWorkMs,   \* the fixture's sourceWorkMs, 0 when it names none
          NoInputs        \* the driver has no reply to act on

VARIABLES profile,        \* the replayed history
          record,         \* whether divergences are recorded
          session,        \* [status, index]: the coordinator's session
          recording,      \* [divergences, lastStep, completed]
          refused,        \* why the session ended early, "" while it has not
          lastRequest,    \* ReplayCoordinator.#lastRequest
          ledger,         \* SettlementLedger
          driver,         \* the driver's controlled state and its library's
          inputs,         \* commands the driver was given and has yet to run
          library,        \* "correct", or "extra": starts a second source
          fault           \* what the driver did wrong, "" for nothing

replayVars == <<profile, record, session, recording, refused, lastRequest, ledger,
                driver, inputs, library, fault>>

Kinds == {"read", "write"}

-----------------------------------------------------------------------------
(* Bindings: the commands a profile's actions stand for, payloads left out *)

Hold(ks, on) == [op |-> "faults", hold |-> {<<k, on>> : k \in ks}]

\* The release of a held effect, the latest of its kind.
release(kind) == [op |-> "release", effect |-> kind]

\* The action tables of the feature profiles.  A command whose payload no rule of
\* the ledger reads (policy, invalidate, a probe) is "other".
profiles(action) ==
    CASE action = "beginCall" -> [op |-> "begin"]
      [] action \in {"resolveLoader", "rejectLoader"} -> [op |-> "settle"]
      [] action = "releaseRead" -> release("read")
      [] action = "releaseWrite" -> release("write")
      [] action = "advance" -> [op |-> "advance", ms |-> 10]
      [] action = "rollbackWall" -> [op |-> "shiftWall", ms |-> -1000]
      [] action \in {"openScope", "closeScope", "seed"} -> [op |-> action]
      [] action = "readFault" -> Hold({}, TRUE)
      [] action \in {"policy", "invalidate", "inspectCoalescing", "observeMarker"} ->
             [op |-> "other"]

\* A feature action is one command.
featureInput(action) == <<profiles(action)>>

\* effects: a release is wrapped in the fault it is to meet.
inputsFor(action) ==
    CASE action \in {"releaseRead", "failRead"} ->
             <<Hold({}, TRUE), release("read"), Hold({}, FALSE)>>
      [] action \in {"releaseWrite", "failWrite"} ->
             <<Hold({}, TRUE), release("write"), Hold({}, FALSE)>>
      [] action = "tick" -> <<[op |-> "advance", ms |-> 10]>>
      [] OTHER -> featureInput(action)

\* core: a one-millisecond wall step, then the action.
coreCommands(action) ==
    <<[op |-> "shiftWall", ms |-> 1],
      [op |-> IF action \in {"bumpSource", "invalidateRemote"} THEN "other" ELSE "begin"]>>

localClockInput(action) ==
    CASE action = "advanceTicks" -> <<[op |-> "advance", ms |-> 1]>>
      [] action = "constructInstance" -> <<[op |-> "other"]>>
      [] action = "call" -> <<[op |-> "begin"]>>

\* Hold changes after the setup: no profile's table has one, and the ledger has
\* to attribute or refuse them.
ScheduleInput(action) ==
    CASE action = "holdReads" -> <<Hold({"read"}, TRUE)>>
      [] action = "passReads" -> <<Hold({"read"}, FALSE)>>
      [] action = "beginThenPass" -> <<[op |-> "begin"], Hold({"read"}, FALSE)>>
      [] OTHER -> featureInput(action)

commands(name, action) ==
    CASE name = "features" -> featureInput(action)
      [] name = "schedule" -> ScheduleInput(action)
      [] name = "effects" -> inputsFor(action)
      [] name = "core" -> coreCommands(action)
      [] name = "local-clock" -> localClockInput(action)

setupFor(name) ==
    CASE name \in {"features", "schedule"} ->
             <<[op |-> "openScope"], [op |-> "seed"], Hold({"read"}, TRUE)>>
      [] name = "effects" -> <<Hold(Kinds, TRUE)>>
      [] OTHER -> <<>>

\* bindTrace: how a session's settlement is checked.
settlement(name) == CASE name \in {"features", "schedule", "effects"} -> "receipt"
                      [] name = "core" -> "wallClock"
                      [] name = "local-clock" -> "none"

-----------------------------------------------------------------------------
(* The driver and its library (external) *)

NewDriver == [reads |-> 0, writes |-> 0, loaders |-> 0, settled |-> 0,
              held |-> [k \in Kinds |-> 0], hold |-> [k \in Kinds |-> FALSE],
              runnable |-> <<>>, ms |-> 0, wallMs |-> 0, scopes |-> 0]

Counter(k) == IF k = "read" THEN "reads" ELSE "writes"

\* An effect starts: it parks on its gate, or goes on.
Start(d, k) ==
    LET begun == [d EXCEPT ![Counter(k)] = @ + 1]
    IN  IF d.hold[k] THEN [begun EXCEPT !.held[k] = @ + 1]
        ELSE [begun EXCEPT !.runnable = Append(@, k)]

\* One command.
Run(d, c) ==
    CASE c.op = "begin" -> [d EXCEPT !.runnable = Append(@, "call")]
      [] c.op = "release" -> [d EXCEPT !.held[c.effect] = @ - 1,
                                       !.runnable = Append(@, c.effect)]
      [] c.op = "settle" -> [d EXCEPT !.settled = @ + 1,
                                      !.runnable = Append(@, "source")]
      [] c.op = "advance" -> [d EXCEPT !.ms = @ + c.ms, !.wallMs = @ + c.ms]
      [] c.op = "shiftWall" -> [d EXCEPT !.wallMs = @ + c.ms]
      [] c.op = "openScope" -> [d EXCEPT !.scopes = @ + 1]
      [] c.op = "closeScope" -> [d EXCEPT !.scopes = @ - 1]
      [] c.op \in {"seed", "other"} -> d
      [] c.op = "faults" -> [d EXCEPT !.hold = [k \in Kinds |->
             IF \E b \in BOOLEAN : <<k, b>> \in c.hold
             THEN <<k, TRUE>> \in c.hold ELSE @[k]]]

\* A release or a settlement needs something to release or to settle.
Runs(d, c) ==
    /\ c.op = "release" => d.held[c.effect] > 0
    /\ c.op = "settle" => d.settled < d.loaders

\* One runnable task.  A source consumes the fixture's work on both clocks.
Work(d, lib) ==
    LET rest == [d EXCEPT !.runnable = Tail(@)]
        sources == IF lib = "extra" THEN 2 ELSE 1
        spent == sources * SourceWorkMs
    IN  CASE Head(d.runnable) = "call" -> Start(rest, "read")
          [] Head(d.runnable) = "read" ->
                 [rest EXCEPT !.loaders = @ + sources, !.ms = @ + spent,
                              !.wallMs = @ + spent]
          [] Head(d.runnable) = "source" -> Start(rest, "write")
          [] OTHER -> rest

RECURSIVE Drained(_, _)
Drained(d, lib) == IF d.runnable = <<>> THEN d ELSE Drained(Work(d, lib), lib)

Observed(d) == [reads |-> d.reads, writes |-> d.writes, loaders |-> d.loaders]

\* What the history predicts after its first n actions: the correct library,
\* drained after every action.
RECURSIVE Predicted(_, _)
Predicted(p, n) ==
    IF n = 0 THEN FoldLeft(Run, NewDriver, setupFor(p.name))
    ELSE Drained(FoldLeft(Run, Predicted(p, n - 1), commands(p.name, p.history[n])),
                 "correct")

-----------------------------------------------------------------------------
(* SettlementLedger *)

NewLedger == [hold |-> [k \in Kinds |-> FALSE], heldStarted |-> [k \in Kinds |-> 0],
              released |-> [k \in Kinds |-> 0], previous |-> [k \in Kinds |-> 0],
              settled |-> 0, advanceMs |-> 0, shiftWallMs |-> 0, openScopes |-> 0,
              effects |-> 0, attributable |-> TRUE]

Changes(l, c) == {k \in Kinds : <<k, ~l.hold[k]>> \in c.hold}

\* One command of issue(): a hold may change only before the interval's first
\* command that can start an effect.
issueOne(l, c) ==
    IF c.op = "faults" /\ Changes(l, c) # {} /\ l.effects > 0
    THEN [l EXCEPT !.attributable = FALSE]
    ELSE IF c.op = "faults"
    THEN [l EXCEPT !.hold = [k \in Kinds |->
             IF k \in Changes(l, c) THEN ~l.hold[k] ELSE l.hold[k]]]
    ELSE [l EXCEPT
        !.effects = IF c.op \in {"openScope", "seed"} THEN @ ELSE @ + 1,
        !.released = IF c.op = "release" THEN [@ EXCEPT ![c.effect] = @ + 1] ELSE @,
        !.settled = IF c.op = "settle" THEN @ + 1 ELSE @,
        !.advanceMs = IF c.op = "advance" THEN @ + c.ms ELSE @,
        !.shiftWallMs = IF c.op = "shiftWall" THEN @ + c.ms ELSE @,
        !.openScopes = CASE c.op = "openScope" -> @ + 1
                         [] c.op = "closeScope" -> @ - 1
                         [] OTHER -> @]

issue(l, cs) == FoldLeft(issueOne, l, cs)

\* expected(): effects started since the previous observation are held when
\* their kind's flag is on.
Attributed(l, o) ==
    [l EXCEPT !.heldStarted = [k \in Kinds |-> @[k] +
                  IF l.hold[k] THEN o[Counter(k)] - l.previous[k] ELSE 0],
              !.previous = [k \in Kinds |-> o[Counter(k)]],
              !.effects = 0]

workMs(o) == o.loaders * SourceWorkMs
WallClockHolds(l, o, d) == d.wallMs = l.advanceMs + l.shiftWallMs + workMs(o)

\* R2 quiescence, R3 monotonic clock, R4 wall clock, R5 held gates.
Settles(l, o, d) ==
    /\ d.runnable = <<>>
    /\ d.ms = l.advanceMs + workMs(o)
    /\ WallClockHolds(l, o, d)
    /\ \A k \in Kinds : d.held[k] = Attributed(l, o).heldStarted[k] - l.released[k]
    /\ d.loaders - d.settled = o.loaders - l.settled
    /\ d.scopes = l.openScopes

-----------------------------------------------------------------------------
(* The coordinator *)

Init ==
    /\ profile \in Profiles /\ record \in BOOLEAN
    /\ session = [status |-> "none", index |-> 0]
    /\ recording = [divergences |-> {}, lastStep |-> -1, completed |-> FALSE]
    /\ refused = "" /\ lastRequest = 0 /\ ledger = NewLedger
    /\ driver = NewDriver /\ inputs = NoInputs
    /\ library \in {"correct", "extra"} /\ fault = ""

\* prepare: the session, its ledger over the setup commands, and the fixture
\* and setup for the driver.
prepare ==
    /\ session.status = "none"
    /\ session' = [status |-> "open", index |-> 0]
    /\ lastRequest' = lastRequest + 1
    /\ ledger' = issue(NewLedger, setupFor(profile.name))
    /\ inputs' = setupFor(profile.name)
    /\ UNCHANGED <<profile, record, recording, refused, driver, library, fault>>

\* #finish(session, false, error).
Refuse(why) ==
    /\ session' = [session EXCEPT !.status = "failed"]
    /\ refused' = why
    /\ inputs' = NoInputs
    /\ UNCHANGED <<recording, ledger>>

\* Steps are numbered from 0, the initial observation after the setup.
Matches(index) == Observed(driver) = Observed(Predicted(profile, index))

\* The rest of observe once the comparison has passed or was recorded.
Advance(l, divergences) ==
    LET next == session.index + 1
        rec == [recording EXCEPT !.lastStep = session.index,
                                 !.divergences = divergences]
    IN  IF next > Len(profile.history)
        THEN /\ session' = [session EXCEPT !.status = "complete"]
             /\ recording' = [rec EXCEPT !.completed = TRUE]
             /\ inputs' = NoInputs /\ ledger' = l
             /\ UNCHANGED refused
        ELSE LET issued == issue(l, commands(profile.name, profile.history[next]))
             IN  IF ~issued.attributable
                 THEN /\ session' = [index |-> next, status |-> "failed"]
                      /\ recording' = rec /\ refused' = "ledger limit"
                      /\ inputs' = NoInputs /\ ledger' = l
                 ELSE /\ session' = [session EXCEPT !.index = next]
                      /\ recording' = rec /\ ledger' = issued
                      /\ inputs' = commands(profile.name, profile.history[next])
                      /\ UNCHANGED refused

\* The receipt is checked before the comparison; a core session, which has
\* none, is held to its wall clock; their commands are awaited.
SettlementHolds ==
    CASE settlement(profile.name) = "receipt" ->
             Settles(ledger, Observed(driver), driver)
      [] settlement(profile.name) = "wallClock" ->
             WallClockHolds(ledger, Observed(driver), driver)
      [] OTHER -> TRUE

\* A coordinator that compares first.
Judge_ComparesFirst ==
    IF ~Matches(session.index)
    THEN IF record
         THEN Advance(Attributed(ledger, Observed(driver)),
                      recording.divergences \cup {session.index})
         ELSE Refuse("mismatch")
    ELSE IF ~SettlementHolds THEN Refuse("settlement")
    ELSE Advance(Attributed(ledger, Observed(driver)), recording.divergences)

\* A well-formed observation of the expected step: settlement, then comparison;
\* a recording coordinator notes a divergence and goes on.
Judge ==
    IF ~SettlementHolds THEN Refuse("settlement")
    ELSE IF Matches(session.index)
    THEN Advance(Attributed(ledger, Observed(driver)), recording.divergences)
    ELSE IF record
    THEN Advance(Attributed(ledger, Observed(driver)),
                 recording.divergences \cup {session.index})
    ELSE Refuse("mismatch")

\* dispatch: request identifiers only grow.
dispatched(id) == id > lastRequest

\* observe: a repeated request is refused and leaves the session alone; a
\* repeated or skipped step, or a malformed record, ends it.
observe(id, index, wellFormed) ==
    /\ session.status = "open" /\ inputs = <<>>
    /\ settlement(profile.name) # "receipt" => driver.runnable = <<>>
    /\ IF ~dispatched(id)
       THEN UNCHANGED <<session, recording, refused, ledger, lastRequest, inputs>>
       ELSE /\ lastRequest' = id
            /\ IF index # session.index THEN Refuse("order")
               ELSE IF ~wellFormed THEN Refuse("malformed")
               ELSE Judge
    /\ fault' = IF ~dispatched(id) \/ index # session.index \/ ~wellFormed
                THEN "protocol"
                ELSE IF driver.runnable # <<>> THEN "unsettled" ELSE fault
    /\ UNCHANGED <<profile, record, driver, library>>

\* discard, or abort(): the driver could not run a command.
discard ==
    /\ session.status = "open"
    /\ inputs \notin {NoInputs, <<>>} /\ ~Runs(driver, Head(inputs))
    /\ lastRequest' = lastRequest + 1
    /\ Refuse("discarded")
    /\ UNCHANGED <<profile, record, driver, library, fault>>

-----------------------------------------------------------------------------
(* Driver steps *)

\* A faithful driver runs the command; a faulty one loses an advance of its
\* monotonic clock.
DriverRuns(lose) ==
    /\ inputs \notin {NoInputs, <<>>} /\ Runs(driver, Head(inputs))
    /\ lose => Head(inputs).op = "advance"
    /\ driver' = IF lose THEN [driver EXCEPT !.wallMs = @ + Head(inputs).ms]
                 ELSE Run(driver, Head(inputs))
    /\ inputs' = Tail(inputs)
    /\ fault' = IF lose THEN "unsettled" ELSE fault
    /\ UNCHANGED <<profile, record, session, recording, refused, lastRequest, ledger, library>>

\* Work becomes runnable with a command and may run before the next one.
DriverWorks ==
    /\ session.status = "open" /\ driver.runnable # <<>>
    /\ driver' = Work(driver, library)
    /\ UNCHANGED <<profile, record, session, recording, refused, lastRequest, ledger,
                   inputs, library, fault>>

Next ==
    \/ prepare \/ discard \/ DriverWorks
    \/ \E lose \in BOOLEAN : DriverRuns(lose)
    \/ \E id \in {lastRequest, lastRequest + 1},
          index \in {session.index, session.index + 1}, ok \in BOOLEAN :
              observe(id, index, ok)

-----------------------------------------------------------------------------
(* Properties *)

\* A divergence is evidence about the library: a driver that reports before its
\* work is done, or loses a clock advance, is refused by name and never earns
\* one (coordinator.mjs: "never earns comparison credit").  And a driver that
\* settles before it reports is never refused by the settlement contract, whatever
\* its library does: an extra source moves the counters, the ledger and the clocks
\* together (settlement.mjs: "passes here, and then fails the observation
\* comparison").
DivergenceMeansLibrary ==
    /\ recording.divergences # {} \/ refused = "mismatch" => library # "correct"
    /\ refused = "settlement" => fault # ""
=============================================================================
