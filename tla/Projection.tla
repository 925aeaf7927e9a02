----------------------------- MODULE Projection -----------------------------
(* formal/replay: how what a driver observed becomes the record a history is     *)
(* compared with.  The journal of events is split into the channels a profile    *)
(* compares; an observation that is no evidence about the library (malformed) is *)
(* kept apart from one that contradicts the profile (domain).                    *)
EXTENDS Naturals, Sequences, FiniteSets, SequencesExt

CONSTANTS Profiles,     \* the profiles' flags, and the events they observe
          Outcomes,     \* what the calls and the comparisons came to
          MaxEvents     \* bound on each journal

VARIABLES profile,
          outcome,      \* [calls, ages]: the callers' outcomes, and the verdicts
                        \* an age is observed for
          history,      \* the journal the model's text predicts
          journal       \* the journal the driver observed

projectionVars == <<profile, outcome, history, journal>>

\* An event: its kind, whether its fields have their types, its labels are the
\* fixture's and its values are in their domain, its detail and its amount.
Event(kind) ==
    [event : {kind}, shape : BOOLEAN, labels : BOOLEAN, domain : BOOLEAN,
     detail : CASE kind = "error" -> {"fallback", "config_resolution", "cache_read"}
                [] kind \in {"shadowAge", "recoveryAge"} -> {"match", "mismatch"}
                [] OTHER -> {""},
     n : CASE kind \in {"readContext", "readAbort"} -> 0..1 [] OTHER -> {0}]

Unlabelled == {"readContext", "readAbort", "marker", "writeDispatch", "coalescingState"}

\* At most one thing is wrong with an observed event, and it is one its kind has:
\* no field of an error that is not a loader's is looked at by its type.
Emitted(kind) ==
    {e \in Event(kind) :
        /\ Cardinality({f \in {"shape", "labels", "domain"} : ~e[f]}) <= 1
        /\ kind \in Unlabelled => e.labels
        /\ e.detail \in {"config_resolution", "cache_read"} => e.shape}
Sound(e) == e.shape /\ e.labels /\ e.domain

-----------------------------------------------------------------------------
(* Callers *)

\* project: a caller's outcome as the shared observation code.
projectCall(call) ==
    CASE call = "pending" -> 0 [] call = "one" -> 1 [] call = "two" -> 2
      [] call = "source" -> 3 [] call = "timeout" -> 4 [] OTHER -> 10

\* The effects profile has codes of its own, which the driver's callers are given
\* directly and the text's shared codes are translated to; a code without a
\* translation is refused with the history.
projectEffectsCall(call) ==
    CASE call = "pending" -> 0 [] call = "one" -> 1
      [] call = "source" -> 2 [] call = "timeout" -> 3 [] OTHER -> 4
sharedToEffectsCode == {<<0, 0>>, <<1, 1>>, <<3, 2>>, <<4, 3>>}
composedExpected(call) ==
    {t[2] : t \in {u \in sharedToEffectsCode : u[1] = projectCall(call)}}

-----------------------------------------------------------------------------
(* Channels *)

Channels == {"policyErrors", "markers", "compression", "budgets", "aborted", "ages",
             "coalesced", "fallbackErrors", "inspections", "futureOffsets",
             "configErrors", "warnings", "loggingOutcomes", "trail", "rest"}
Empty == [verdict |-> "ok", channel |-> [c \in Channels |-> <<>>]]

\* The first error or failed assertion ends the projection.
Raise(acc, why) == [acc EXCEPT !.verdict = why]
Put(acc, c, e) == [acc EXCEPT !.channel[c] = Append(@, e)]
Over(events, one(_, _)) ==
    FoldLeft(LAMBDA acc, e : IF acc.verdict = "ok" THEN one(acc, e) ELSE acc,
             Empty, events)
Labelled(acc, e, c) ==
    IF e.labels /\ e.domain THEN Put(acc, c, e) ELSE Raise(acc, "domain")

\* policyErrorIO: the config errors without a layer; other errors are another
\* profile's.
policyEvent(acc, e) ==
    IF e.event = "error" /\ e.detail = "config_resolution"
    THEN Labelled(acc, e, "policyErrors") ELSE acc

\* markerIO and compressionIO take their own events out of the journal.
markerEvent(p, acc, e) ==
    CASE e.event = "compression" /\ "compressionIO" \in p.flags ->
             IF ~e.labels THEN Raise(acc, "domain")
             ELSE IF ~e.shape THEN Raise(acc, "malformed")
             ELSE IF e.domain THEN Put(acc, "compression", e) ELSE Raise(acc, "domain")
      [] e.event = "marker" /\ "markerIO" \in p.flags ->
             IF e.shape THEN Put(acc, "markers", e) ELSE Raise(acc, "malformed")
      [] OTHER -> Put(acc, "rest", e)

\* readIO: the reads' budgets in the order of their start, and the aborted ones;
\* what is left goes to the diagnostics, where the profile has them.
readEvent(p, acc, e) ==
    IF e.event = "readContext" THEN
        IF e.n # Len(acc.channel.budgets) \/ ~e.domain THEN Raise(acc, "domain")
        ELSE IF e.shape THEN Put(acc, "budgets", e) ELSE Raise(acc, "malformed")
    ELSE IF e.event = "readAbort" THEN
        IF e.shape THEN Put(acc, "aborted", e) ELSE Raise(acc, "malformed")
    ELSE IF p.age # "" THEN Put(acc, "rest", e)
    ELSE Raise(acc, IF e.shape THEN "domain" ELSE "malformed")

\* A diagnostic event is held to its type; where the profile declares a domain, to
\* that as well, else its value is left to the comparison.
Typed(acc, e, c) == IF e.shape THEN Put(acc, c, e) ELSE Raise(acc, "malformed")
Declared(acc, e, c) == IF e.domain THEN Typed(acc, e, c) ELSE Raise(acc, "domain")

\* A warning must be of a mismatch; where the profile logs warnings its record is
\* compared, elsewhere it is only counted.
Counted(p, e) == e.event = "mismatchWarning" /\ "warnings" \notin p.flags
projectWarning(p, acc, e) ==
    Declared(acc, IF Counted(p, e) THEN [e EXCEPT !.shape = TRUE] ELSE e, "warnings")

\* An age is that of the next verdict.
ageEvent(p, ages, acc, e) ==
    LET k == Len(acc.channel.ages) + 1 IN
    IF e.event # p.age \/ k > Len(ages) THEN Raise(acc, "domain")
    ELSE IF e.detail # ages[k] THEN Raise(acc, "domain")
    ELSE IF e.shape THEN Put(acc, "ages", e) ELSE Raise(acc, "malformed")

labelledEvent(p, ages, acc, e) ==
    IF ~e.labels THEN Raise(acc, "domain")
    ELSE IF e.event = "coalesced" THEN Typed(acc, e, "coalesced")
    ELSE IF e.event = "error" THEN Declared(acc, e, "fallbackErrors")
    ELSE IF e.event = "futureOffset" /\ "futureOffsets" \in p.flags THEN
        Declared(acc, e, "futureOffsets")
    ELSE IF e.event = "mismatchWarning" THEN projectWarning(p, acc, e)
    ELSE IF e.event = "shadowMismatchLogging" /\ "warnings" \in p.flags THEN
        Typed(acc, e, "loggingOutcomes")
    ELSE ageEvent(p, ages, acc, e)

\* A projection that leaves every error to the effects profile.
diagnosticEvent_NoErrors(p, ages, acc, e) ==
    IF e.event = "coalescingState" /\ "inspections" \in p.flags
    THEN IF e.shape THEN Put(acc, "inspections", e) ELSE Raise(acc, "malformed")
    ELSE IF e.event = "error" THEN acc
    ELSE labelledEvent(p, ages, acc, e)

\* The errors of other layers are the effects profile's.
diagnosticEvent(p, ages, acc, e) ==
    IF e.event = "coalescingState" /\ "inspections" \in p.flags THEN
        IF e.shape THEN Put(acc, "inspections", e) ELSE Raise(acc, "malformed")
    ELSE IF /\ e.event = "error" /\ e.detail = "config_resolution"
            /\ "configErrors" \in p.flags
    THEN Labelled(acc, e, "configErrors")
    ELSE IF e.event = "error" /\ e.detail # "fallback" THEN acc
    ELSE labelledEvent(p, ages, acc, e)

\* effects: the complete trail but for the reads, which have their own lists.
projectEvents(acc, e) ==
    IF e.event = "readContext" THEN Put(acc, "budgets", e)
    ELSE IF e.event = "readAbort" THEN Put(acc, "aborted", e)
    ELSE IF e.event # "writeDispatch" /\ (~e.labels \/ ~e.domain) THEN Raise(acc, "domain")
    ELSE IF e.shape THEN Put(acc, "trail", e) ELSE Raise(acc, "malformed")

\* One projection's channels, then those of the events it left.
Then(first, next(_)) ==
    IF first.verdict # "ok" THEN first
    ELSE LET second == next(first.channel.rest) IN
         [second EXCEPT !.channel = [c \in Channels |->
             IF c = "rest" THEN <<>> ELSE first.channel[c] \o second.channel[c]]]

projectBaseObservation(p, ages, events) ==
    LET diagnosed(left) ==
            IF p.age = "" THEN Empty
            ELSE Over(left, LAMBDA acc, e : diagnosticEvent(p, ages, acc, e))
    IN  IF "readIO" \in p.flags
        THEN Then(Over(events, LAMBDA acc, e : readEvent(p, acc, e)), diagnosed)
        ELSE diagnosed(events)

projectObservation(p, ages, events) ==
    IF "effects" \in p.flags THEN Over(events, projectEvents)
    ELSE IF "policyErrorIO" \in p.flags THEN Over(events, policyEvent)
    ELSE IF {"markerIO", "compressionIO"} \cap p.flags # {} THEN
        Then(Over(events, LAMBDA acc, e : markerEvent(p, acc, e)),
             LAMBDA left : projectBaseObservation(p, ages, left))
    ELSE projectBaseObservation(p, ages, events)

\* readIO: what a history's read channel must satisfy to be replayed at all.
readIO(channel) ==
    LET aborted == [k \in DOMAIN channel.aborted |-> channel.aborted[k].n] IN
    /\ \A k \in DOMAIN aborted : aborted[k] < Len(channel.budgets)
    /\ IsInjective(aborted)

-----------------------------------------------------------------------------

Init ==
    /\ profile \in Profiles /\ outcome \in Outcomes
    /\ history = <<>> /\ journal = <<>>

\* The model's text reaches another state: it records sound events only.
Predict(e) ==
    /\ Len(history) < MaxEvents /\ journal = <<>> /\ Sound(e)
    /\ history' = Append(history, e)
    /\ UNCHANGED <<profile, outcome, journal>>

\* The driver observes another event.
Observe(e) ==
    /\ Len(journal) < MaxEvents
    /\ journal' = Append(journal, e)
    /\ UNCHANGED <<profile, outcome, history>>

Next ==
    \E kind \in profile.observe : \E e \in Emitted(kind) : Predict(e) \/ Observe(e)

-----------------------------------------------------------------------------

Of(kind, events) == SelectSeq(events, LAMBDA e : e.event = kind)
With(detail, events) == SelectSeq(events, LAMBDA e : e.detail = detail)

\* What the projections leave to another profile on purpose: errors a profile does
\* not select.
Selected(p, e) ==
    e.event = "error" =>
       \/ "effects" \in p.flags
       \/ e.detail = "fallback" /\ "policyErrorIO" \notin p.flags
       \/ /\ e.detail = "config_resolution"
          /\ {"configErrors", "policyErrorIO"} \cap p.flags # {}
Compared(p, events) ==
    SelectSeq([k \in DOMAIN events |-> IF Counted(p, events[k])
                                       THEN [events[k] EXCEPT !.shape = TRUE] ELSE events[k]],
              LAMBDA e : Selected(p, e))

\* A comparison of projections is a comparison of journals ("Never discard or
\* reorder entries in an event journal"): an observation that equals what the
\* history predicts has, kind by kind, the history's events in the history's
\* order (an error's kind is what failed), and every abort is of a read that was
\* started.  An observation whose fields have their types is never called malformed,
\* so that a library's wrong value stays evidence ("semantic failures").  And the two
\* tables of caller codes agree: the effects profile asks of a driver what its text
\* recorded.
ProjectionLosesNothing ==
    LET actual == projectObservation(profile, outcome.ages, journal)
        expected == projectObservation(profile, outcome.ages, history)
        observed == Compared(profile, journal)
        predicted == Compared(profile, history) IN
    /\ (\A k \in DOMAIN journal : journal[k].shape) => actual.verdict # "malformed"
    /\ expected.verdict = "ok" /\ readIO(expected.channel) /\ actual = expected =>
          /\ \A kind \in profile.observe \ {"error"} :
                Of(kind, observed) = Of(kind, predicted)
          /\ \A detail \in {"fallback", "config_resolution", "cache_read"} :
                With(detail, observed) = With(detail, predicted)
          /\ \A k \in DOMAIN Of("readAbort", journal) :
                Of("readAbort", journal)[k].n < Len(Of("readContext", journal))
    /\ \A k \in DOMAIN outcome.calls :
          composedExpected(outcome.calls[k]) \subseteq {projectEffectsCall(outcome.calls[k])}
=============================================================================
