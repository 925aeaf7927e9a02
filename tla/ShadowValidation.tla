-------------------------- MODULE ShadowValidation --------------------------
(***************************************************************************)
(* Detached shadow validation in one DialCache instance: admission, the    *)
(* deferred job, its Redis reads, the source value, the fill or comparison *)
(* and confirmation, the job's deadline, and the release of its slot.      *)
(*                                                                         *)
(* A job of kind "retained" validates a served Redis hit and calls the     *)
(* source itself; one of kind "redis" belongs to a ramped-down caller,     *)
(* reads Redis, and shares the caller's source call.  The bounded waits    *)
(* behave as BoundedWait promises: expired says that the job's deadline    *)
(* has passed, and its timer fires at some moment after that.  Payloads    *)
(* and source values are versions; the comparator tests them for equality. *)
(***************************************************************************)
EXTENDS Integers, FiniteSets

CONSTANTS
    Jobs, Keys, keyOf,      \* the candidates for validation and their keys
    shadowMaxInFlight,
    MaxVersion,             \* bound on the versions of the explored instance
    None

ASSUME ShadowValidationAssumption ==
    /\ IsFiniteSet(Jobs) /\ IsFiniteSet(Keys)
    /\ keyOf \in [Jobs -> Keys]
    /\ shadowMaxInFlight \in Nat \ {0}
    /\ MaxVersion \in Nat
    /\ None \notin Jobs /\ None \notin Nat

VARIABLES
    source,         \* version of the source of truth
    stored,         \* per key: version of the payload in Redis, or None
    shadowFlights,  \* per key: the job that holds its slot, or None
    pc, kind,       \* per job: control, and how it started
    cachedFrame,    \* per job: flight.cachedFrame
    sourceValue,    \* per job: the source's version it compares with or fills
    filling,        \* per job: the first read missed, so the job fills
    expired,        \* per job: its deadline has passed
    abandoned,      \* per job: flight.abandoned
    clientReads,    \* per job: its reads whose client operation has not settled
    reply,          \* per job: what Redis has answered to its read, as a set: {} before
    held,           \* per job, history: its frame has been in Redis since it learned
                    \* the source's value
    outcome         \* per job: the recorded verdict, or "none"

worldVars == <<source, stored>>
jobVars == <<pc, kind, cachedFrame, sourceValue, filling>>
readVars == <<clientReads, reply>>
vars == <<worldVars, shadowFlights, jobVars, expired, abandoned, readVars, held, outcome>>

Versions == 0..MaxVersion

Verdicts == {"dropped", "timeout", "redis_error", "source_error", "filled",
             "fill_fenced", "fill_error", "deserialization_error", "match",
             "comparison_error", "confirmation_error", "superseded", "mismatch"}

\* Where a job's operation can be; it has been admitted and has not returned.
Running == {"deferred", "read", "source", "yield", "fill", "write",
            "deserialize", "confirm"}

Init ==
    /\ source = 0
    /\ stored \in [Keys -> {0, None}]
    /\ shadowFlights = [k \in Keys |-> None]
    /\ pc = [j \in Jobs |-> "idle"]
    /\ kind = [j \in Jobs |-> None]
    /\ cachedFrame = [j \in Jobs |-> None]
    /\ sourceValue = [j \in Jobs |-> None]
    /\ filling = [j \in Jobs |-> FALSE]
    /\ expired = [j \in Jobs |-> FALSE]
    /\ abandoned = [j \in Jobs |-> FALSE]
    /\ clientReads = [j \in Jobs |-> {}]
    /\ reply = [j \in Jobs |-> {}]
    /\ held = [j \in Jobs |-> FALSE]
    /\ outcome = [j \in Jobs |-> "none"]

-----------------------------------------------------------------------------
(* The surroundings *)

Mutate ==
    /\ source < MaxVersion
    /\ source' = source + 1
    /\ UNCHANGED <<stored, shadowFlights, jobVars, expired, abandoned, readVars, outcome>>

\* Callers refill the key, other processes write or invalidate it, it expires.
StoredChanges(k) ==
    /\ stored' \in {[stored EXCEPT ![k] = v] : v \in {None} \cup 0..source}
    /\ UNCHANGED <<source, shadowFlights, jobVars, expired, abandoned, readVars, outcome>>

\* The deadline of a "redis" job runs from its admission, that of a "retained"
\* one from its deferred start.
DeadlinePasses(j) ==
    /\ pc[j] \in Running
    /\ kind[j] = "retained" => pc[j] # "deferred"
    /\ ~expired[j]
    /\ expired' = [expired EXCEPT ![j] = TRUE]
    /\ UNCHANGED <<worldVars, shadowFlights, jobVars, abandoned, readVars, outcome>>

-----------------------------------------------------------------------------
(* scheduleShadowValidation *)

InFlight == {k \in Keys : shadowFlights[k] # None}

\* The slot of the key is taken, or every slot is.
NoSlot(j) ==
    \/ shadowFlights[keyOf[j]] # None
    \/ Cardinality(InFlight) >= shadowMaxInFlight

Drop(j) ==
    /\ pc[j] = "idle"
    /\ NoSlot(j)
    /\ pc' = [pc EXCEPT ![j] = "done"]
    /\ outcome' = [outcome EXCEPT ![j] = "dropped"]
    /\ UNCHANGED <<worldVars, shadowFlights, kind, cachedFrame, sourceValue, filling,
                   expired, abandoned, readVars>>

\* A served hit is admitted with the frame that was served, a ramped-down call
\* without one.
Admit(j, start, frame) ==
    /\ pc[j] = "idle"
    /\ ~NoSlot(j)
    /\ frame # None <=> start = "retained"
    /\ pc' = [pc EXCEPT ![j] = "deferred"]
    /\ kind' = [kind EXCEPT ![j] = start]
    /\ cachedFrame' = [cachedFrame EXCEPT ![j] = frame]
    /\ shadowFlights' = [shadowFlights EXCEPT ![keyOf[j]] = j]
    /\ UNCHANGED <<worldVars, sourceValue, filling, expired, abandoned, readVars, outcome>>

-----------------------------------------------------------------------------
(* runShadowValidation *)

\* maybeRelease: the slot of j is given back when its operation has finished
\* and none of its reads is still open.
Release(j, finished, reads) ==
    shadowFlights' =
        IF finished /\ reads = {} /\ shadowFlights[keyOf[j]] = j
        THEN [shadowFlights EXCEPT ![keyOf[j]] = None] ELSE shadowFlights

\* The operation of j returns verdict o, with reads still open: finishOperation
\* runs, and the deadline records o, or a timeout if it has passed; a timeout
\* that is already recorded stays.
End(j, o, reads) ==
    /\ pc' = [pc EXCEPT ![j] = "done"]
    /\ kind' = [kind EXCEPT ![j] = None]
    /\ cachedFrame' = [cachedFrame EXCEPT ![j] = None]
    /\ sourceValue' = [sourceValue EXCEPT ![j] = None]
    /\ filling' = [filling EXCEPT ![j] = FALSE]
    /\ outcome' = [outcome EXCEPT ![j] = IF @ # "none" THEN @
                                         ELSE IF expired[j] THEN "timeout" ELSE o]
    /\ abandoned' = [abandoned EXCEPT ![j] = @ \/ expired[j]]
    /\ Release(j, TRUE, reads)
    /\ UNCHANGED <<source, expired>>

Finish(j, o, reads) ==
    /\ End(j, o, reads)
    /\ UNCHANGED stored

\* The operation goes on at p, its flight not abandoned.
Continue(j, p) ==
    /\ ~expired[j]
    /\ pc' = [pc EXCEPT ![j] = p]
    /\ UNCHANGED <<worldVars, shadowFlights, kind, expired, abandoned, outcome>>

\* The job's timer fires after its deadline: onTimeout abandons the flight and
\* the verdict is recorded, while the operation may go on.
OnTimeout(j) ==
    /\ pc[j] \in Running \ {"deferred"}
    /\ expired[j] /\ outcome[j] = "none"
    /\ abandoned' = [abandoned EXCEPT ![j] = TRUE]
    /\ cachedFrame' = [cachedFrame EXCEPT ![j] = None]
    /\ outcome' = [outcome EXCEPT ![j] = "timeout"]
    /\ UNCHANGED <<worldVars, shadowFlights, pc, kind, sourceValue, filling, expired,
                   readVars>>

\* The deferred job starts: it reads Redis, or calls the source for a retained
\* frame, or finds its budget spent.
Run(j) ==
    /\ pc[j] = "deferred"
    /\ \/ /\ kind[j] = "redis"
          /\ Continue(j, "read")
          /\ clientReads' = [clientReads EXCEPT ![j] = {"first"}]
          /\ UNCHANGED reply
          /\ UNCHANGED <<cachedFrame, sourceValue, filling>>
       \/ /\ kind[j] = "retained"
          /\ Continue(j, "source")
          /\ UNCHANGED <<cachedFrame, sourceValue, filling, readVars>>
       \/ /\ expired[j]
          /\ Finish(j, "timeout", clientReads[j])
          /\ UNCHANGED readVars

\* Redis executes the open read of j: it answers with the payload, or with a miss
\* when the frame is fenced or over the age the read allows.
Serve(j) ==
    /\ pc[j] \in {"read", "confirm"} /\ reply[j] = {}
    /\ \E r \in {stored[keyOf[j]], None} : reply' = [reply EXCEPT ![j] = {r}]
    /\ UNCHANGED <<worldVars, shadowFlights, jobVars, expired, abandoned, clientReads, outcome>>

\* The client operation of the read of j settles.
Settle(j) ==
    /\ clientReads' = [clientReads EXCEPT ![j] = {}]
    /\ reply' = [reply EXCEPT ![j] = {}]

\* The first read replies: with a frame to compare, or with nothing usable, in
\* which case the job fills.
ReadReplies(j) ==
    /\ pc[j] = "read"
    /\ Settle(j)
    /\ \/ /\ \E r \in reply[j] :
                /\ cachedFrame' = [cachedFrame EXCEPT ![j] = r]
                /\ filling' = [filling EXCEPT ![j] = r = None]
          /\ Continue(j, "source")
          /\ UNCHANGED sourceValue
       \/ /\ expired[j] /\ reply[j] # {}
          /\ Finish(j, "timeout", {})

\* A read's client operation rejects.
ReadRejects(j) ==
    /\ pc[j] \in {"read", "confirm"}
    /\ Settle(j)
    /\ Finish(j, IF pc[j] = "read" THEN "redis_error" ELSE "confirmation_error", {})

\* Faulty variant: a read that timed out counts as settled.
ReadTimesOut_Settles(j) ==
    /\ pc[j] \in {"read", "confirm"}
    /\ Finish(j, "redis_error", {})
    /\ UNCHANGED readVars

\* A read meets its own deadline; the client operation stays open.
ReadTimesOut(j) ==
    /\ pc[j] \in {"read", "confirm"}
    /\ Finish(j, IF pc[j] = "read" THEN "redis_error" ELSE "confirmation_error",
              clientReads[j])
    /\ UNCHANGED readVars

\* The client operation of a read that was given up settles.
ClientSettles(j) ==
    /\ pc[j] = "done" /\ clientReads[j] # {}
    /\ Settle(j)
    /\ Release(j, TRUE, {})
    /\ UNCHANGED <<worldVars, jobVars, expired, abandoned, outcome>>

\* The caller's source call fulfils before the timeout signal, and the job lets
\* the caller's continuation run first.
SharedSourceFulfils(j) ==
    /\ pc[j] = "source" /\ kind[j] = "redis"
    /\ outcome[j] = "none"
    /\ pc' = [pc EXCEPT ![j] = "yield"]
    /\ sourceValue' = [sourceValue EXCEPT ![j] = source]
    /\ UNCHANGED <<worldVars, shadowFlights, kind, cachedFrame, filling, expired,
                   abandoned, readVars, outcome>>

\* Faulty variant: the caller's source call is awaited without the signal.
SignalWins_Unraced(j) ==
    /\ pc[j] = "source" /\ kind[j] = "retained"
    /\ outcome[j] = "timeout"
    /\ Finish(j, "timeout", clientReads[j])
    /\ UNCHANGED readVars

\* The timeout signal wins the race against the caller's source call, which
\* goes on without the job.
SignalWins(j) ==
    /\ pc[j] = "source" /\ kind[j] = "redis"
    /\ outcome[j] = "timeout"
    /\ Finish(j, "timeout", clientReads[j])
    /\ UNCHANGED readVars

Yielded(j) ==
    /\ pc[j] = "yield"
    /\ \/ /\ Continue(j, IF filling[j] THEN "fill" ELSE "deserialize")
          /\ UNCHANGED <<cachedFrame, sourceValue, filling>>
       \/ expired[j] /\ Finish(j, "timeout", clientReads[j])
    /\ UNCHANGED readVars

\* The job's own source call, made outside the enabled region, fulfils.
OwnSourceFulfils(j) ==
    /\ pc[j] = "source" /\ kind[j] = "retained"
    /\ \/ /\ Continue(j, "deserialize")
          /\ sourceValue' = [sourceValue EXCEPT ![j] = source]
          /\ UNCHANGED <<cachedFrame, filling>>
       \/ expired[j] /\ Finish(j, "timeout", clientReads[j])
    /\ UNCHANGED readVars

\* The source rejects; the caller's loader may have met its own deadline.
SourceRejects(j) ==
    /\ pc[j] = "source"
    /\ \/ Finish(j, "source_error", clientReads[j])
       \/ kind[j] = "redis" /\ Finish(j, "timeout", clientReads[j])
    /\ UNCHANGED readVars

\* The fill is not dispatched: its timestamp does not clear the watermark the
\* read observed, shouldWrite refuses an expired job, or serialization throws.
FillEnds(j) ==
    /\ pc[j] = "fill"
    /\ \/ Finish(j, "fill_fenced", clientReads[j])
       \/ Finish(j, "fill_error", clientReads[j])
    /\ UNCHANGED readVars

\* Faulty variant: shouldWrite is not asked.
DispatchFill_Always(j) ==
    /\ pc[j] = "fill"
    /\ pc' = [pc EXCEPT ![j] = "write"]
    /\ UNCHANGED <<worldVars, shadowFlights, kind, cachedFrame, sourceValue, filling,
                   expired, abandoned, readVars, outcome>>

\* shouldWrite agrees and the SET is dispatched.
DispatchFill(j) ==
    /\ pc[j] = "fill"
    /\ Continue(j, "write")
    /\ UNCHANGED <<cachedFrame, sourceValue, filling, readVars>>

\* The SET has been applied, or fails and may have been.
WriteSettles(j) ==
    /\ pc[j] = "write"
    /\ LET written == [stored EXCEPT ![keyOf[j]] = sourceValue[j]]
       IN \/ stored' = written /\ End(j, "filled", clientReads[j])
          \/ stored' \in {stored, written} /\ End(j, "fill_error", clientReads[j])
    /\ UNCHANGED readVars

\* The serializer or the comparator fails.
CompareFails(j) ==
    /\ pc[j] = "deserialize"
    /\ \/ Finish(j, "deserialization_error", clientReads[j])
       \/ Finish(j, "comparison_error", clientReads[j])
    /\ UNCHANGED readVars

\* The decoded frame equals the source value, or the job has expired.
CompareEnds(j) ==
    /\ pc[j] = "deserialize"
    /\ expired[j] \/ cachedFrame[j] = sourceValue[j]
    /\ Finish(j, "match", clientReads[j])
    /\ UNCHANGED readVars

\* They differ, and the confirmation read is dispatched.
BeginConfirm(j) ==
    /\ pc[j] = "deserialize"
    /\ cachedFrame[j] # sourceValue[j]
    /\ Continue(j, "confirm")
    /\ clientReads' = [clientReads EXCEPT ![j] = {"confirm"}]
    /\ UNCHANGED <<reply, cachedFrame, sourceValue, filling>>

\* Faulty variant: any reply confirms.
ConfirmReplies_AnyFrame(j) ==
    /\ pc[j] = "confirm"
    /\ Settle(j)
    /\ Finish(j, "mismatch", {})

\* The confirmation read replies, with the frame it finds or a miss.
ConfirmReplies(j) ==
    /\ pc[j] = "confirm"
    /\ Settle(j)
    /\ \E r \in reply[j] :
          Finish(j, IF r = None \/ r # cachedFrame[j] THEN "superseded" ELSE "mismatch", {})

-----------------------------------------------------------------------------
\* The steps that the source of a ramped-down caller decides.
SharedSource(j) ==
    \/ SharedSourceFulfils(j)
    \/ kind[j] = "redis" /\ SourceRejects(j)

\* The steps that the job's own source call decides.
OwnSource(j) ==
    \/ OwnSourceFulfils(j)
    \/ kind[j] = "retained" /\ SourceRejects(j)

\* The steps of an admitted job that its instance, its Redis client, its
\* serializer and its comparator decide.
Steps(j) ==
    \/ Run(j) \/ Serve(j) \/ ReadReplies(j) \/ ReadRejects(j) \/ ReadTimesOut(j) \/ ClientSettles(j)
    \/ SignalWins(j) \/ Yielded(j)
    \/ FillEnds(j) \/ DispatchFill(j) \/ WriteSettles(j)
    \/ CompareFails(j) \/ CompareEnds(j) \/ BeginConfirm(j) \/ ConfirmReplies(j)

Observe ==
    held' = [j \in Jobs |-> /\ sourceValue'[j] # None /\ cachedFrame'[j] # None
                            /\ held[j] \/ stored'[keyOf[j]] = cachedFrame'[j]]

Next ==
    /\ \/ Mutate
       \/ \E k \in Keys : StoredChanges(k)
       \/ \E j \in Jobs :
             \/ Drop(j)
             \/ Admit(j, "redis", None)
             \/ \E v \in 0..source : Admit(j, "retained", v)
             \/ DeadlinePasses(j) \/ OnTimeout(j)
             \/ SharedSource(j) \/ OwnSource(j) \/ Steps(j)
    /\ Observe

Spec == Init /\ [][Next]_vars

\* Deadlines pass and their timers fire; client operations, serializers and
\* comparators settle.  Nothing is assumed of a source call, the job's own or
\* the one it shares with its caller.
Fairness ==
    \A j \in Jobs :
       /\ WF_vars(DeadlinePasses(j) /\ Observe)
       /\ WF_vars(OnTimeout(j) /\ Observe)
       /\ WF_vars(Steps(j) /\ Observe)

-----------------------------------------------------------------------------
(* Properties *)

\* Every variable has its type.
TypeOK ==
    /\ source \in Nat
    /\ stored \in [Keys -> Nat \cup {None}]
    /\ shadowFlights \in [Keys -> Jobs \cup {None}]
    /\ pc \in [Jobs -> Running \cup {"idle", "done"}]
    /\ kind \in [Jobs -> {"redis", "retained", None}]
    /\ cachedFrame \in [Jobs -> Nat \cup {None}]
    /\ sourceValue \in [Jobs -> Nat \cup {None}]
    /\ filling \in [Jobs -> BOOLEAN]
    /\ expired \in [Jobs -> BOOLEAN]
    /\ abandoned \in [Jobs -> BOOLEAN]
    /\ clientReads \in [Jobs -> SUBSET {"first", "confirm"}]
    /\ reply \in [Jobs -> SUBSET (Nat \cup {None})]
    /\ held \in [Jobs -> BOOLEAN]
    /\ outcome \in [Jobs -> Verdicts \cup {"none"}]

\* Work that an admitted job has started and that has not settled.
Unsettled(j) == pc[j] \in Running \/ clientReads[j] # {}

\* A job holds its key's slot from its admission until its operation has
\* returned and each of its client reads has settled, timeouts notwithstanding;
\* then nobody else's release can free a successor's slot.
SlotsAreExact ==
    /\ \A j \in Jobs : Unsettled(j) <=> shadowFlights[keyOf[j]] = j
    /\ \A k \in Keys : shadowFlights[k] # None => keyOf[shadowFlights[k]] = k

\* Unsettled shadow work, work after a timeout included, never exceeds
\* shadowMaxInFlight jobs.
CapacityBoundsWork ==
    Cardinality({j \in Jobs : Unsettled(j)}) <= shadowMaxInFlight

\* A slot stands for the work of one job and is held exactly as long, so the
\* slots that scheduleShadowValidation counts bound the work that is under way,
\* however late reads, sources and deadlines settle (release, maybeRelease).
SlotsBoundWork == SlotsAreExact /\ CapacityBoundsWork

\* An abandoned or finished job keeps no payload alive, however late its reads
\* and its source settle.
AbandonedRetainsNothing ==
    \A j \in Jobs : abandoned[j] \/ pc[j] = "done" => cachedFrame[j] = None

JobOK(j) ==
    /\ pc[j] = "idle" => /\ clientReads[j] = {} /\ reply[j] = {}
                         /\ cachedFrame[j] = None /\ outcome[j] = "none"
                         /\ ~expired[j] /\ ~abandoned[j]
    /\ abandoned[j] => expired[j]
    /\ pc[j] \in Running /\ outcome[j] # "none" => abandoned[j]
    /\ pc[j] \in {"yield", "fill", "write", "deserialize", "confirm"} =>
          sourceValue[j] # None
    /\ pc[j] \in Running \ {"read", "confirm"} => reply[j] = {}
    /\ pc[j] = "confirm" =>
          /\ cachedFrame[j] # sourceValue[j]
          /\ cachedFrame[j] # None /\ cachedFrame[j] \in reply[j] => held[j]

\* What carries the proofs: an unstarted job has left no trace; a job is abandoned
\* only past its deadline, and reported early only by abandoning it; a job that
\* compares or confirms knows the source's value; and an answer equal to its
\* frame was given after it did.
JobInv == \A j \in Jobs : JobOK(j)

\* A verdict is recorded once: a late completion does not change the timeout
\* that was reported for the job, nor does a late timer change its verdict.
OneVerdict ==
    [][\A j \in Jobs : outcome[j] # "none" => outcome'[j] = outcome[j]]_vars

\* A job whose timeout has been reported, or whose deadline has passed, does
\* not write to Redis any more.
NoFillAfterDeadline ==
    [][\A j \in Jobs : pc[j] # "write" /\ pc'[j] = "write" =>
          ~expired[j] /\ ~abandoned[j] /\ outcome[j] = "none"]_vars

\* A mismatch is reported only for a payload that was in Redis at some moment
\* after the job learned the source's value; a refill or an invalidation that
\* replaced it before is not taken for staleness.
MismatchIsConfirmed ==
    [][\A j \in Jobs : outcome[j] = "none" /\ outcome'[j] = "mismatch" =>
          /\ cachedFrame[j] # sourceValue[j]
          /\ held[j]]_vars

\* Every admitted job reports a verdict, whatever its source does; one that
\* shares its caller's source call also gives its slot back.
EveryJobEnds ==
    \A j \in Jobs :
       /\ pc[j] = "deferred" ~> outcome[j] # "none"
       /\ pc[j] = "deferred" /\ kind[j] = "redis" ~> shadowFlights[keyOf[j]] # j
=============================================================================
