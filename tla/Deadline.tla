------------------------------ MODULE Deadline ------------------------------
(***************************************************************************)
(* withMonotonicDeadline: a caller waits for an operation for at most      *)
(* timeoutMs of monotonic time.  Every bounded Redis read, every loader    *)
(* with a fallbackTimeoutMs and every shadow job runs under one of these.  *)
(*                                                                         *)
(* Time is counted in ticks, Res ticks to the millisecond, because         *)
(* performance.now() has fractions of a millisecond and setTimeout has     *)
(* not.  A timer may fire up to Early ticks before it is due, and any time *)
(* after it: the event loop may be busy.                                   *)
(***************************************************************************)
EXTENDS Integers

CONSTANTS
    timeout,        \* timeoutMs, in ticks; a shadow job may pass zero
    Res,            \* ticks per millisecond
    Early,          \* how far ahead of its due time a timer may fire
    MaxTime         \* bound of the explored instance

NoTime == -1        \* no timer armed, nothing settled

ASSUME DeadlineAssumption ==
    /\ timeout \in Nat /\ Res \in Nat \ {0} /\ Early \in Nat
    /\ MaxTime \in Nat

VARIABLES
    now,            \* performance.now(), relative to startedAtMs
    pc,             \* "start" until the promise executor has run, then "wait"
    operation,      \* "running", or how the operation settled
    timer,          \* due time of the armed timer, or NoTime
    outcome,        \* how the returned promise settled, or "none"
    settledAt,      \* history: when that was
    timeouts        \* how often onTimeout has been called

vars == <<now, pc, operation, timer, outcome, settledAt, timeouts>>

Init ==
    /\ now = 0
    /\ pc = "start"
    /\ operation = "running"
    /\ timer = NoTime
    /\ outcome = "none"
    /\ settledAt = NoTime
    /\ timeouts = 0

-----------------------------------------------------------------------------
Tick ==
    /\ now < MaxTime
    /\ now' = now + 1
    /\ UNCHANGED <<pc, operation, timer, outcome, settledAt, timeouts>>

\* The operation fulfils or rejects, whenever it likes.
OperationSettles ==
    /\ operation = "running"
    /\ operation' \in {"value", "error"}
    /\ UNCHANGED <<now, pc, timer, outcome, settledAt, timeouts>>

\* The ticks of Math.ceil(remainingMs) whole milliseconds.
ceil(ticks) == ((ticks + Res - 1) \div Res) * Res

scheduleTimer == timer' = now + ceil(timeout - now)

settle(o) ==
    /\ outcome' = o
    /\ settledAt' = now
    /\ timer' = NoTime

rejectTimeout == settle("timeout") /\ timeouts' = timeouts + 1

\* The promise executor, which runs after the start time was sampled.
Start ==
    /\ pc = "start"
    /\ pc' = "wait"
    /\ IF timeout - now <= 0 THEN rejectTimeout
       ELSE scheduleTimer /\ UNCHANGED <<outcome, settledAt, timeouts>>
    /\ UNCHANGED <<now, operation>>

\* Faulty variants: a timer that fires is believed; an early one is not armed
\* again.
onTimer_Believed ==
    /\ timer # NoTime /\ now >= timer - Early
    /\ rejectTimeout
    /\ UNCHANGED <<now, pc, operation>>
onTimer_Forgets ==
    /\ timer # NoTime /\ now >= timer - Early
    /\ IF timeout - now > 0
       THEN timer' = NoTime /\ UNCHANGED <<outcome, settledAt, timeouts>>
       ELSE rejectTimeout
    /\ UNCHANGED <<now, pc, operation>>

\* The timer fires.  clearTimeout has removed it if the wait is over.
onTimer ==
    /\ timer # NoTime /\ now >= timer - Early
    /\ IF timeout - now > 0
       THEN scheduleTimer /\ UNCHANGED <<outcome, settledAt, timeouts>>
       ELSE rejectTimeout
    /\ UNCHANGED <<now, pc, operation>>

\* Faulty variant: a late outcome is delivered.
settleBeforeDeadline_Late ==
    /\ pc = "wait" /\ operation # "running"
    /\ outcome = "none"
    /\ settle(operation)
    /\ UNCHANGED <<now, pc, operation, timeouts>>

\* The reaction to the operation's promise.
settleBeforeDeadline ==
    /\ pc = "wait" /\ operation # "running"
    /\ outcome = "none"
    /\ IF now >= timeout THEN rejectTimeout
       ELSE settle(operation) /\ UNCHANGED timeouts
    /\ UNCHANGED <<now, pc, operation>>

Next == Tick \/ OperationSettles \/ Start \/ onTimer \/ settleBeforeDeadline

Spec == Init /\ [][Next]_vars

\* Time passes, and the event loop runs the executor and the timers that are
\* due.  Nothing is assumed of the operation.
FairSpec ==
    /\ Spec
    /\ WF_vars(Tick) /\ WF_vars(Start) /\ WF_vars(onTimer)
    /\ WF_vars(settleBeforeDeadline)

-----------------------------------------------------------------------------
(* Properties *)

\* Every variable has its type.
TypeOK ==
    /\ now \in Nat
    /\ pc \in {"start", "wait"}
    /\ operation \in {"running", "value", "error"}
    /\ timer \in Nat \cup {NoTime}
    /\ outcome \in {"none", "value", "error", "timeout"}
    /\ settledAt \in Nat \cup {NoTime}
    /\ timeouts \in Nat

\* The wait ends with the operation's own outcome strictly before timeoutMs has
\* elapsed, and with a timeout at or after it, whatever the timers do.
DeadlineIsExact ==
    /\ outcome \in {"value", "error"} => settledAt < timeout /\ outcome = operation
    /\ outcome = "timeout" => settledAt >= timeout

\* Exactly one timer is armed while the caller waits, and none afterwards; the
\* cancellation callback runs once for a timeout and never otherwise.
TimerFollowsWait ==
    /\ pc = "wait" => (timer # NoTime <=> outcome = "none")
    /\ timeouts = IF outcome = "timeout" THEN 1 ELSE 0

\* The timer is never due earlier than the deadline, nor a whole millisecond
\* or more after it.
TimerIsTight ==
    timer # NoTime => timeout <= timer /\ timer < timeout + Res

Abstract == INSTANCE BoundedWait WITH expired <- now >= timeout

\* withMonotonicDeadline implements the wait its callers rely on.
ImplementsBoundedWait == Abstract!Spec

\* The caller's wait ends even if the operation never settles.
WaitEnds == <>(outcome # "none")
=============================================================================
