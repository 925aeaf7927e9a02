---------------------------- MODULE BoundedWait -----------------------------
(***************************************************************************)
(* What a caller of withMonotonicDeadline may rely on: the wait ends once, *)
(* with the operation's own outcome while the deadline has not passed, and *)
(* with a timeout once it has, never the other way round.                  *)
(***************************************************************************)

VARIABLES
    operation,      \* "running", or how the bounded operation settled
    expired,        \* the deadline has passed
    outcome         \* what the caller got, or "none"

vars == <<operation, expired, outcome>>

Outcomes == {"value", "error"}

Init ==
    /\ operation = "running"
    /\ expired \in BOOLEAN
    /\ outcome = "none"

\* The operation settles, in time or late; the wait does not own it.
OperationSettles ==
    /\ operation = "running"
    /\ operation' \in Outcomes
    /\ UNCHANGED <<expired, outcome>>

DeadlinePasses ==
    /\ ~expired
    /\ expired' = TRUE
    /\ UNCHANGED <<operation, outcome>>

DeliverOutcome ==
    /\ outcome = "none"
    /\ operation \in Outcomes
    /\ ~expired
    /\ outcome' = operation
    /\ UNCHANGED <<operation, expired>>

DeliverTimeout ==
    /\ outcome = "none"
    /\ expired
    /\ outcome' = "timeout"
    /\ UNCHANGED <<operation, expired>>

Next == OperationSettles \/ DeadlinePasses \/ DeliverOutcome \/ DeliverTimeout

Spec == Init /\ [][Next]_vars
=============================================================================
