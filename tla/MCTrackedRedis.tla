--------------------------- MODULE MCTrackedRedis ---------------------------
(* TLC instances of TrackedRedis. *)
EXTENDS TrackedRedis, TLC

\* Invocations are interchangeable, and so are invalidators.
Symmetry == Permutations(Ops) \cup Permutations(Invalidators)

\* Redis starts empty.
EmptyValue == {NoFrame}
EmptyWatermark == {NoWatermark}

\* Redis starts with bytes DialCache cannot use under either key: a frame of
\* another format version, a frame stamped zero; a string that is no number,
\* with and without expiry, a key of another type, and persistent watermarks in
\* the past and further ahead than an invalidation may ask for.
ForeignValues ==
    {[NoFrame EXCEPT !.kind = "unsupported", !.exp = MaxTime],
     [NoFrame EXCEPT !.kind = "frame", !.exp = MaxTime]}
ForeignWatermarks ==
    {[kind |-> "malformed", ms |-> 0, exp |-> NoExpiry],
     [kind |-> "malformed", ms |-> 0, exp |-> MaxTime],
     [kind |-> "wrongtype", ms |-> 0, exp |-> NoExpiry],
     [kind |-> "valid", ms |-> 1, exp |-> NoExpiry],
     [kind |-> "valid", ms |-> 6, exp |-> NoExpiry]}
=============================================================================
