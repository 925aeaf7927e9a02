--------------------------- MODULE MCServingChain ---------------------------
(* TLC instances of ServingChain. *)
EXTENDS ServingChain, TLC

CONSTANTS c1, c2, c3

Config(requestLocal, coalesce, loc, remote) ==
    [requestLocal |-> requestLocal, coalesce |-> coalesce, local |-> loc,
     remote |-> remote]

\* Every call is made by the application.
NoParents == [c \in Calls |-> None]

\* The loader of c1 calls the same key.
Reentrant == [c \in Calls |-> IF c = c2 THEN c1 ELSE None]

\* Every layer on.
AllLayers == {Config(TRUE, TRUE, TRUE, "enabled")}

\* Coalesced local calls, with or without the request-local memo.
Coalesced ==
    {Config(TRUE, TRUE, TRUE, "disabled"), Config(FALSE, TRUE, TRUE, "disabled")}

\* Runtime changes while calls are under way: the layers, the memo and
\* coalescing are dialled up, down and off, or the remote config fails.
Dialled ==
    {Config(FALSE, TRUE, TRUE, "enabled"), Config(FALSE, TRUE, FALSE, "enabled"),
     Config(FALSE, FALSE, TRUE, "enabled"), Config(FALSE, TRUE, TRUE, "config_error"),
     Config(FALSE, TRUE, TRUE, "disabled"), Config(TRUE, TRUE, FALSE, "ramped_down"),
     Config(TRUE, FALSE, FALSE, "disabled")}

\* Calls that nobody else refers to are interchangeable, and so are scopes.
Symmetry == Permutations(Calls) \cup Permutations(Scopes)
=============================================================================
