------------------------------ MODULE Regions ------------------------------
(* Nested enable() and disable() regions (context.ts) and the memo of the     *)
(* request they belong to, as the calls made inside them see it.              *)
(* A region is the asynchronous context one enable() or disable() callback    *)
(* runs in.  Work it starts keeps the context after the callback settled, so  *)
(* regions are opened from, and calls are made in, contexts that are over.    *)
(* A holder is named by the region whose enable() created it.                 *)
EXTENDS Naturals, FiniteSets

CONSTANTS RegionIds,    \* enable() and disable() callbacks
          Callers,      \* cached calls
          Nowhere       \* outside every region; no holder; no value

ContextStores == [enabled : BOOLEAN, holder : RegionIds \cup {Nowhere}]

ASSUME RegionsAssumption ==
    Nowhere \notin RegionIds \cup Callers \cup ContextStores

VARIABLES store,        \* region -> its ContextStore, or Nowhere
          under,        \* region -> the context it was opened from
          closedHolder, \* holders whose outermost callback settled
          requestMemo,  \* holder -> the call that loaded the memoized value
          stage,        \* call -> where it is in executeCacheOperation
          madeIn,       \* call -> the context it was made in
          memoOf,       \* call -> the RequestLocalCache it holds
          returned      \* call -> the call whose load it returned

regionVars == <<store, under, closedHolder>>
callerVars == <<requestMemo, stage, madeIn, memoOf, returned>>
regionsVars == <<regionVars, callerVars>>

Opened == {r \in RegionIds : store[r] # Nowhere}
Contexts == Opened \cup {Nowhere}

RegionsInit ==
    /\ store = [r \in RegionIds |-> Nowhere]
    /\ under = [r \in RegionIds |-> Nowhere]
    /\ closedHolder = {}
    /\ requestMemo = [h \in RegionIds |-> Nowhere]
    /\ stage = [c \in Callers |-> "idle"]
    /\ madeIn = [c \in Callers |-> Nowhere]
    /\ memoOf = [c \in Callers |-> Nowhere]
    /\ returned = [c \in Callers |-> Nowhere]

liveHolder(x) ==
    IF x \in Opened /\ store[x].holder # Nowhere
       /\ store[x].holder \notin closedHolder
    THEN store[x].holder ELSE Nowhere

isEnabled(x) == x \in Opened /\ store[x].enabled /\ liveHolder(x) # Nowhere

run(x, r, s) ==
    /\ x \in Contexts /\ r \in RegionIds \ Opened
    /\ store' = [store EXCEPT ![r] = s]
    /\ under' = [under EXCEPT ![r] = x]
    /\ UNCHANGED <<closedHolder, callerVars>>

\* enable() in context x: joins the live holder, or creates its own.
enable(x, r) ==
    run(x, r, [enabled |-> TRUE,
               holder |-> IF liveHolder(x) # Nowhere THEN liveHolder(x) ELSE r])

\* A disable() that forgets the request it is nested in.
disable_Forgets(x, r) == run(x, r, [enabled |-> FALSE, holder |-> Nowhere])

\* disable() in context x keeps the live holder for enable() calls inside it.
disable(x, r) == run(x, r, [enabled |-> FALSE, holder |-> liveHolder(x)])

IsOutermost(r) == r \in Opened /\ store[r].holder = r

\* The callback of an outermost enable() settles.
runOutermost(r) ==
    /\ IsOutermost(r) /\ r \notin closedHolder
    /\ closedHolder' = closedHolder \cup {r}
    /\ requestMemo' = [requestMemo EXCEPT ![r] = Nowhere]
    /\ UNCHANGED <<store, under, stage, madeIn, memoOf, returned>>

\* A call in context x: pass-through unless x is enabled, else the key config
\* is fetched.
Call(c, x) ==
    /\ stage[c] = "idle" /\ x \in Contexts
    /\ madeIn' = [madeIn EXCEPT ![c] = x]
    /\ stage' = [stage EXCEPT ![c] = IF isEnabled(x) THEN "config" ELSE "load"]
    /\ UNCHANGED <<regionVars, requestMemo, memoOf, returned>>

\* The config is there: the region is checked again, and a policy with
\* requestLocal reads the memo that getOrCreateRequestLocalCache returns.
Configured(c, requestLocal) ==
    /\ stage[c] = "config"
    /\ LET h == IF requestLocal /\ isEnabled(madeIn[c])
                THEN liveHolder(madeIn[c]) ELSE Nowhere
           v == IF h = Nowhere THEN Nowhere ELSE requestMemo[h]
       IN  /\ memoOf' = [memoOf EXCEPT ![c] = h]
           /\ returned' = [returned EXCEPT ![c] = v]
           /\ stage' = [stage EXCEPT ![c] =
                            IF v = Nowhere THEN "load" ELSE "done"]
    /\ UNCHANGED <<regionVars, requestMemo, madeIn>>

\* The load settles; the value is memoized unless the memo closed meanwhile.
Loaded(c) ==
    /\ stage[c] = "load"
    /\ stage' = [stage EXCEPT ![c] = "done"]
    /\ returned' = [returned EXCEPT ![c] = c]
    /\ requestMemo' = [h \in RegionIds |->
                         IF h = memoOf[c] /\ h \notin closedHolder
                         THEN c ELSE requestMemo[h]]
    /\ UNCHANGED <<regionVars, madeIn, memoOf>>

RegionsNext ==
    \/ \E r \in RegionIds : runOutermost(r)
    \/ \E r \in RegionIds, x \in Contexts : enable(x, r) \/ disable(x, r)
    \/ \E c \in Callers : \/ \E x \in Contexts : Call(c, x)
                          \/ \E b \in BOOLEAN : Configured(c, b)
                          \/ Loaded(c)

RegionsSpec == RegionsInit /\ [][RegionsNext]_regionsVars

-----------------------------------------------------------------------------
(* Properties *)

\* x and the regions it was opened in, one inside the other: the least set that
\* holds x and, with a region, the region it was opened from.
Upward(S) == \A y \in S : under[y] \in S \cup {Nowhere}
AroundOf(x) ==
    {r \in RegionIds :
        \A S \in SUBSET RegionIds : x \in S /\ Upward(S) => r \in S}

\* The requests that are still open around x.
RequestsOpenAround(x) ==
    {r \in AroundOf(x) : IsOutermost(r) /\ r \notin closedHolder}

\* r is the nearest enable() around x that created a holder: those around x are
\* around r too.
IsRequestOf(r, x) ==
    /\ r \in AroundOf(x) /\ IsOutermost(r)
    /\ \A s \in AroundOf(x) : IsOutermost(s) => s \in AroundOf(r)

\* One request, one memo.  However enable() and disable() regions nest, and
\* whichever of them is entered late, no context is inside two requests that are
\* open at once, so an enable() inside a disable() goes on with the memo of its
\* request.  A value a call takes from a memo was loaded by a call of the same
\* request, read by nesting alone, and never by a call in a context that
\* disable() opened.  A closed request serves nobody: its memo stays empty,
\* whatever settles late (context.ts: disable, runOutermost,
\* getOrCreateRequestLocalCache, set).
MemoStaysInItsRequest ==
    /\ \A x \in Opened : \A r, s \in RequestsOpenAround(x) : r = s
    /\ \A c \in Callers :
          returned[c] \notin {Nowhere, c} =>
             /\ madeIn[c] \in Opened /\ store[madeIn[c]].enabled
             /\ madeIn[returned[c]] \in Opened
             /\ \E r \in RegionIds : /\ IsRequestOf(r, madeIn[c])
                                     /\ IsRequestOf(r, madeIn[returned[c]])
    /\ \A h \in closedHolder : requestMemo[h] = Nowhere
=============================================================================
