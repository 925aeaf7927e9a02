---------------------------- MODULE ServingChain ----------------------------
(***************************************************************************)
(* The serving chain of one DialCache instance for one key: enable()       *)
(* scopes and their request-local memo, request-local and process single   *)
(* flights, the process-local layer, the remote layer, the loader, and who *)
(* publishes what where.                                                   *)
(*                                                                         *)
(* The instance is single threaded: each action is the code between two    *)
(* awaits.  A value is the version of the source it was loaded from.       *)
(* Redis is external here: its value may change at any time, and a read of *)
(* it hits, misses, retains a candidate or fails.  TrackedRedis models     *)
(* what makes a hit valid.                                                 *)
(***************************************************************************)
EXTENDS Integers, FiniteSets

CONSTANTS
    Calls,          \* the invocations
    Scopes,         \* the outermost enable() scopes
    Configs,        \* the key configs the provider may return
    Tracked,        \* trackForInvalidation
    HasRedis,       \* a Redis client is configured
    Parent,         \* the call whose loader makes this call, or None
    MaxVersion,     \* bound on the source's version
    None, Error

RemoteStates == {"enabled", "ramped_down", "disabled", "config_error"}

\* A merged key config, with the resolution of its layers.
KeyConfigs == [requestLocal : BOOLEAN, coalesce : BOOLEAN, local : BOOLEAN,
               remote : RemoteStates]

ASSUME ServingChainAssumption ==
    /\ IsFiniteSet(Calls)
    /\ Configs \subseteq KeyConfigs
    /\ Tracked \in BOOLEAN /\ HasRedis \in BOOLEAN
    /\ Parent \in [Calls -> Calls \cup {None}]
    /\ MaxVersion \in Nat
    /\ None \notin Calls /\ None \notin Nat
    /\ Error \notin Nat /\ Error # None

VARIABLES
    source,         \* version of the source of truth
    redis,          \* version stored in Redis, or None
    local,          \* version in the process-local cache, or None
    closed,         \* scopes whose enable() callback has settled
    memo,           \* per scope: the request-local value, or None
    inFlight,       \* per scope: leader of the request-local flight, or None
    flight,         \* leader of the key's process flight, or None
    followers,      \* the flight's follower count
    activeProcessFollowers,
    pc, scope, config,      \* per call: control, scope or None, key config
    plan,           \* per call: what it does with a loaded value
    candidate,      \* per call: retained frame's version, or None
    joined,         \* per call: leader of the flight it joined, or None
    result,         \* per call: version loaded or returned, Error, or None
    validated       \* history: versions that Redis reads have returned

chainVars == <<flight, followers, activeProcessFollowers>>
scopeVars == <<closed, memo, inFlight>>
callVars == <<pc, scope, config, plan, candidate, joined, result>>
vars == <<source, redis, local, scopeVars, chainVars, callVars, validated>>

Versions == 0..MaxVersion
Values == Versions \cup {None}

\* What to do with a loaded value: nothing, put it into the local cache, write
\* it to Redis, or both.
Plans == {"return", "publish", "write", "write_publish"}

NoConfig == [requestLocal |-> FALSE, coalesce |-> FALSE, local |-> FALSE,
             remote |-> "disabled"]

Init ==
    /\ source = 0
    /\ redis = None /\ local = None
    /\ closed = {}
    /\ memo = [s \in Scopes |-> None]
    /\ inFlight = [s \in Scopes |-> None]
    /\ flight = None /\ followers = 0 /\ activeProcessFollowers = 0
    /\ pc = [c \in Calls |-> "idle"]
    /\ scope = [c \in Calls |-> None]
    /\ config = [c \in Calls |-> NoConfig]
    /\ plan = [c \in Calls |-> "return"]
    /\ candidate = [c \in Calls |-> None]
    /\ joined = [c \in Calls |-> None]
    /\ result = [c \in Calls |-> None]
    /\ validated = {}

-----------------------------------------------------------------------------
(* The surroundings *)

Mutate ==
    /\ source < MaxVersion
    /\ source' = source + 1
    /\ UNCHANGED <<redis, local, scopeVars, chainVars, callVars, validated>>

\* Other processes write or invalidate the Redis entry, or it expires.
RedisChanges ==
    /\ HasRedis
    /\ redis' \in {None} \cup 0..source
    /\ UNCHANGED <<source, local, scopeVars, chainVars, callVars, validated>>

\* The LRU evicts the entry, or its TTL passes.
LocalExpires ==
    /\ local # None
    /\ local' = None
    /\ UNCHANGED <<source, redis, scopeVars, chainVars, callVars, validated>>

\* The callback of outermost enable() scope s settles: runOutermost closes the
\* holder and RequestLocalCache.close drops values and flights.
CloseScope(s) ==
    /\ s \notin closed
    /\ closed' = closed \cup {s}
    /\ memo' = [memo EXCEPT ![s] = None]
    /\ inFlight' = [inFlight EXCEPT ![s] = None]
    /\ UNCHANGED <<source, redis, local, chainVars, callVars, validated>>

-----------------------------------------------------------------------------
(* executeCacheOperation *)

isEnabled(c) == scope[c] # None /\ scope[c] \notin closed

\* Call c starts in scope s, or outside every enabled region (None).  A call
\* made by a loader runs in its parent's scope.
Start(c, s) ==
    /\ pc[c] = "idle"
    /\ Parent[c] # None => pc[Parent[c]] = "load" /\ s = scope[Parent[c]]
    /\ scope' = [scope EXCEPT ![c] = s]
    /\ pc' = [pc EXCEPT ![c] =
                 IF s # None /\ s \notin closed THEN "config" ELSE "load"]
    /\ UNCHANGED <<source, redis, local, scopeVars, chainVars, config, plan,
                   candidate, joined, result, validated>>

\* The key selector or the config provider throws: run uncached.
ConfigFails(c) ==
    /\ pc[c] = "config"
    /\ pc' = [pc EXCEPT ![c] = "load"]
    /\ UNCHANGED <<source, redis, local, scopeVars, chainVars, scope, config,
                   plan, candidate, joined, result, validated>>

\* The scope closed, or the region was disabled, while the provider was
\* awaited: the call passes through.
PassThrough(c) ==
    /\ pc[c] = "config"
    /\ ~isEnabled(c)
    /\ pc' = [pc EXCEPT ![c] = "load"]
    /\ UNCHANGED <<source, redis, local, scopeVars, chainVars, scope, config,
                   plan, candidate, joined, result, validated>>

\* The provider's config does not use request-local caching.
ResolveShared(c, k) ==
    /\ pc[c] = "config"
    /\ isEnabled(c)
    /\ ~k.requestLocal
    /\ pc' = [pc EXCEPT ![c] = "shared"]
    /\ config' = [config EXCEPT ![c] = k]
    /\ UNCHANGED <<source, redis, local, scopeVars, chainVars, scope, plan,
                   candidate, joined, result, validated>>

-----------------------------------------------------------------------------
(* getThroughRequestLocal *)

\* A flight for the key is under way in the scope: await its promise.
JoinRequestFlight(c, k) ==
    /\ pc[c] = "config"
    /\ isEnabled(c)
    /\ k.requestLocal /\ k.coalesce
    /\ inFlight[scope[c]] # None
    /\ pc' = [pc EXCEPT ![c] = "rlwait"]
    /\ config' = [config EXCEPT ![c] = k]
    /\ joined' = [joined EXCEPT ![c] = inFlight[scope[c]]]
    /\ UNCHANGED <<source, redis, local, scopeVars, chainVars, scope, plan,
                   candidate, result, validated>>

\* Faulty variant: the request's flights are not consulted.
RunRequestLocal_Unshared(c, k) ==
    /\ pc[c] = "config"
    /\ isEnabled(c)
    /\ k.requestLocal
    /\ pc' = [pc EXCEPT ![c] = IF memo[scope[c]] # None THEN "outer" ELSE "shared"]
    /\ result' = [result EXCEPT ![c] = memo[scope[c]]]
    /\ config' = [config EXCEPT ![c] = k]
    /\ UNCHANGED <<source, redis, local, scopeVars, chainVars, scope, plan,
                   candidate, joined, validated>>

\* Read the memo, as the leader of a new flight or, with coalesce false, alone.
RunRequestLocal(c, k) ==
    /\ pc[c] = "config"
    /\ isEnabled(c)
    /\ k.requestLocal
    /\ k.coalesce => inFlight[scope[c]] = None
    /\ inFlight' = IF k.coalesce THEN [inFlight EXCEPT ![scope[c]] = c]
                   ELSE inFlight
    /\ pc' = [pc EXCEPT ![c] = IF memo[scope[c]] # None THEN "outer" ELSE "shared"]
    /\ result' = [result EXCEPT ![c] = memo[scope[c]]]
    /\ config' = [config EXCEPT ![c] = k]
    /\ UNCHANGED <<source, redis, local, closed, memo, chainVars, scope, plan,
                   candidate, joined, validated>>

-----------------------------------------------------------------------------
(* getThroughSharedLayers and singleFlightProcess *)

readsRemote(c) == HasRedis /\ config[c].remote = "enabled"
hasActiveLayer(c) == config[c].local \/ readsRemote(c)

\* No shared layer is active: load, uncoalesced, and publish nowhere.
SkipShared(c) ==
    /\ pc[c] = "shared"
    /\ ~hasActiveLayer(c)
    /\ pc' = [pc EXCEPT ![c] = "load"]
    /\ UNCHANGED <<source, redis, local, scopeVars, chainVars, scope, config,
                   plan, candidate, joined, result, validated>>

\* Faulty variant: the follower is counted on the instance only.
JoinFlight_Uncounted(c) ==
    /\ pc[c] = "shared"
    /\ hasActiveLayer(c) /\ config[c].coalesce
    /\ flight # None
    /\ activeProcessFollowers' = activeProcessFollowers + 1
    /\ joined' = [joined EXCEPT ![c] = flight]
    /\ pc' = [pc EXCEPT ![c] = "wait"]
    /\ UNCHANGED <<source, redis, local, scopeVars, flight, followers, scope,
                   config, plan, candidate, result, validated>>

JoinFlight(c) ==
    /\ pc[c] = "shared"
    /\ hasActiveLayer(c) /\ config[c].coalesce
    /\ flight # None
    /\ followers' = followers + 1
    /\ activeProcessFollowers' = activeProcessFollowers + 1
    /\ joined' = [joined EXCEPT ![c] = flight]
    /\ pc' = [pc EXCEPT ![c] = "wait"]
    /\ UNCHANGED <<source, redis, local, scopeVars, flight, scope, config, plan,
                   candidate, result, validated>>

\* A tracked call whose remote config failed to resolve may not fill the local
\* cache (skipCacheWrite).
localPlan(c) ==
    IF config[c].local /\ ~(HasRedis /\ config[c].remote = "config_error" /\ Tracked)
    THEN "publish" ELSE "return"

\* Faulty variant: a running flight is replaced.
RunShared_Replaces(c) ==
    /\ pc[c] = "shared"
    /\ hasActiveLayer(c)
    /\ IF config[c].coalesce THEN flight' = c /\ followers' = 0
       ELSE UNCHANGED <<flight, followers>>
    /\ pc' = [pc EXCEPT ![c] = IF readsRemote(c) THEN "read" ELSE "load"]
    /\ plan' = [plan EXCEPT ![c] = localPlan(c)]
    /\ UNCHANGED <<source, redis, local, scopeVars, activeProcessFollowers, scope,
                   config, candidate, joined, result, validated>>

\* Start the shared chain, as the leader of a new flight unless coalesce is
\* false: read the local layer, then go on to Redis or to the loader.
RunShared(c) ==
    /\ pc[c] = "shared"
    /\ hasActiveLayer(c)
    /\ config[c].coalesce => flight = None
    /\ IF config[c].coalesce THEN flight' = c /\ followers' = 0
       ELSE UNCHANGED <<flight, followers>>
    /\ LET hit == config[c].local /\ local # None
       IN  /\ pc' = [pc EXCEPT ![c] = IF hit THEN "inner"
                                      ELSE IF readsRemote(c) THEN "read"
                                      ELSE "load"]
           /\ result' = [result EXCEPT ![c] = IF hit THEN local ELSE None]
    /\ plan' = [plan EXCEPT ![c] = localPlan(c)]
    /\ UNCHANGED <<source, redis, local, scopeVars, activeProcessFollowers, scope,
                   config, candidate, joined, validated>>

-----------------------------------------------------------------------------
(* The remote read and finishRedisChain *)

\* A fresh, unfenced value: it also warms the local layer.
ReadHit(c) ==
    /\ pc[c] = "read"
    /\ redis # None
    /\ pc' = [pc EXCEPT ![c] = "inner"]
    /\ result' = [result EXCEPT ![c] = redis]
    /\ local' = IF config[c].local THEN redis ELSE local
    /\ validated' = validated \cup {redis}
    /\ UNCHANGED <<source, redis, scopeVars, chainVars, scope, config, plan,
                   candidate, joined>>

\* A miss, possibly with a retained candidate: the loaded value will be written
\* to Redis, and to the local layer unless the key is tracked.
ReadMiss(c) ==
    /\ pc[c] = "read"
    /\ pc' = [pc EXCEPT ![c] = "load"]
    /\ plan' = [plan EXCEPT ![c] = IF config[c].local /\ ~Tracked
                                   THEN "write_publish" ELSE "write"]
    /\ \E v \in {None, redis} : candidate' = [candidate EXCEPT ![c] = v]
    /\ UNCHANGED <<source, redis, local, scopeVars, chainVars, scope, config,
                   joined, result, validated>>

\* Faulty variant: a failed read is treated like a local-only miss.
ReadFails_Publishes(c) ==
    /\ pc[c] = "read"
    /\ pc' = [pc EXCEPT ![c] = "load"]
    /\ plan' = [plan EXCEPT ![c] = IF config[c].local THEN "publish" ELSE "return"]
    /\ UNCHANGED <<source, redis, local, scopeVars, chainVars, scope, config,
                   candidate, joined, result, validated>>

\* The read rejects or times out: no Redis write, and no local publication of
\* a tracked value.
ReadFails(c) ==
    /\ pc[c] = "read"
    /\ pc' = [pc EXCEPT ![c] = "load"]
    /\ plan' = [plan EXCEPT ![c] = IF config[c].local /\ ~Tracked
                                   THEN "publish" ELSE "return"]
    /\ UNCHANGED <<source, redis, local, scopeVars, chainVars, scope, config,
                   candidate, joined, result, validated>>

\* The loader reads the source, once the calls it made itself are done.
LoadSource(c) ==
    /\ pc[c] = "load"
    /\ \A d \in Calls : Parent[d] = c => pc[d] \in {"idle", "done"}
    /\ pc' = [pc EXCEPT ![c] = "loaded"]
    /\ result' = [result EXCEPT ![c] = source]
    /\ UNCHANGED <<source, redis, local, scopeVars, chainVars, scope, config,
                   plan, candidate, joined, validated>>

\* Faulty variant: no deadline; a loader that waits is waited for.
LoadFails_NoDeadline(c) ==
    /\ pc[c] \in {"load", "loaded"}
    /\ \A d \in Calls : Parent[d] = c => pc[d] \in {"idle", "done"}
    /\ pc' = [pc EXCEPT ![c] = "inner"]
    /\ result' = [result EXCEPT ![c] = Error]
    /\ UNCHANGED <<source, redis, local, scopeVars, chainVars, scope, config,
                   plan, candidate, joined, validated>>

\* The loader rejects, or its deadline passes even while it is still waiting.
\* A retained candidate may be served instead; nothing is published.
LoadFails(c) ==
    /\ pc[c] \in {"load", "loaded"}
    /\ pc' = [pc EXCEPT ![c] = "inner"]
    /\ \E v \in {Error} \cup ({candidate[c]} \ {None}) :
          result' = [result EXCEPT ![c] = v]
    /\ UNCHANGED <<source, redis, local, scopeVars, chainVars, scope, config,
                   plan, candidate, joined, validated>>

\* The loader fulfils and nothing is written to Redis.
FulfilWithoutWrite(c) ==
    /\ pc[c] = "loaded"
    /\ plan[c] \in {"return", "publish"}
    /\ pc' = [pc EXCEPT ![c] = "inner"]
    /\ local' = IF plan[c] = "publish" THEN result[c] ELSE local
    /\ UNCHANGED <<source, redis, scopeVars, chainVars, scope, config, plan,
                   candidate, joined, result, validated>>

\* The loader has fulfilled and RedisCache.put settles, having stored the
\* value or not.
FulfilWithWrite(c) ==
    /\ pc[c] = "loaded"
    /\ plan[c] \in {"write", "write_publish"}
    /\ pc' = [pc EXCEPT ![c] = "inner"]
    /\ redis' \in {redis, result[c]}
    /\ local' = IF plan[c] = "write_publish" THEN result[c] ELSE local
    /\ UNCHANGED <<source, scopeVars, chainVars, scope, config, plan,
                   candidate, joined, result, validated>>

-----------------------------------------------------------------------------
(* Settlement *)

Settled(c) == pc[c] \in {"inner", "outer", "done"}

\* The first reaction to the flight's settled promise: the clear callback.
ClearFlight(c) ==
    /\ pc[c] = "inner"
    /\ flight = c
    /\ activeProcessFollowers' = activeProcessFollowers - followers
    /\ flight' = None
    /\ followers' = 0
    /\ UNCHANGED <<source, redis, local, scopeVars, callVars, validated>>

\* A follower's await resumes with its leader's outcome.
WakeFollower(c) ==
    /\ pc[c] = "wait"
    /\ Settled(joined[c]) /\ flight # joined[c]
    /\ pc' = [pc EXCEPT ![c] = "inner"]
    /\ result' = [result EXCEPT ![c] = result[joined[c]]]
    /\ UNCHANGED <<source, redis, local, scopeVars, chainVars, scope, config,
                   plan, candidate, joined, validated>>

\* The shared layers have answered; a value is memoized in the scope, if the
\* call uses its memo and the scope is still open.
ReturnInner(c) ==
    /\ pc[c] = "inner"
    /\ flight # c
    /\ memo' = IF /\ config[c].requestLocal /\ result[c] # Error
                  /\ scope[c] \notin closed
               THEN [memo EXCEPT ![scope[c]] = result[c]] ELSE memo
    /\ pc' = [pc EXCEPT ![c] = IF config[c].requestLocal THEN "outer" ELSE "done"]
    /\ UNCHANGED <<source, redis, local, closed, inFlight, chainVars, scope,
                   config, plan, candidate, joined, result, validated>>

ClearRequestFlight(c) ==
    /\ pc[c] = "outer"
    /\ inFlight[scope[c]] = c
    /\ inFlight' = [inFlight EXCEPT ![scope[c]] = None]
    /\ UNCHANGED <<source, redis, local, closed, memo, chainVars, callVars, validated>>

WakeRequestFollower(c) ==
    /\ pc[c] = "rlwait"
    /\ pc[joined[c]] \in {"outer", "done"} /\ inFlight[scope[c]] # joined[c]
    /\ pc' = [pc EXCEPT ![c] = "done"]
    /\ result' = [result EXCEPT ![c] = result[joined[c]]]
    /\ UNCHANGED <<source, redis, local, scopeVars, chainVars, scope, config,
                   plan, candidate, joined, validated>>

ReturnOuter(c) ==
    /\ pc[c] = "outer"
    /\ inFlight[scope[c]] # c
    /\ pc' = [pc EXCEPT ![c] = "done"]
    /\ UNCHANGED <<source, redis, local, scopeVars, chainVars, scope, config,
                   plan, candidate, joined, result, validated>>

-----------------------------------------------------------------------------
\* What c does once it has started.
CallNext(c) ==
    \/ ConfigFails(c) \/ PassThrough(c)
    \/ \E k \in Configs : ResolveShared(c, k)
    \/ \E k \in Configs : JoinRequestFlight(c, k)
    \/ \E k \in Configs : RunRequestLocal(c, k)
    \/ SkipShared(c) \/ JoinFlight(c) \/ RunShared(c)
    \/ ReadHit(c) \/ ReadMiss(c) \/ ReadFails(c)
    \/ LoadSource(c) \/ LoadFails(c) \/ FulfilWithoutWrite(c) \/ FulfilWithWrite(c)
    \/ ClearFlight(c) \/ WakeFollower(c) \/ ReturnInner(c)
    \/ ClearRequestFlight(c) \/ WakeRequestFollower(c) \/ ReturnOuter(c)

Next ==
    \/ Mutate \/ RedisChanges \/ LocalExpires
    \/ \E s \in Scopes : CloseScope(s)
    \/ \E c \in Calls, s \in Scopes \cup {None} : Start(c, s)
    \/ \E c \in Calls : CallNext(c)

Spec == Init /\ [][Next]_vars

\* A started call keeps running: the provider, the serializer and the Redis
\* write settle, the Redis read and the loader settle or meet their deadline,
\* and the event loop runs every reaction.
Fairness == \A c \in Calls : WF_vars(CallNext(c))

-----------------------------------------------------------------------------
(* Properties *)

\* Every variable has its type.
TypeOK ==
    /\ source \in Versions /\ redis \in Values /\ local \in Values
    /\ closed \subseteq Scopes
    /\ memo \in [Scopes -> Values]
    /\ inFlight \in [Scopes -> Calls \cup {None}]
    /\ flight \in Calls \cup {None}
    /\ followers \in Nat /\ activeProcessFollowers \in Nat
    /\ pc \in [Calls -> {"idle", "config", "rlwait", "shared", "wait", "read",
                         "load", "loaded", "inner", "outer", "done"}]
    /\ scope \in [Calls -> Scopes \cup {None}]
    /\ config \in [Calls -> KeyConfigs]
    /\ plan \in [Calls -> Plans]
    /\ candidate \in [Calls -> Values]
    /\ joined \in [Calls -> Calls \cup {None}]
    /\ result \in [Calls -> Values \cup {Error}]
    /\ validated \subseteq Versions

\* getCoalescingState is exact: the flight's follower count is the number of
\* calls awaiting it, late joiners of a settled promise included, and the
\* instance's gauge returns to zero with the last flight.
FollowersAreCounted ==
    /\ followers = Cardinality({c \in Calls : pc[c] = "wait" /\ joined[c] = flight})
    /\ activeProcessFollowers = followers

\* Calls that coalesce through an active shared layer share one execution:
\* no two of them are in the chain at once.
CoalescedRunIsShared ==
    \A c, d \in Calls :
       /\ config[c].coalesce /\ hasActiveLayer(c)
       /\ config[d].coalesce /\ hasActiveLayer(d)
       /\ pc[c] \in {"read", "load", "loaded"}
       /\ pc[d] \in {"read", "load", "loaded"}
       => c = d

\* Once a scope's callback has settled, work it left behind neither finds nor
\* leaves anything in its request-local cache.
ClosedScopeStaysEmpty ==
    \A s \in closed : memo[s] = None /\ inFlight[s] = None

\* A tracked value enters the local layer only once some Redis read has returned
\* its version, whatever the policy was dialled to before or since: never a
\* loader's own new value, unless the publishing call itself resolved its remote
\* layer as off (dialcache.ts: finishRedisChain, finishLocalOnly).
TrackedLocalIsValidated ==
    [][Tracked /\ HasRedis /\ local' \notin {local, None} =>
          \/ local' \in validated'
          \/ \E c \in Calls : /\ pc'[c] # pc[c]
                               /\ config[c].remote \in {"disabled", "ramped_down"}]_vars

\* With coalescing on, a request sees one value: a scope's memo is set once
\* and then stays until the scope closes, however many calls race for it.
MemoIsStable ==
    [][(\A k \in Configs : k.coalesce) =>
          \A s \in Scopes :
             memo[s] # None /\ memo'[s] # memo[s] => s \in closed']_vars

\* Every started call settles, a loader that calls its own key included, and
\* with it every flight is cleared.
EveryCallSettles ==
    /\ \A c \in Calls : pc[c] # "idle" ~> pc[c] = "done"
    /\ flight # None ~> flight = None

=============================================================================
