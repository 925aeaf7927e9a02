----------------------------- MODULE RedisAdapter -----------------------------
(* The two bundled Redis adapters (node-redis.ts, valkey-glide.ts) between a    *)
(* caller and a deployment with a primary and a replica that lags behind it.    *)
(* A command may be rejected without running, run and lose its reply, or be     *)
(* answered with a reply that is not the protocol's.                            *)
EXTENDS Naturals

CONSTANTS Calls,          \* adapter invocations
          MaxClock,       \* bound: the application clock
          Buffers,        \* futureBufferMs values
          None            \* no client yet; nothing stored; nothing sampled

ASSUME AdapterAssumption == Buffers \subseteq Nat /\ None \notin Nat

VARIABLES adapter,        \* "node-redis" or "glide"
          client,         \* None, "standalone" or "cluster"
          clock,          \* Date.now()
          primary,        \* [frame, watermark] at the slot's primary
          replica,        \* the same, as last replicated
          scripts,        \* BOOLEAN: the invalidation script is in the cache
          call,           \* what each invocation is doing
          acked           \* the highest watermark a settled invalidate() set

adapterVars == <<adapter, client, clock, primary, replica, scripts, call, acked>>

Idle == [op |-> "none", phase |-> "idle", sample |-> None, ranAt |-> {},
         buffer |-> 0, floor |-> 0, result |-> None]

Ok == [kind |-> "ok"]
Error == [kind |-> "error"]

AdapterInit ==
    /\ adapter \in {"node-redis", "glide"}
    /\ client = None /\ clock = 1 /\ scripts = FALSE /\ acked = 0
    /\ primary = [frame |-> None, watermark |-> 0]
    /\ replica = primary
    /\ call = [c \in Calls |-> Idle]

\* Whether the client has masters.
isNodeRedisClusterClient(isCluster) == IF isCluster THEN "cluster" ELSE "standalone"

\* Both classes are asked, and a client of exactly one of them is accepted.
classifyValkeyGlideClient(isStandalone, isCluster) ==
    IF isStandalone = isCluster THEN None
    ELSE IF isCluster THEN "cluster" ELSE "standalone"

createClient(isStandalone, isCluster) ==
    /\ client = None
    /\ client' = IF adapter = "glide"
                 THEN classifyValkeyGlideClient(isStandalone, isCluster)
                 ELSE isNodeRedisClusterClient(isCluster)
    /\ UNCHANGED <<adapter, clock, primary, replica, scripts, call, acked>>

-----------------------------------------------------------------------------
(* read() *)

\* A tracked read sent wherever the client sends its reads.
ReadTargets_Anywhere(tracked) == {primary, replica}

\* node-redis: a keyed command is never sent as a read-only one.
sendKeyedCommand == {primary}

\* GLIDE: the primarySlotKey route in a cluster, else a batch on the primary.
keyedOptions == {primary}

\* An untracked get() is the client's own, and may be served by a replica.
ReadTargets(tracked) ==
    IF ~tracked THEN {primary, replica}
    ELSE IF adapter = "node-redis" THEN sendKeyedCommand ELSE keyedOptions

\* decodeTrackedRedisReadResult, decodeRedisReadResult: a frame dated at or
\* before the watermark is fenced.
Decoded(snapshot, tracked) ==
    IF snapshot.frame = None \/ (tracked /\ snapshot.frame <= snapshot.watermark)
    THEN [kind |-> "miss"] ELSE [kind |-> "hit", createdAtMs |-> snapshot.frame]

StartRead(c, tracked) ==
    /\ client # None /\ call[c] = Idle
    /\ call' = [call EXCEPT ![c] =
           [Idle EXCEPT !.op = IF tracked THEN "tracked" ELSE "untracked",
                        !.phase = "sent", !.floor = acked]]
    /\ UNCHANGED <<adapter, client, clock, primary, replica, scripts, acked>>

\* A reply of another shape is a payload error.
validateRedisMGetReply(snapshot, tracked) == {Decoded(snapshot, tracked), Error}

FinishRead(c) ==
    /\ call[c].phase = "sent" /\ call[c].op \in {"tracked", "untracked"}
    /\ \E snapshot \in ReadTargets(call[c].op = "tracked") :
       \E result \in validateRedisMGetReply(snapshot, call[c].op = "tracked") :
           call' = [call EXCEPT ![c].phase = "done", ![c].result = result]
    /\ UNCHANGED <<adapter, client, clock, primary, replica, scripts, acked>>

-----------------------------------------------------------------------------
(* write() *)

\* ceilSupportedCacheTtlMs throws before anything is sent; the frame carries
\* the supplied stamp, or the clock's.
StartWrite(c, ttlAccepted, supplied) ==
    /\ client # None /\ call[c] = Idle
    /\ call' = [call EXCEPT ![c] =
           IF ttlAccepted
           THEN [Idle EXCEPT !.op = "write", !.phase = "sent",
                             !.sample = IF supplied = None THEN clock ELSE supplied]
           ELSE [Idle EXCEPT !.op = "write", !.phase = "done",
                             !.result = Error]]
    /\ UNCHANGED <<adapter, client, clock, primary, replica, scripts, acked>>

\* One native SET of a complete frame.
sendFrameSet(c) == [primary EXCEPT !.frame = call[c].sample]

\* OK alone is accepted, though the server has stored the frame.
validateRedisSetReply == {Ok, Error}

FinishWrite(c) ==
    /\ call[c].op = "write" /\ call[c].phase = "sent"
    /\ \/ /\ primary' = sendFrameSet(c)
          /\ \E result \in validateRedisSetReply :
                 call' = [call EXCEPT ![c].phase = "done", ![c].result = result]
       \/ /\ call' = [call EXCEPT ![c].phase = "done", ![c].result = Error]
          /\ UNCHANGED primary
    /\ UNCHANGED <<adapter, client, clock, replica, scripts, acked>>

-----------------------------------------------------------------------------
(* invalidate() *)

StartInvalidate(c, buffer) ==
    /\ client # None /\ call[c] = Idle
    /\ call' = [call EXCEPT ![c] =
           [Idle EXCEPT !.op = "invalidate", !.phase = "evalsha",
                        !.sample = clock, !.buffer = buffer]]
    /\ UNCHANGED <<adapter, client, clock, primary, replica, scripts, acked>>

\* A retry that samples the clock again.
ScriptSample_Resampled(c) ==
    IF call[c].phase = "eval" THEN clock ELSE call[c].sample

\* Both dispatches carry the arguments built before the first.
ScriptSample(c) == call[c].sample

Larger(a, b) == IF a > b THEN a ELSE b

\* The script ran: the watermark only advances, and EVAL loads the script.
ScriptRuns(c) ==
    /\ call[c].phase = "eval" \/ scripts
    /\ scripts' = TRUE
    /\ primary' = [primary EXCEPT !.watermark =
           Larger(@, ScriptSample(c) + call[c].buffer)]

Ran(c) == [call[c] EXCEPT !.ranAt = @ \cup {ScriptSample(c)}]

\* The reply is 1: the invalidation is settled.
InvalidateAnswered(c) ==
    /\ call[c].phase \in {"evalsha", "eval"}
    /\ ScriptRuns(c)
    /\ call' = [call EXCEPT ![c] = [Ran(c) EXCEPT !.phase = "done", !.result = Ok]]
    /\ acked' = Larger(acked, call[c].sample + call[c].buffer)
    /\ UNCHANGED <<adapter, client, clock, replica>>

\* An accepted reply that is not 1 is a protocol error and is never retried.
InvalidateMisanswered(c) ==
    /\ call[c].phase \in {"evalsha", "eval"}
    /\ \/ ScriptRuns(c) /\ call' = [call EXCEPT ![c] =
              [Ran(c) EXCEPT !.phase = "done", !.result = Error]]
       \/ /\ call' = [call EXCEPT ![c].phase = "done", ![c].result = Error]
          /\ UNCHANGED <<primary, scripts>>
    /\ UNCHANGED <<adapter, client, clock, replica, acked>>

\* A rejection, before or after the script ran.  EVALSHA's is retried once as
\* EVAL; EVAL's surfaces.
Rejection(c, before) ==
    call' = [call EXCEPT ![c] =
        IF @.phase = "evalsha" THEN [before EXCEPT !.phase = "eval"]
        ELSE [before EXCEPT !.phase = "done", !.result = Error]]

InvalidateRejected(c) ==
    /\ call[c].phase \in {"evalsha", "eval"}
    /\ \/ ScriptRuns(c) /\ Rejection(c, Ran(c))
       \/ Rejection(c, call[c]) /\ UNCHANGED <<primary, scripts>>
    /\ UNCHANGED <<adapter, client, clock, replica, acked>>

-----------------------------------------------------------------------------
Replicate ==
    /\ replica # primary /\ replica' = primary
    /\ UNCHANGED <<adapter, client, clock, primary, scripts, call, acked>>

FlushScripts ==
    /\ scripts /\ scripts' = FALSE
    /\ UNCHANGED <<adapter, client, clock, primary, replica, call, acked>>

Elapse ==
    /\ clock < MaxClock /\ clock' = clock + 1
    /\ UNCHANGED <<adapter, client, primary, replica, scripts, call, acked>>

AdapterNext ==
    \/ \E s, k \in BOOLEAN : createClient(s, k)
    \/ \E c \in Calls :
          \/ \E tracked \in BOOLEAN : StartRead(c, tracked)
          \/ \E ok \in BOOLEAN, stamp \in {None} \cup 1..clock : StartWrite(c, ok, stamp)
          \/ \E buffer \in Buffers : StartInvalidate(c, buffer)
          \/ FinishRead(c) \/ FinishWrite(c)
          \/ InvalidateAnswered(c) \/ InvalidateMisanswered(c) \/ InvalidateRejected(c)
    \/ Replicate \/ FlushScripts \/ Elapse

AdapterSpec == AdapterInit /\ [][AdapterNext]_adapterVars

-----------------------------------------------------------------------------
(* Properties *)

\* A tracked read that began after an invalidation settled never returns a
\* frame which that invalidation fences, however far the replica lags
\* (redis-client.ts: "replica lag must not hide an invalidation").
SettledFencesAreSeen ==
    \A c \in Calls :
        call[c].op = "tracked" /\ call[c].phase = "done"
            /\ call[c].result.kind = "hit"
            => call[c].result.createdAtMs > call[c].floor

\* However often one invalidation's script ran, through lost replies, a flushed
\* script cache and the retry, it proposed one watermark, the one sampled
\* before the first dispatch; a settled invalidation's watermark is in place
\* (redis-client.ts: "Reuse that sample through retries").
RetryProposesTheSame ==
    /\ \A c \in Calls : call[c].ranAt \subseteq {call[c].sample}
    /\ acked <= primary.watermark
=============================================================================
