---------------------------- MODULE TrackedRedis ----------------------------
(***************************************************************************)
(* One tracked cache entry in Redis, its entity's invalidation watermark,  *)
(* the DialCache invocations that read and refill it, and the calls of     *)
(* invalidateRemote that move the watermark.                               *)
(*                                                                         *)
(* Several processes take part; each of their Date.now() samples may be    *)
(* Behind or Ahead of true time, and two samples of one process need not   *)
(* agree.  Redis runs one command at a time: MGET, SET PX and the          *)
(* invalidation script are atomic, and everything between them is not.     *)
(* The invocations modelled here use the remote layer only, with           *)
(* coalesce = FALSE, so that each makes its own watermark observation.     *)
(*                                                                         *)
(* A cached value is represented by the version of the source it was       *)
(* loaded from.  The by fields, fenced and startFence are history: they    *)
(* are read by the properties, by the environment's in-flight-work bound   *)
(* (Tick), and by nothing else.                                            *)
(***************************************************************************)
EXTENDS Integers, FiniteSets

CONSTANTS
    Ops,                            \* the invocations
    Invalidators,                   \* the calls of invalidateRemote
    FutureBuffers,                  \* the futureBufferMs arguments in use
    Ahead, Behind,                  \* bounds on an application clock's error
    Dmax,                           \* bound on the age of in-flight work
    freshAgeMs, maximumAgeMs,       \* F and M; M = F when recovery is off
    MAX_TRACKED_REDIS_VALUE_TTL_MS,
    WATERMARK_TTL_MARGIN_MS,
    InitialValues, InitialWatermarks,   \* what older or foreign writers left
    MaxTime, MaxVersion             \* bounds of the explored instance

NoFence == -1       \* observedWatermarkMs is undefined
NoExpiry == -1      \* PTTL's reply for a key without expiry
NoVersion == -1     \* nothing loaded or returned

\* A stored value: absent, bytes that are no supported frame, or a frame of
\* version ver stamped createdAtMs.  Work on ver had to reach Redis by `by`.
Frames == [kind : {"absent", "unsupported", "frame"}, ver : Nat,
           createdAtMs : Nat, by : Nat, exp : Nat]
NoFrame == [kind |-> "absent", ver |-> 0, createdAtMs |-> 0, by |-> 0, exp |-> 0]

Watermarks == [kind : {"absent", "valid", "malformed", "wrongtype"},
               ms : Nat, exp : Nat \cup {NoExpiry}]
NoWatermark == [kind |-> "absent", ms |-> 0, exp |-> 0]

ASSUME TrackedRedisAssumption ==
    /\ FutureBuffers \subseteq Nat
    /\ Ahead \in Nat /\ Behind \in Nat /\ Dmax \in Nat
    /\ freshAgeMs \in Nat \ {0}
    /\ maximumAgeMs \in Nat /\ freshAgeMs <= maximumAgeMs
    /\ MAX_TRACKED_REDIS_VALUE_TTL_MS \in Nat \ {0}
    /\ WATERMARK_TTL_MARGIN_MS \in Nat
    /\ MaxTime \in Nat /\ MaxVersion \in Nat
    /\ InitialValues \subseteq {f \in Frames : f.kind = "frame" => f.createdAtMs = 0}
    /\ InitialWatermarks \subseteq Watermarks

VARIABLES
    now,        \* true time, which is also the Redis server's clock
    source,     \* version of the source of truth
    value,      \* the frame stored under the value key
    wm,         \* the string stored under the watermark key
    sets,       \* SET commands sent and not yet executed or lost
    scripts,    \* invalidation scripts sent and not yet executed or lost
    pc,         \* per invocation: where its control is
    got,        \* per invocation: what its Redis read produced
    loaded,     \* per invocation: version its loader read, and the work bound
    result,     \* per invocation: version returned to the caller
    inv,        \* per invalidator: state of its call
    fenced,     \* newest version whose invalidation script has run with a
                \* sufficient buffer
    startFence  \* per invocation: fenced when the invocation started

worldVars == <<now, source>>
redisVars == <<value, wm>>
netVars == <<sets, scripts>>
opVars == <<pc, got, loaded, result, startFence>>
invVars == <<inv, fenced>>
envVars == <<worldVars, redisVars, netVars, invVars>>
vars == <<now, source, value, wm, sets, scripts, pc, got, loaded, result,
          inv, fenced, startFence>>

-----------------------------------------------------------------------------
(* Data *)

MIN_WATERMARK_TTL_MS == 2 * MAX_TRACKED_REDIS_VALUE_TTL_MS

\* The buffer docs/invalidation.md asks for: Dmax plus the largest lead of a
\* writer's clock over an invalidator's.
SufficientBuffer == Dmax + Ahead + Behind

Larger(a, b) == IF a >= b THEN a ELSE b
Smaller(a, b) == IF a <= b THEN a ELSE b

\* The possible results of Date.now() in some process.
Clock == (now - Behind)..(now + Ahead)

DecodedFrames == [ver : Nat, createdAtMs : Nat, by : Nat]
NoDecoded == [ver |-> 0, createdAtMs |-> 0, by |-> 0]

\* The outcomes of a Redis read.
Miss(fence) == [kind |-> "miss", fence |-> fence, frame |-> NoDecoded]
Found(kind, frame) == [kind |-> kind, fence |-> NoFence, frame |-> frame]
Failed == [kind |-> "error", fence |-> NoFence, frame |-> NoDecoded]
Nothing == [kind |-> "none", fence |-> NoFence, frame |-> NoDecoded]

NoLoad == [ver |-> NoVersion, by |-> 0]
NoCall == [pc |-> "idle", at |-> 0, buffer |-> 0, ver |-> 0]

\* A present, valid watermark; MGET reads a wrong-type key as nil, and a
\* malformed string does not parse.
parseRedisWatermark(w) == IF w.kind = "valid" THEN w.ms ELSE NoFence

decodedRedisFrame(f) ==
    [ver |-> f.ver, createdAtMs |-> f.createdAtMs, by |-> f.by]

\* Faulty variant: a frame stamped at the watermark passes.
decodeTrackedFrame_Strict(f, fence) ==
    IF f.createdAtMs = 0 \/ (fence # NoFence /\ f.createdAtMs < fence)
    THEN Miss(fence)
    ELSE Found("frame", decodedRedisFrame(f))

decodeTrackedFrame(f, fence) ==
    IF f.createdAtMs = 0 \/ (fence # NoFence /\ f.createdAtMs <= fence)
    THEN Miss(fence)
    ELSE Found("frame", decodedRedisFrame(f))

\* Faulty variant: the read does not consult the watermark.
decodeTrackedRedisReadResult_Untracked(f, w) ==
    IF f.kind # "frame" THEN Miss(NoFence) ELSE decodeTrackedFrame(f, NoFence)

\* What one atomic MGET of the value and the watermark means to a tracked read.
decodeTrackedRedisReadResult(f, w) ==
    IF f.kind # "frame" THEN Miss(parseRedisWatermark(w))
    ELSE IF w.kind = "malformed" THEN Miss(NoFence)
    ELSE decodeTrackedFrame(f, parseRedisWatermark(w))

\* Faulty variants of the script: the current value is not kept when it is
\* larger; the lifetime ends with the window.
Script_LastWins(w, at, buffer) ==
    [kind |-> "valid", ms |-> at + buffer, exp |-> now + MIN_WATERMARK_TTL_MS]
Script_WindowOnly(w, at, buffer) ==
    [kind |-> "valid", ms |-> at + buffer, exp |-> now + buffer]

\* The watermark key after INVALIDATE_CACHE_SCRIPT has run on it.
INVALIDATE_CACHE_SCRIPT(w, at, buffer) ==
    LET present   == w.kind \in {"valid", "malformed"}
        current   == IF w.kind = "valid" THEN w.ms ELSE 0
        watermark == Larger(current, at + buffer)
        desired   == Larger(MIN_WATERMARK_TTL_MS,
                            watermark - at + MAX_TRACKED_REDIS_VALUE_TTL_MS
                                           + WATERMARK_TTL_MARGIN_MS)
    IN  [kind |-> "valid",
         ms   |-> watermark,
         exp  |-> IF present /\ w.exp = NoExpiry THEN NoExpiry
                  ELSE IF present THEN Larger(w.exp, now + desired)
                  ELSE now + desired]

\* Faulty variant: tracked retention is not clamped.
cacheTtlMs_Unclamped == maximumAgeMs

\* Physical TTL of a tracked write: the retention age, clamped.
cacheTtlMs == Smaller(maximumAgeMs, MAX_TRACKED_REDIS_VALUE_TTL_MS)

-----------------------------------------------------------------------------
Init ==
    /\ now = Behind + 1
    /\ source = 0
    /\ value \in InitialValues
    /\ wm \in InitialWatermarks
    /\ sets = {} /\ scripts = {}
    /\ pc = [o \in Ops |-> "idle"]
    /\ got = [o \in Ops |-> Nothing]
    /\ loaded = [o \in Ops |-> NoLoad]
    /\ result = [o \in Ops |-> NoVersion]
    /\ inv = [i \in Invalidators |-> NoCall]
    /\ fenced = 0
    /\ startFence = [o \in Ops |-> 0]

-----------------------------------------------------------------------------
(* Redis and the source: the environment *)

\* Invocation o holds a loaded version that may still reach Redis.
HoldsLoad(o) == pc[o] \in {"loaded", "serialize"}

\* Time passes and Redis expires keys.  The guard is the deployment's bound
\* on in-flight work: a loaded version reaches Redis within Dmax or never.
Tick ==
    /\ now < MaxTime
    /\ \A o \in Ops : HoldsLoad(o) => now < loaded[o].by
    /\ \A m \in sets : now < m.by
    /\ now' = now + 1
    /\ value' = IF value.kind # "absent" /\ value.exp <= now' THEN NoFrame
                ELSE value
    /\ wm' = IF wm.kind # "absent" /\ wm.exp # NoExpiry /\ wm.exp <= now'
             THEN NoWatermark ELSE wm
    /\ UNCHANGED <<source, netVars, opVars, invVars>>

\* A mutation of the source commits.
Mutate ==
    /\ source < MaxVersion
    /\ source' = source + 1
    /\ UNCHANGED <<now, redisVars, netVars, opVars, invVars>>

\* Redis drops the value: memory pressure or an operator's DEL.  Watermarks
\* are correctness state and are preserved (docs/invalidation.md).
EvictValue ==
    /\ value.kind # "absent"
    /\ value' = NoFrame
    /\ UNCHANGED <<worldVars, wm, netVars, opVars, invVars>>

\* Redis executes SET valueKey frame PX cacheTtlMs.
ExecSet(m) ==
    /\ m \in sets
    /\ value' = [kind |-> "frame", ver |-> m.ver, createdAtMs |-> m.createdAtMs,
                 by |-> m.by, exp |-> now + cacheTtlMs]
    /\ sets' = sets \ {m}
    /\ UNCHANGED <<worldVars, wm, scripts, opVars, invVars>>

\* A SET is lost before Redis executes it.
LoseSet(m) ==
    /\ m \in sets
    /\ sets' = sets \ {m}
    /\ UNCHANGED <<worldVars, redisVars, scripts, opVars, invVars>>

-----------------------------------------------------------------------------
(* An invocation *)

\* The invocation reaches the remote layer and dispatches its read.
StartRead(o) ==
    /\ pc[o] = "idle"
    /\ pc' = [pc EXCEPT ![o] = "read"]
    /\ startFence' = [startFence EXCEPT ![o] = fenced]
    /\ UNCHANGED <<envVars, got, loaded, result>>

\* Redis executes MGET and the adapter decodes the pair.
ReadTracked(o) ==
    /\ pc[o] = "read"
    /\ pc' = [pc EXCEPT ![o] = "reply"]
    /\ got' = [got EXCEPT ![o] = decodeTrackedRedisReadResult(value, wm)]
    /\ UNCHANGED <<envVars, loaded, result, startFence>>

\* The read rejects, or its deadline passes; a reply that arrives later is
\* dropped.  The invocation falls back and will not write.
ReadFails(o) ==
    /\ pc[o] \in {"read", "reply"}
    /\ pc' = [pc EXCEPT ![o] = "load"]
    /\ got' = [got EXCEPT ![o] = Failed]
    /\ UNCHANGED <<envVars, loaded, result, startFence>>

\* Faulty variant: everything below M is served as fresh.
Classified_UpToMaximum(r, c) ==
    IF r.kind = "miss" THEN r
    ELSE LET age == c - r.frame.createdAtMs
         IN  IF age < 0 \/ age >= maximumAgeMs THEN Miss(NoFence)
             ELSE Found("hit", r.frame)

\* getWithResolvedConfig's classification of the reply at reader time c.  A
\* future or too old frame is a miss without a refill fence.
Classified(r, c) ==
    IF r.kind = "miss" THEN r
    ELSE LET age == c - r.frame.createdAtMs
         IN  IF age < 0 \/ age >= maximumAgeMs THEN Miss(NoFence)
             ELSE IF age >= freshAgeMs THEN Found("retained", r.frame)
             ELSE Found("hit", r.frame)

ClassifyReply(o) ==
    /\ pc[o] = "reply"
    /\ \E c \in Clock :
          LET r == Classified(got[o], c)
          IN  /\ got' = [got EXCEPT ![o] = r]
              /\ pc' = [pc EXCEPT ![o] =
                           IF r.kind = "hit" THEN "deserialize" ELSE "load"]
    /\ UNCHANGED <<envVars, loaded, result, startFence>>

\* Invocation o ends with version v, or with an error (NoVersion).
Return(o, v) ==
    /\ pc' = [pc EXCEPT ![o] = "done"]
    /\ result' = [result EXCEPT ![o] = v]
    /\ got' = [got EXCEPT ![o] = Nothing]
    /\ loaded' = [loaded EXCEPT ![o] = NoLoad]

\* The serializer decodes the fresh payload and the hit is served.
ServeHit(o) ==
    /\ pc[o] = "deserialize"
    /\ Return(o, got[o].frame.ver)
    /\ UNCHANGED <<envVars, startFence>>

\* The serializer rejects the payload: a miss that never recovers stale data
\* and carries no fence.
DeserializeFails(o) ==
    /\ pc[o] = "deserialize"
    /\ pc' = [pc EXCEPT ![o] = "load"]
    /\ got' = [got EXCEPT ![o] = Miss(NoFence)]
    /\ UNCHANGED <<envVars, loaded, result, startFence>>

\* The loader reads the source.
LoadSource(o) ==
    /\ pc[o] = "load"
    /\ pc' = [pc EXCEPT ![o] = "loaded"]
    /\ loaded' = [loaded EXCEPT ![o] = [ver |-> source, by |-> now + Dmax]]
    /\ UNCHANGED <<envVars, got, result, startFence>>

\* The loader rejects or times out, before or after it read the source; its
\* later value is ignored.  Without a retained candidate there is nothing to
\* recover, and the caller gets the loader's own error.
LoadFails(o) ==
    /\ pc[o] \in {"load", "loaded"}
    /\ IF got[o].kind = "retained"
       THEN /\ pc' = [pc EXCEPT ![o] = "failed"]
            /\ loaded' = [loaded EXCEPT ![o] = NoLoad]
            /\ UNCHANGED <<got, result>>
       ELSE Return(o, NoVersion)
    /\ UNCHANGED <<envVars, startFence>>

\* The loader fulfils after a failed read: there is no write.
ReturnUnwritten(o) ==
    /\ pc[o] = "loaded"
    /\ got[o].kind = "error"
    /\ Return(o, loaded[o].ver)
    /\ UNCHANGED <<envVars, startFence>>

\* The refill of o is stamped c, and the watermark that o's read observed
\* covers c.
FencedAt(o, c) == got[o].fence # NoFence /\ c <= got[o].fence

\* putWithLayer's first sample, taken when the loader fulfils, or its second
\* one, taken after serialization, does not clear the observed watermark: the
\* write is skipped.
SkipFencedRefill(o) ==
    /\ \/ pc[o] = "loaded" /\ got[o].kind # "error"
       \/ pc[o] = "serialize"
    /\ \E c \in Clock : FencedAt(o, c)
    /\ Return(o, loaded[o].ver)
    /\ UNCHANGED <<envVars, startFence>>

\* The loader fulfils and the first sample clears the fence, if there is one.
BeginSerialize(o) ==
    /\ pc[o] = "loaded" /\ got[o].kind # "error"
    /\ \E c \in Clock : ~FencedAt(o, c)
    /\ pc' = [pc EXCEPT ![o] = "serialize"]
    /\ UNCHANGED <<envVars, got, loaded, result, startFence>>

\* The second sample clears the fence too and stamps the frame of the SET.
DispatchSet(o) ==
    /\ pc[o] = "serialize"
    /\ \E c \in Clock :
          /\ ~FencedAt(o, c)
          /\ sets' = sets \cup {[ver |-> loaded[o].ver, createdAtMs |-> c,
                                 by |-> loaded[o].by]}
    /\ pc' = [pc EXCEPT ![o] = "write"]
    /\ got' = [got EXCEPT ![o] = Nothing]
    /\ loaded' = [loaded EXCEPT ![o].by = 0]
    /\ UNCHANGED <<worldVars, redisVars, scripts, result, startFence, invVars>>

\* Serialization or compression throws; the write is skipped and the error is
\* swallowed.
SerializeFails(o) ==
    /\ pc[o] = "serialize"
    /\ Return(o, loaded[o].ver)
    /\ UNCHANGED <<envVars, startFence>>

\* The write settles, by its reply or by an error that proves nothing about
\* its execution.
WriteSettles(o) ==
    /\ pc[o] = "write"
    /\ Return(o, loaded[o].ver)
    /\ UNCHANGED <<envVars, startFence>>

\* Recovery is denied by the predicate, or the candidate is too old or does
\* not decode: the caller gets the loader's own error.
Reject(o) ==
    /\ pc[o] \in {"failed", "recover"}
    /\ Return(o, NoVersion)
    /\ UNCHANGED <<envVars, startFence>>

\* The retained frame is younger than M at clock time c.
Recoverable(o, c) ==
    LET age == c - got[o].frame.createdAtMs
    IN  0 <= age /\ age < maximumAgeMs

\* The predicate authorises recovery and the retained candidate passes the
\* first age check; its payload is handed to the serializer.
BeginRecovery(o) ==
    /\ pc[o] = "failed"
    /\ \E c \in Clock : Recoverable(o, c)
    /\ pc' = [pc EXCEPT ![o] = "recover"]
    /\ UNCHANGED <<envVars, got, loaded, result, startFence>>

\* The payload is decoded and the candidate passes the second age check.
ServeRecovered(o) ==
    /\ pc[o] = "recover"
    /\ \E c \in Clock : Recoverable(o, c)
    /\ Return(o, got[o].frame.ver)
    /\ UNCHANGED <<envVars, startFence>>

-----------------------------------------------------------------------------
(* A call of invalidateRemote *)

Script(i, cmd, call) == [inv |-> i, cmd |-> cmd, at |-> call.at,
                         buffer |-> call.buffer, ver |-> call.ver]

\* The adapter samples its clock once and sends EVALSHA.  The call is made
\* after the mutation to version `source` has committed.
Invalidate(i, buffer) ==
    /\ inv[i].pc = "idle"
    /\ \E c \in Clock :
          LET call == [pc |-> "EVALSHA", at |-> c, buffer |-> buffer,
                       ver |-> source]
          IN  /\ inv' = [inv EXCEPT ![i] = call]
              /\ scripts' = scripts \cup {Script(i, "EVALSHA", call)}
    /\ UNCHANGED <<worldVars, redisVars, sets, opVars, fenced>>

\* Redis runs the script.  Its reply reaches the caller, unless the caller
\* has already given this attempt up.
ExecScript(s) ==
    /\ s \in scripts
    /\ scripts' = scripts \ {s}
    /\ wm' = INVALIDATE_CACHE_SCRIPT(wm, s.at, s.buffer)
    /\ fenced' = IF s.buffer >= SufficientBuffer THEN Larger(fenced, s.ver)
                 ELSE fenced
    /\ inv' = [inv EXCEPT ![s.inv].pc = IF @ = s.cmd THEN "ok" ELSE @]
    /\ UNCHANGED <<worldVars, value, sets, opVars>>

\* A script never reaches Redis, or Redis does not know its digest.
LoseScript(s) ==
    /\ s \in scripts
    /\ scripts' = scripts \ {s}
    /\ UNCHANGED <<worldVars, redisVars, sets, opVars, invVars>>

\* EVALSHA rejects for whatever reason, executed or not: the adapter sends
\* the source as EVAL with the same arguments.
RetryWithEval(i) ==
    /\ inv[i].pc = "EVALSHA"
    /\ inv' = [inv EXCEPT ![i].pc = "EVAL"]
    /\ scripts' = scripts \cup {Script(i, "EVAL", inv[i])}
    /\ UNCHANGED <<worldVars, redisVars, sets, opVars, fenced>>

\* EVAL rejects too and the error surfaces to the caller.
InvalidateFails(i) ==
    /\ inv[i].pc = "EVAL"
    /\ inv' = [inv EXCEPT ![i].pc = "error"]
    /\ UNCHANGED <<worldVars, redisVars, netVars, opVars, fenced>>

-----------------------------------------------------------------------------
OpNext(o) ==
    \/ StartRead(o) \/ ReadTracked(o) \/ ReadFails(o) \/ ClassifyReply(o)
    \/ ServeHit(o) \/ DeserializeFails(o)
    \/ LoadSource(o) \/ LoadFails(o) \/ ReturnUnwritten(o)
    \/ SkipFencedRefill(o) \/ BeginSerialize(o)
    \/ DispatchSet(o) \/ SerializeFails(o) \/ WriteSettles(o)
    \/ Reject(o) \/ BeginRecovery(o) \/ ServeRecovered(o)

InvNext(i) ==
    \/ \E b \in FutureBuffers : Invalidate(i, b)
    \/ RetryWithEval(i) \/ InvalidateFails(i)

RedisNext ==
    \/ \E m \in sets : ExecSet(m)
    \/ \E m \in sets : LoseSet(m)
    \/ \E s \in scripts : ExecScript(s)
    \/ \E s \in scripts : LoseScript(s)
    \/ EvictValue

Next ==
    \/ Tick \/ Mutate \/ RedisNext
    \/ \E o \in Ops : OpNext(o)
    \/ \E i \in Invalidators : InvNext(i)

Spec == Init /\ [][Next]_vars

-----------------------------------------------------------------------------
(* Properties *)

Calls == [pc : {"idle", "EVALSHA", "EVAL", "ok", "error"}, at : Nat,
          buffer : Nat, ver : Nat]

\* Every variable has its type.
TypeOK ==
    /\ now \in Nat /\ now > Behind /\ source \in Nat
    /\ value \in Frames /\ wm \in Watermarks
    /\ sets \subseteq [ver : Nat, createdAtMs : Nat \ {0}, by : Nat]
    /\ scripts \subseteq [inv : Invalidators, cmd : {"EVALSHA", "EVAL"},
                          at : Nat, buffer : Nat, ver : Nat]
    /\ pc \in [Ops -> {"idle", "read", "reply", "deserialize", "load", "loaded",
                       "serialize", "write", "failed", "recover", "done"}]
    /\ got \in [Ops -> [kind : {"none", "frame", "miss", "hit", "retained",
                                "error"},
                        fence : Nat \cup {NoFence}, frame : DecodedFrames]]
    /\ loaded \in [Ops -> [ver : Nat \cup {NoVersion}, by : Nat]]
    /\ \A o \in Ops : pc[o] \in {"loaded", "serialize", "write"} =>
          loaded[o].ver # NoVersion
    /\ result \in [Ops -> Nat \cup {NoVersion}]
    /\ inv \in [Invalidators -> Calls]
    /\ fenced \in Nat
    /\ startFence \in [Ops -> Nat]

\* Once an invalidation script with a sufficient buffer has run, no tracked
\* read decodes a frame loaded before the mutation it announced: not one that
\* was stored before, not one whose SET was still on its way, not one whose
\* loader was still running, and not after the watermark has expired.
InvalidatedNeverReadable ==
    LET r == decodeTrackedRedisReadResult(value, wm)
    IN  r.kind = "frame" => r.frame.ver >= fenced

\* An invocation that starts after such an invalidation returns the mutated
\* version or a newer one, whether it hits, loads, skips its refill, or
\* recovers a retained frame after its loader failed.
ServedAfterFence ==
    \A o \in Ops : result[o] # NoVersion => result[o] >= startFence[o]

\* The derived watermark lifetime: while a frame that an invalidation made
\* stale is stored, the watermark is present, fences it, and expires no
\* earlier than the frame does.
WatermarkOutlivesStaleFrames ==
    value.kind = "frame" /\ value.createdAtMs > 0 /\ value.ver < fenced =>
        /\ wm.kind = "valid"
        /\ value.createdAtMs <= wm.ms
        /\ wm.exp = NoExpiry \/ value.exp <= wm.exp

\* A stored watermark is never moved back and its expiry never brought
\* forward, whatever the order in which scripts of several callers, their
\* retries and their late copies run; only expiry removes it.
WatermarkOnlyAdvances ==
    [][wm.kind = "valid" /\ wm' # wm =>
          \/ /\ wm' = NoWatermark
             /\ wm.exp # NoExpiry /\ wm.exp <= now'
          \/ /\ wm'.kind = "valid" /\ wm'.ms >= wm.ms
             /\ \/ wm'.exp = NoExpiry
                \/ wm.exp # NoExpiry /\ wm'.exp >= wm.exp]_vars

\* A refill skipped because of the fence observed at read time would indeed
\* have been unreadable: when it is skipped, the watermark its invocation
\* observed has neither expired nor been replaced by a lower one.
SkippedRefillsAreFenced ==
    [][\A o \in Ops :
          SkipFencedRefill(o) => wm.kind = "valid" /\ got[o].fence <= wm.ms]_vars

\* In true time, a value classified as a fresh hit was loaded less than
\* F + Dmax plus the clock error before, and one served by stale recovery less
\* than M + Dmax plus the clock error before the moment it is served, however
\* long the loader and the serializer took (getWithResolvedConfig,
\* recoverRetainedCandidate).
HitsAreBoundedInAge ==
    [][\A o \in Ops :
          /\ pc[o] = "reply" /\ pc'[o] = "deserialize" =>
                now < got[o].frame.by + freshAgeMs + Ahead + Behind
          /\ pc[o] = "recover" /\ pc'[o] = "done" /\ result'[o] # NoVersion =>
                now < got[o].frame.by + maximumAgeMs + Ahead + Behind]_vars

-----------------------------------------------------------------------------
(* Why it holds: an inductive strengthening *)

\* The loaded versions that Redis holds or may still come to hold, each with
\* the time by which it had to get there.
StoredWork ==
    IF value.kind = "frame" /\ value.createdAtMs > 0
    THEN {[ver |-> value.ver, by |-> value.by]} ELSE {}
LiveWork ==
    {loaded[o] : o \in {p \in Ops : HoldsLoad(p)}}
       \cup {[ver |-> m.ver, by |-> m.by] : m \in sets}
       \cup StoredWork

\* Whatever work due at b stores or has stored, the watermark fences it, and
\* expires no earlier.
Covered(b) ==
    /\ wm.kind = "valid"
    /\ b + Ahead <= wm.ms
    /\ wm.exp = NoExpiry \/ b + MAX_TRACKED_REDIS_VALUE_TTL_MS <= wm.exp

\* An invalidation's single clock sample dates it: work on versions it makes
\* stale was loaded before the sample, however late its script runs.
SampleDates(ver, at) ==
    /\ ver <= source
    /\ at <= now + Ahead
    /\ \A w \in LiveWork : w.ver < ver => w.by <= at + Behind + Dmax

\* All stale work is covered by the watermark, and so will be the work that
\* the invalidations under way make stale; every stored or travelling frame is
\* stamped and retained within the bounds that this relies on.
FenceInv ==
    /\ fenced <= source
    /\ \A w \in LiveWork : w.ver <= source /\ w.by <= now + Dmax
    /\ \A w \in LiveWork : w.ver < fenced => Covered(w.by)
    /\ \A o \in Ops : HoldsLoad(o) => now <= loaded[o].by
    /\ \A m \in sets : now <= m.by /\ m.createdAtMs <= m.by + Ahead
    /\ value.kind = "frame" /\ value.createdAtMs > 0 =>
          /\ value.createdAtMs <= value.by + Ahead
          /\ value.exp <= value.by + MAX_TRACKED_REDIS_VALUE_TTL_MS
    /\ \A s \in scripts : SampleDates(s.ver, s.at)
    /\ \A i \in Invalidators : inv[i].pc # "idle" =>
          SampleDates(inv[i].ver, inv[i].at)

\* What invocation o's read has produced, by where its control is.
OpShape(o) ==
    /\ pc[o] = "idle" => got[o] = Nothing /\ result[o] = NoVersion
    /\ pc[o] = "reply" => got[o].kind \in {"miss", "frame"}
    /\ pc[o] = "deserialize" => got[o].kind = "hit"
    /\ pc[o] \in {"failed", "recover"} => got[o].kind = "retained"

\* Invocation o never holds, under any outcome of its read, its loader or its
\* recovery, a version older than the fence it started under.
OpFresh(o) ==
    /\ startFence[o] <= fenced
    /\ got[o].kind \in {"frame", "hit", "retained"} =>
          /\ got[o].frame.ver >= startFence[o]
          /\ got[o].frame.createdAtMs <= got[o].frame.by + Ahead
    /\ pc[o] \in {"loaded", "serialize", "write"} =>
          loaded[o].ver >= startFence[o]
    /\ result[o] # NoVersion => result[o] >= startFence[o]

OpOK(o) == OpShape(o) /\ OpFresh(o)

OpInv == \A o \in Ops : OpOK(o)

\* A watermark that outlives the last application clock's passing of it.
Lasting(w) ==
    w.kind = "valid" => w.exp = NoExpiry \/ w.ms + Behind < w.exp

\* A fence that an invocation observed still stands, at its value or a later
\* one, for as long as some clock has not passed it.
FencesStand ==
    /\ Lasting(wm)
    /\ \A o \in Ops :
          got[o].fence # NoFence /\ now <= got[o].fence + Behind =>
             wm.kind = "valid" /\ got[o].fence <= wm.ms

\* What that takes of a deployment: the clocks disagree by less than the
\* script adds to a watermark's life, and the watermarks it starts with last.
WatermarksLast ==
    /\ Ahead + Behind < MAX_TRACKED_REDIS_VALUE_TTL_MS + WATERMARK_TTL_MARGIN_MS
    /\ \A w \in InitialWatermarks : Lasting(w)
=============================================================================
