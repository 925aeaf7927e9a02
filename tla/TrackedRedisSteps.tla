------------------------- MODULE TrackedRedisSteps --------------------------
(* What the operators of TrackedRedis compute, that its steps keep the types, *)
(* what a step of an invocation leaves alone, and how the work that can put a *)
(* version into Redis moves, for any number of invocations and invalidators   *)
(* and any values of the constants.                                           *)
EXTENDS TrackedRedis, TLAPS

-----------------------------------------------------------------------------
(* Facts about the operators *)

\* A clock sample is a positive number within the clock's error of true time.
LEMMA ClockSample ==
    ASSUME TypeOK, NEW c \in Clock
    PROVE  c \in Nat \ {0} /\ now - Behind <= c /\ c <= now + Ahead
BY TrackedRedisAssumption DEF TypeOK, Clock

\* A tracked read yields a frame or a miss; a frame it yields is the stored
\* one, and no valid watermark reaches its stamp.
LEMMA ReadOutcome ==
    ASSUME TypeOK
    PROVE  LET r == decodeTrackedRedisReadResult(value, wm)
           IN  /\ r \in [kind : {"miss", "frame"}, fence : Nat \cup {NoFence},
                         frame : DecodedFrames]
               /\ r.kind = "frame" =>
                     /\ value.kind = "frame" /\ value.createdAtMs > 0
                     /\ wm.kind = "valid" => value.createdAtMs > wm.ms
                     /\ r.frame = [ver |-> value.ver, by |-> value.by,
                                   createdAtMs |-> value.createdAtMs]
<1> USE DEF Miss, Found, NoDecoded, DecodedFrames, NoFence
<1>1. value \in Frames /\ wm \in Watermarks
  BY DEF TypeOK
<1>2. parseRedisWatermark(wm) \in Nat \cup {NoFence}
  BY <1>1 DEF parseRedisWatermark, Watermarks
<1>3. value.ver \in Nat /\ value.createdAtMs \in Nat /\ value.by \in Nat
  BY <1>1 DEF Frames
<1>4. CASE value.kind # "frame"
  BY <1>2, <1>4 DEF decodeTrackedRedisReadResult
<1>5. CASE value.kind = "frame" /\ wm.kind = "malformed"
  BY <1>5 DEF decodeTrackedRedisReadResult
<1>6. CASE value.kind = "frame" /\ wm.kind # "malformed"
  <2> DEFINE fence == parseRedisWatermark(wm)
  <2>1. decodeTrackedRedisReadResult(value, wm) = decodeTrackedFrame(value, fence)
    BY <1>6 DEF decodeTrackedRedisReadResult
  <2>2. CASE value.createdAtMs = 0
    BY <1>2, <2>1, <2>2 DEF decodeTrackedFrame
  <2>3. CASE value.createdAtMs > 0 /\ fence # NoFence /\ value.createdAtMs <= fence
    BY <1>2, <1>3, <2>1, <2>3 DEF decodeTrackedFrame
  <2>4. CASE value.createdAtMs > 0 /\ ~(fence # NoFence /\ value.createdAtMs <= fence)
    <3>1. decodeTrackedFrame(value, fence) = Found("frame", decodedRedisFrame(value))
      BY <1>2, <1>3, <2>4 DEF decodeTrackedFrame
    <3>2. wm.kind = "valid" => value.createdAtMs > wm.ms
      BY <1>1, <1>3, <2>4 DEF parseRedisWatermark, Watermarks
    <3> QED
      BY <1>3, <1>6, <2>1, <2>4, <3>1, <3>2 DEF decodedRedisFrame
  <2> QED
    BY <1>3, <2>2, <2>3, <2>4
<1> QED
  BY <1>4, <1>5, <1>6

\* The invalidation script leaves a valid watermark that reaches the proposed
\* one, is not behind a valid one it replaces in value or in expiry, and
\* lives for the longest value lifetime past its own value.
LEMMA ScriptOutcome ==
    ASSUME TypeOK, NEW at \in Nat, NEW buffer \in Nat
    PROVE  LET w == INVALIDATE_CACHE_SCRIPT(wm, at, buffer)
           IN  /\ w \in Watermarks /\ w.kind = "valid" /\ w.ms >= at + buffer
               /\ wm.kind = "valid" => w.ms >= wm.ms
               /\ wm.kind = "valid" =>
                     \/ w.exp = NoExpiry
                     \/ wm.exp # NoExpiry /\ w.exp >= wm.exp
               /\ \/ w.exp = NoExpiry
                  \/ w.exp >= now + (w.ms - at) + MAX_TRACKED_REDIS_VALUE_TTL_MS
<1>1. wm.kind \in {"absent", "valid", "malformed", "wrongtype"}
        /\ wm.ms \in Nat /\ wm.exp \in Nat \cup {NoExpiry} /\ now \in Nat
  BY DEF TypeOK, Watermarks
<1> DEFINE present == wm.kind \in {"valid", "malformed"}
           ms == Larger(IF wm.kind = "valid" THEN wm.ms ELSE 0, at + buffer)
           desired == Larger(MIN_WATERMARK_TTL_MS,
                             ms - at + MAX_TRACKED_REDIS_VALUE_TTL_MS
                                     + WATERMARK_TTL_MARGIN_MS)
           exp == IF present /\ wm.exp = NoExpiry THEN NoExpiry
                  ELSE IF present THEN Larger(wm.exp, now + desired)
                  ELSE now + desired
<1>2. INVALIDATE_CACHE_SCRIPT(wm, at, buffer) = [kind |-> "valid", ms |-> ms, exp |-> exp]
  BY DEF INVALIDATE_CACHE_SCRIPT
<1>3. ms \in Nat /\ ms >= at + buffer /\ (wm.kind = "valid" => ms >= wm.ms)
  BY <1>1 DEF Larger
<1>4. desired \in Nat /\ desired >= ms - at + MAX_TRACKED_REDIS_VALUE_TTL_MS
  BY <1>3, TrackedRedisAssumption DEF Larger, MIN_WATERMARK_TTL_MS
<1>5. /\ exp \in Nat \cup {NoExpiry}
      /\ wm.kind = "valid" =>
            exp = NoExpiry \/ (wm.exp # NoExpiry /\ exp >= wm.exp)
      /\ exp = NoExpiry \/ exp >= now + desired
  <2> HIDE DEF ms, desired
  <2> QED
    BY <1>1, <1>4 DEF Larger, NoExpiry
<1>6. exp = NoExpiry \/ exp >= now + (ms - at) + MAX_TRACKED_REDIS_VALUE_TTL_MS
  <2> HIDE DEF ms, desired, exp
  <2> QED
    BY <1>1, <1>3, <1>4, <1>5, TrackedRedisAssumption DEF NoExpiry
<1> HIDE DEF ms, desired, exp
<1> QED
  BY <1>2, <1>3, <1>5, <1>6 DEF Watermarks

-----------------------------------------------------------------------------
(* Typing *)

\* The initial states are well typed.
THEOREM InitTypeOK == Init => TypeOK
BY TrackedRedisAssumption
   DEF Init, TypeOK, Nothing, NoLoad, NoCall, NoFence, NoVersion, NoDecoded,
       DecodedFrames, Calls, Frames

\* Every step keeps the types.
LEMMA NextTypeOK == TypeOK /\ [Next]_vars => TypeOK'
<1> SUFFICES ASSUME TypeOK, [Next]_vars PROVE TypeOK'
  OBVIOUS
<1> USE DEF TypeOK, envVars, worldVars, redisVars, netVars, opVars, invVars
<1>1. CASE UNCHANGED vars
  BY <1>1 DEF vars
<1>a. NoFrame \in Frames /\ NoWatermark \in Watermarks
  BY DEF NoFrame, Frames, NoWatermark, Watermarks
<1>2. CASE Tick
  <2>1. now' \in Nat /\ now' > Behind
    BY <1>2, TrackedRedisAssumption DEF Tick
  <2>2. value' \in Frames /\ wm' \in Watermarks
    BY <1>2, <1>a DEF Tick
  <2> QED
    BY <1>2, <2>1, <2>2 DEF Tick
<1>3. CASE Mutate
  BY <1>3 DEF Mutate
<1>4. CASE EvictValue
  BY <1>4, <1>a DEF EvictValue
<1>5. ASSUME NEW m \in sets, ExecSet(m) PROVE TypeOK'
  BY <1>5, TrackedRedisAssumption DEF ExecSet, cacheTtlMs, Smaller, Frames
<1>6. ASSUME NEW m \in sets, LoseSet(m) PROVE TypeOK'
  BY <1>6 DEF LoseSet
<1>7. ASSUME NEW s \in scripts, ExecScript(s) PROVE TypeOK'
  <2>1. s.at \in Nat /\ s.buffer \in Nat /\ s.ver \in Nat /\ s.inv \in Invalidators
    OBVIOUS
  <2>2. wm' \in Watermarks
    BY <1>7, <2>1, ScriptOutcome DEF ExecScript
  <2>3. fenced' \in Nat
    BY <1>7, <2>1 DEF ExecScript, Larger
  <2>4. inv' \in [Invalidators -> Calls]
    BY <1>7, <2>1 DEF ExecScript, Calls
  <2> QED
    BY <1>7, <2>2, <2>3, <2>4 DEF ExecScript
<1>8. ASSUME NEW s \in scripts, LoseScript(s) PROVE TypeOK'
  <2> HIDE DEF TypeOK
  <2>1. /\ scripts' \subseteq scripts
        /\ UNCHANGED <<worldVars, redisVars, sets, opVars, invVars>>
    BY <1>8 DEF LoseScript
  <2> QED
    BY <2>1 DEF TypeOK
<1>9. ASSUME NEW o \in Ops, OpNext(o) PROVE TypeOK'
  <2> USE DEF Return, Nothing, Failed, Miss, Found, NoDecoded, NoFence,
              NoVersion, NoLoad, DecodedFrames
  <2>1. CASE StartRead(o)
    BY <2>1 DEF StartRead
  <2>2. CASE ReadTracked(o)
    BY <2>2, ReadOutcome DEF ReadTracked
  <2>3. CASE ReadFails(o)
    BY <2>3 DEF ReadFails
  <2>4. CASE ClassifyReply(o)
    BY <2>4 DEF ClassifyReply, Classified
  <2>5. CASE ServeHit(o)
    BY <2>5 DEF ServeHit
  <2>6. CASE DeserializeFails(o)
    BY <2>6 DEF DeserializeFails
  <2>7. CASE LoadSource(o)
    BY <2>7, TrackedRedisAssumption DEF LoadSource
  <2>8. CASE LoadFails(o)
    <3>1. CASE got[o].kind = "retained"
      <4>1. /\ pc' = [pc EXCEPT ![o] = "failed"]
            /\ loaded' = [loaded EXCEPT ![o] = NoLoad]
            /\ UNCHANGED <<envVars, got, result, startFence>>
        BY <2>8, <3>1 DEF LoadFails
      <4> QED
        BY <4>1
    <3>2. CASE got[o].kind # "retained"
      <4>1. Return(o, NoVersion) /\ UNCHANGED <<envVars, startFence>>
        BY <2>8, <3>2 DEF LoadFails
      <4> QED
        BY <4>1
    <3> QED
      BY <3>1, <3>2
  <2>9. CASE ReturnUnwritten(o) \/ SkipFencedRefill(o) \/ SerializeFails(o)
               \/ WriteSettles(o)
    <3>1. Return(o, loaded[o].ver) /\ UNCHANGED <<envVars, startFence>>
      BY <2>9 DEF ReturnUnwritten, SkipFencedRefill, SerializeFails, WriteSettles
    <3> QED
      BY <3>1
  <2>10. CASE BeginSerialize(o)
    BY <2>10 DEF BeginSerialize
  <2>11. CASE DispatchSet(o)
    <3>1. PICK c \in Clock :
             sets' = sets \cup {[ver |-> loaded[o].ver, createdAtMs |-> c,
                                 by |-> loaded[o].by]}
      BY <2>11 DEF DispatchSet
    <3>2. c \in Nat \ {0}
      BY <3>1, ClockSample
    <3> QED
      BY <2>11, <3>1, <3>2 DEF DispatchSet
  <2>12. CASE Reject(o)
    BY <2>12 DEF Reject
  <2>13. CASE BeginRecovery(o)
    BY <2>13 DEF BeginRecovery
  <2>14. CASE ServeRecovered(o)
    BY <2>14 DEF ServeRecovered
  <2> HIDE DEF TypeOK, Return
  <2> QED
    BY <1>9, <2>1, <2>2, <2>3, <2>4, <2>5, <2>6, <2>7, <2>8, <2>9, <2>10,
       <2>11, <2>12, <2>13, <2>14 DEF OpNext
<1>10. ASSUME NEW i \in Invalidators, InvNext(i) PROVE TypeOK'
  <2>1. ASSUME NEW b \in FutureBuffers, Invalidate(i, b) PROVE TypeOK'
    <3>1. PICK c \in Clock :
             LET call == [pc |-> "EVALSHA", at |-> c, buffer |-> b, ver |-> source]
             IN  /\ inv' = [inv EXCEPT ![i] = call]
                 /\ scripts' = scripts \cup {Script(i, "EVALSHA", call)}
      BY <2>1, Zenon DEF Invalidate
    <3>2. UNCHANGED <<worldVars, redisVars, sets, opVars, fenced>>
      BY <2>1, Zenon DEF Invalidate
    <3>3. c \in Nat /\ b \in Nat
      BY ClockSample, TrackedRedisAssumption
    <3>4. inv' \in [Invalidators -> Calls]
      BY <3>1, <3>3 DEF Calls
    <3>5. scripts' \subseteq [inv : Invalidators, cmd : {"EVALSHA", "EVAL"},
                              at : Nat, buffer : Nat, ver : Nat]
      BY <3>1, <3>3 DEF Script
    <3> QED
      BY <3>2, <3>4, <3>5
  <2>2. CASE RetryWithEval(i)
    BY <2>2 DEF RetryWithEval, Script, Calls
  <2>3. CASE InvalidateFails(i)
    BY <2>3 DEF InvalidateFails, Calls
  <2> HIDE DEF TypeOK
  <2> QED
    BY <1>10, <2>1, <2>2, <2>3 DEF InvNext
<1> HIDE DEF TypeOK
<1> QED
  BY <1>1, <1>2, <1>3, <1>4, <1>5, <1>6, <1>7, <1>8, <1>9, <1>10
  DEF Next, RedisNext

\* Every variable of a reachable state has its type.
THEOREM Typing == Spec => []TypeOK
BY InitTypeOK, NextTypeOK, PTL DEF Spec

-----------------------------------------------------------------------------
(* What one invocation's step leaves alone *)

\* Invocation p keeps its state.
Same(p) ==
    /\ pc'[p] = pc[p] /\ got'[p] = got[p] /\ loaded'[p] = loaded[p]
    /\ result'[p] = result[p] /\ startFence'[p] = startFence[p]

\* A step of one invocation changes no other invocation, nothing in Redis and
\* no invalidation, and only DispatchSet changes what is on its way to Redis.
LEMMA OpLeaves ==
    ASSUME TypeOK, NEW o \in Ops, OpNext(o)
    PROVE  /\ UNCHANGED <<worldVars, redisVars, scripts, invVars>>
           /\ DispatchSet(o) \/ UNCHANGED sets
           /\ \A p \in Ops \ {o} : Same(p)
<1> DEFINE Goal == /\ UNCHANGED <<worldVars, redisVars, scripts, invVars>>
                   /\ DispatchSet(o) \/ UNCHANGED sets
                   /\ \A p \in Ops \ {o} : Same(p)
<1>a. /\ DOMAIN pc = Ops /\ pc = [p \in Ops |-> pc[p]]
      /\ DOMAIN got = Ops /\ got = [p \in Ops |-> got[p]]
      /\ DOMAIN loaded = Ops /\ loaded = [p \in Ops |-> loaded[p]]
      /\ DOMAIN result = Ops /\ result = [p \in Ops |-> result[p]]
      /\ DOMAIN startFence = Ops /\ startFence = [p \in Ops |-> startFence[p]]
  BY DEF TypeOK
<1> USE DEF envVars, netVars, Return, Same
<1>1. CASE StartRead(o) \/ ReadTracked(o) \/ ReadFails(o)
  BY <1>a, <1>1 DEF StartRead, ReadTracked, ReadFails
<1>2. CASE ClassifyReply(o)
  BY <1>a, <1>2 DEF ClassifyReply
<1>3. CASE ServeHit(o) \/ DeserializeFails(o) \/ LoadSource(o)
  BY <1>a, <1>3 DEF ServeHit, DeserializeFails, LoadSource
<1>4. CASE LoadFails(o)
  BY <1>a, <1>4 DEF LoadFails
<1>5. CASE ReturnUnwritten(o) \/ SkipFencedRefill(o) \/ BeginSerialize(o)
  BY <1>a, <1>5 DEF ReturnUnwritten, SkipFencedRefill, BeginSerialize
<1>6. CASE DispatchSet(o)
  <2>1. UNCHANGED <<worldVars, redisVars, scripts, invVars, result, startFence>>
    BY <1>6 DEF DispatchSet
  <2>2. /\ pc' = [pc EXCEPT ![o] = "write"]
        /\ got' = [got EXCEPT ![o] = Nothing]
        /\ loaded' = [loaded EXCEPT ![o].by = 0]
    BY <1>6 DEF DispatchSet
  <2> QED
    BY <1>a, <1>6, <2>1, <2>2
<1>7. CASE SerializeFails(o) \/ WriteSettles(o) \/ Reject(o)
  BY <1>a, <1>7 DEF SerializeFails, WriteSettles, Reject
<1>8. CASE BeginRecovery(o) \/ ServeRecovered(o)
  BY <1>a, <1>8 DEF BeginRecovery, ServeRecovered
<1> QED
  BY <1>1, <1>2, <1>3, <1>4, <1>5, <1>6, <1>7, <1>8, Zenon DEF OpNext

-----------------------------------------------------------------------------
(* The work that can put a version into Redis *)

\* Live work is what an invocation holds, what a SET carries, or what is
\* stored.
LEMMA WorkCases ==
    ASSUME NEW w
    PROVE  w \in LiveWork <=>
              \/ \E o \in Ops : HoldsLoad(o) /\ w = loaded[o]
              \/ \E m \in sets : w = [ver |-> m.ver, by |-> m.by]
              \/ /\ value.kind = "frame" /\ value.createdAtMs > 0
                 /\ w = [ver |-> value.ver, by |-> value.by]
BY DEF LiveWork, StoredWork

\* The same after a step.
LEMMA WorkCasesPrime ==
    ASSUME NEW w
    PROVE  w \in LiveWork' <=>
              \/ \E o \in Ops : HoldsLoad(o)' /\ w = loaded'[o]
              \/ \E m \in sets' : w = [ver |-> m.ver, by |-> m.by]
              \/ /\ value'.kind = "frame" /\ value'.createdAtMs > 0
                 /\ w = [ver |-> value'.ver, by |-> value'.by]
BY DEF LiveWork, StoredWork

\* Live work has a version and a bound.
LEMMA WorkType == TypeOK => \A w \in LiveWork : w.ver \in Nat /\ w.by \in Nat
<1> SUFFICES ASSUME TypeOK, NEW w \in LiveWork
             PROVE  w.ver \in Nat /\ w.by \in Nat
  OBVIOUS
<1>1. CASE \E o \in Ops : HoldsLoad(o) /\ w = loaded[o]
  BY <1>1 DEF TypeOK, HoldsLoad
<1>2. CASE \E m \in sets : w = [ver |-> m.ver, by |-> m.by]
  BY <1>2 DEF TypeOK
<1>3. CASE w = [ver |-> value.ver, by |-> value.by]
  BY <1>3 DEF TypeOK, Frames
<1> QED
  BY <1>1, <1>2, <1>3, WorkCases

\* The same after a step.
LEMMA WorkTypePrime == TypeOK' => (\A w \in LiveWork : w.ver \in Nat /\ w.by \in Nat)'
BY WorkType, PTL

\* After a step of its own, an invocation holds a load only if it has just
\* loaded or begun to serialize.
LEMMA DropsLoad ==
    ASSUME TypeOK, NEW o \in Ops, OpNext(o), ~LoadSource(o), ~BeginSerialize(o)
    PROVE  ~HoldsLoad(o)'
<1>a. pc = [p \in Ops |-> pc[p]]
  BY DEF TypeOK
<1> USE DEF Return, HoldsLoad
<1>1. CASE StartRead(o) \/ ReadTracked(o) \/ ReadFails(o) \/ ClassifyReply(o)
  BY <1>a, <1>1 DEF StartRead, ReadTracked, ReadFails, ClassifyReply
<1>2. CASE ServeHit(o) \/ DeserializeFails(o) \/ LoadFails(o)
  BY <1>a, <1>2 DEF ServeHit, DeserializeFails, LoadFails
<1>3. CASE ReturnUnwritten(o) \/ SkipFencedRefill(o)
  BY <1>a, <1>3 DEF ReturnUnwritten, SkipFencedRefill
<1>4. CASE DispatchSet(o)
  BY <1>a, <1>4 DEF DispatchSet
<1>5. CASE SerializeFails(o) \/ WriteSettles(o) \/ Reject(o)
  BY <1>a, <1>5 DEF SerializeFails, WriteSettles, Reject
<1>6. CASE BeginRecovery(o) \/ ServeRecovered(o)
  BY <1>a, <1>6 DEF BeginRecovery, ServeRecovered
<1> QED
  BY <1>1, <1>2, <1>3, <1>4, <1>5, <1>6 DEF OpNext

\* What an invocation holds after its own step it has just loaded, or held.
LEMMA KeepsLoad ==
    ASSUME TypeOK, NEW o \in Ops, OpNext(o), HoldsLoad(o)'
    PROVE  LoadSource(o) \/ (loaded'[o] = loaded[o] /\ HoldsLoad(o))
<1>1. LoadSource(o) \/ BeginSerialize(o)
  BY DropsLoad
<1> QED
  BY <1>1 DEF BeginSerialize, HoldsLoad

\* Only a loader creates live work, on the current version; every other step
\* moves it towards Redis or drops it.
LEMMA WorkMoves ==
    ASSUME TypeOK, [Next]_vars, NEW w \in LiveWork'
    PROVE  \/ w \in LiveWork
           \/ /\ w = [ver |-> source, by |-> now + Dmax]
              /\ UNCHANGED envVars
<1> USE DEF envVars, worldVars, redisVars, netVars, opVars, invVars
<1> DEFINE Goal == \/ w \in LiveWork
                   \/ /\ w = [ver |-> source, by |-> now + Dmax]
                      /\ UNCHANGED envVars
<1>1. CASE UNCHANGED <<loaded, pc, sets>> /\ (value' = value \/ value' = NoFrame)
  <2>1. \A o \in Ops : loaded'[o] = loaded[o] /\ HoldsLoad(o)' = HoldsLoad(o)
    BY <1>1 DEF HoldsLoad
  <2>2. value'.kind = "frame" => value' = value
    BY <1>1 DEF NoFrame
  <2>3. w \in LiveWork
    BY <1>1, <2>1, <2>2, WorkCases, WorkCasesPrime
  <2> QED
    BY <2>3
<1>2. ASSUME NEW m \in sets, ExecSet(m) PROVE Goal
  BY <1>2, WorkCases, WorkCasesPrime DEF ExecSet, HoldsLoad
<1>3. ASSUME NEW m \in sets, LoseSet(m) PROVE Goal
  BY <1>3, WorkCases, WorkCasesPrime DEF LoseSet, HoldsLoad
<1>4. ASSUME NEW o \in Ops, OpNext(o) PROVE Goal
  <2>1. CASE LoadSource(o)
    BY <2>1, WorkCases, WorkCasesPrime, Zenon DEF LoadSource, HoldsLoad, TypeOK
  <2>2. CASE BeginSerialize(o)
    BY <2>2, WorkCases, WorkCasesPrime, Zenon DEF BeginSerialize, HoldsLoad, TypeOK
  <2>3. CASE DispatchSet(o)
    <3>1. HoldsLoad(o) /\ ~HoldsLoad(o)'
      BY <2>3 DEF DispatchSet, HoldsLoad, TypeOK
    <3>2. \A p \in Ops \ {o} : loaded'[p] = loaded[p] /\ HoldsLoad(p)' = HoldsLoad(p)
      BY <2>3 DEF DispatchSet, HoldsLoad, TypeOK
    <3>3. \A m \in sets' : m \in sets \/ [ver |-> m.ver, by |-> m.by] = loaded[o]
      BY <2>3 DEF DispatchSet, TypeOK
    <3>4. value' = value
      BY <2>3 DEF DispatchSet
    <3> QED
      BY <3>1, <3>2, <3>3, <3>4, WorkCases, WorkCasesPrime, Zenon
  <2>4. CASE ~LoadSource(o) /\ ~BeginSerialize(o) /\ ~DispatchSet(o)
    <3>1. sets' = sets /\ value' = value
      BY <1>4, <2>4, OpLeaves
    <3>2. ~HoldsLoad(o)'
      BY <1>4, <2>4, DropsLoad
    <3>3. \A p \in Ops \ {o} : loaded'[p] = loaded[p] /\ HoldsLoad(p)' = HoldsLoad(p)
      BY <1>4, OpLeaves DEF Same, HoldsLoad
    <3> QED
      BY <3>1, <3>2, <3>3, WorkCases, WorkCasesPrime
  <2> QED
    BY <2>1, <2>2, <2>3, <2>4
<1>5. CASE Tick \/ Mutate \/ EvictValue \/ UNCHANGED vars
  BY <1>1, <1>5, Zenon DEF Tick, Mutate, EvictValue, vars
<1>6. ASSUME NEW s \in scripts, ExecScript(s) \/ LoseScript(s) PROVE Goal
  BY <1>1, <1>6 DEF ExecScript, LoseScript
<1>7. ASSUME NEW i \in Invalidators, InvNext(i) PROVE Goal
  BY <1>1, <1>7 DEF InvNext, Invalidate, RetryWithEval, InvalidateFails
<1> QED
  BY <1>2, <1>3, <1>4, <1>5, <1>6, <1>7 DEF Next, RedisNext

-----------------------------------------------------------------------------
(* The fence *)

\* At first there is no live work and no fence.
THEOREM InitFenceInv == Init => FenceInv
<1> SUFFICES ASSUME Init PROVE FenceInv
  OBVIOUS
<1>1. \A w : w \notin LiveWork
  BY WorkCases, TrackedRedisAssumption DEF Init, HoldsLoad, Frames
<1> QED
  BY <1>1, TrackedRedisAssumption DEF Init, FenceInv, HoldsLoad, NoCall, Frames

\* Time and the source only move forward, by one.
LEMMA Forward ==
    ASSUME TypeOK, [Next]_vars
    PROVE  /\ now' \in Nat /\ source' \in Nat
           /\ now <= now' /\ source <= source' /\ source \in Nat
           /\ now + Dmax <= now' + Dmax /\ now + Dmax \in Nat /\ now' + Dmax \in Nat
<1> USE DEF envVars, worldVars, redisVars, netVars, opVars, invVars
<1> now \in Nat /\ source \in Nat /\ Dmax \in Nat
  BY TrackedRedisAssumption DEF TypeOK
<1>1. CASE Tick \/ Mutate
  <2>1. \/ now' = now + 1 /\ source' = source
        \/ now' = now /\ source' = source + 1
    BY <1>1, Zenon DEF Tick, Mutate
  <2> QED
    BY <2>1
<1>2. CASE RedisNext
  <2>1. now' = now /\ source' = source
    BY <1>2, Zenon DEF RedisNext, ExecSet, LoseSet, ExecScript, LoseScript, EvictValue
  <2> QED
    BY <2>1
<1>4. CASE (\E i \in Invalidators : InvNext(i)) \/ UNCHANGED vars
  BY <1>4 DEF InvNext, Invalidate, RetryWithEval, InvalidateFails, vars
<1>3. CASE \E o \in Ops : OpNext(o)
  BY <1>3, OpLeaves
<1> QED
  BY <1>1, <1>2, <1>3, <1>4 DEF Next

\* A sample keeps dating its invalidation, whatever is loaded after it.
LEMMA SampleKeepsDating ==
    ASSUME TypeOK, [Next]_vars, NEW ver \in Nat, NEW at \in Nat,
           SampleDates(ver, at)
    PROVE  SampleDates(ver, at)'
<1>1. ASSUME NEW w \in LiveWork', w.ver < ver
      PROVE  w.by <= at + Behind + Dmax
  <2>1. CASE w \in LiveWork
    BY <1>1, <2>1 DEF SampleDates
  <2>2. CASE w = [ver |-> source, by |-> now + Dmax]
    BY <1>1, <2>2 DEF SampleDates, TypeOK
  <2> QED
    BY <2>1, <2>2, WorkMoves
<1> QED
  BY <1>1, Forward, TrackedRedisAssumption DEF SampleDates, TypeOK

\* A valid watermark that covers work keeps covering it until the work is
\* gone: a script cannot move it back, and it does not expire first.
LEMMA StaysCovered ==
    ASSUME TypeOK, [Next]_vars, NEW b \in Nat, Covered(b),
           Tick => now' < b + MAX_TRACKED_REDIS_VALUE_TTL_MS
    PROVE  Covered(b)'
<1> USE DEF envVars, worldVars, redisVars, netVars, opVars, invVars
<1>1. CASE wm' = wm
  BY <1>1 DEF Covered
<1>2. CASE Tick
  <2>1. wm.exp # NoExpiry => wm.exp > now'
    BY <1>2, TrackedRedisAssumption DEF Covered, Tick, TypeOK, Watermarks
  <2> QED
    BY <1>1, <1>2, <2>1, TrackedRedisAssumption DEF Tick, TypeOK, Watermarks
<1>3. ASSUME NEW s \in scripts, ExecScript(s) PROVE Covered(b)'
  <2>1. s.at \in Nat /\ s.buffer \in Nat
    BY DEF TypeOK
  <2>2. /\ wm' \in Watermarks /\ wm \in Watermarks
        /\ wm'.kind = "valid" /\ wm'.ms >= wm.ms
        /\ wm'.exp = NoExpiry \/ (wm.exp # NoExpiry /\ wm'.exp >= wm.exp)
    <3>1. wm' = INVALIDATE_CACHE_SCRIPT(wm, s.at, s.buffer)
      BY <1>3, Zenon DEF ExecScript
    <3>2. wm \in Watermarks
      BY DEF TypeOK
    <3> QED
      BY <2>1, <3>1, <3>2, ScriptOutcome, Zenon DEF Covered
  <2>3. b + Ahead <= wm'.ms
    BY <2>2, TrackedRedisAssumption DEF Covered, Watermarks
  <2>4. wm'.exp = NoExpiry \/ b + MAX_TRACKED_REDIS_VALUE_TTL_MS <= wm'.exp
    BY <2>2, TrackedRedisAssumption DEF Covered, Watermarks, NoExpiry
  <2> QED
    BY <2>2, <2>3, <2>4 DEF Covered
<1>4. CASE \E o \in Ops : OpNext(o)
  BY <1>1, <1>4, OpLeaves
<1>5. CASE Mutate \/ EvictValue \/ (\E m \in sets : ExecSet(m) \/ LoseSet(m))
            \/ (\E s \in scripts : LoseScript(s))
            \/ (\E i \in Invalidators : InvNext(i)) \/ UNCHANGED vars
  BY <1>1, <1>5 DEF Mutate, EvictValue, ExecSet, LoseSet, LoseScript, InvNext,
                    Invalidate, RetryWithEval, InvalidateFails, vars
<1> QED
  BY <1>2, <1>3, <1>4, <1>5 DEF Next, RedisNext

\* A script with a sufficient buffer covers everything it makes stale.
LEMMA ScriptCovers ==
    ASSUME TypeOK, NEW s \in scripts, ExecScript(s), SampleDates(s.ver, s.at),
           s.buffer >= SufficientBuffer, NEW w \in LiveWork, w.ver < s.ver
    PROVE  Covered(w.by)'
<1>1. s.at \in Nat /\ s.buffer \in Nat /\ now \in Nat /\ w.by \in Nat
  BY WorkType DEF TypeOK
<1>2. /\ wm' \in Watermarks
      /\ wm'.kind = "valid" /\ wm'.ms >= s.at + s.buffer
      /\ \/ wm'.exp = NoExpiry
         \/ wm'.exp >= now + (wm'.ms - s.at) + MAX_TRACKED_REDIS_VALUE_TTL_MS
  BY <1>1, ScriptOutcome DEF ExecScript
<1>3. w.by <= s.at + Behind + Dmax /\ s.at <= now + Ahead
  BY DEF SampleDates
<1>4. wm'.ms \in Nat /\ wm'.exp \in Nat \cup {NoExpiry}
  BY <1>2 DEF Watermarks
<1>5. w.by + Ahead <= wm'.ms
  BY <1>1, <1>2, <1>3, <1>4, TrackedRedisAssumption DEF SufficientBuffer
<1>6. wm'.exp = NoExpiry \/ w.by + MAX_TRACKED_REDIS_VALUE_TTL_MS <= wm'.exp
  BY <1>1, <1>2, <1>3, <1>4, TrackedRedisAssumption DEF SufficientBuffer, NoExpiry
<1> QED
  BY <1>2, <1>5, <1>6 DEF Covered

\* Work that outlives a tick is still due, or its frame has not expired.
LEMMA TickLeavesTime ==
    ASSUME TypeOK, FenceInv, Tick, NEW w \in LiveWork'
    PROVE  now' < w.by + MAX_TRACKED_REDIS_VALUE_TTL_MS
<1>1. CASE \E o \in Ops : HoldsLoad(o)' /\ w = loaded'[o]
  BY <1>1, TrackedRedisAssumption DEF HoldsLoad, Tick, TypeOK, opVars
<1>2. CASE \E m \in sets' : w = [ver |-> m.ver, by |-> m.by]
  BY <1>2, TrackedRedisAssumption DEF Tick, TypeOK, netVars
<1>3. CASE value'.kind = "frame" /\ value'.createdAtMs > 0
             /\ w = [ver |-> value'.ver, by |-> value'.by]
  <2>1. /\ value' = IF value.kind # "absent" /\ value.exp <= now' THEN NoFrame ELSE value
        /\ now' \in Nat
    BY DEF Tick, TypeOK
  <2>2. value \in Frames
    BY DEF TypeOK
  <2>3. value' = value /\ value.kind = "frame" /\ ~(value.exp <= now')
    BY <1>3, <2>1 DEF NoFrame
  <2>4. value.exp <= value.by + MAX_TRACKED_REDIS_VALUE_TTL_MS
    <3>1. value.kind = "frame" /\ value.createdAtMs > 0 =>
             value.exp <= value.by + MAX_TRACKED_REDIS_VALUE_TTL_MS
      BY Zenon DEF FenceInv
    <3> QED
      BY <1>3, <2>3, <3>1
  <2>5. value.exp \in Nat /\ value.by \in Nat /\ MAX_TRACKED_REDIS_VALUE_TTL_MS \in Nat
    BY <2>2, TrackedRedisAssumption DEF Frames
  <2>6. w.by = value.by
    BY <1>3, <2>3
  <2> QED
    BY <2>1, <2>3, <2>4, <2>5, <2>6
<1> QED
  BY <1>1, <1>2, <1>3, WorkCasesPrime

\* Only an executed script moves the fence.
LEMMA FenceWriters ==
    ASSUME TypeOK, [Next]_vars
    PROVE  fenced' = fenced \/ \E s \in scripts : ExecScript(s)
<1> USE DEF envVars, worldVars, redisVars, netVars, opVars, invVars
<1>1. CASE \E o \in Ops : OpNext(o)
  BY <1>1, OpLeaves
<1>2. CASE \E i \in Invalidators : InvNext(i)
  BY <1>2 DEF InvNext, Invalidate, RetryWithEval, InvalidateFails
<1>3. CASE Tick \/ Mutate \/ RedisNext \/ UNCHANGED vars
  <2>1. CASE Tick \/ Mutate \/ EvictValue \/ UNCHANGED vars
    BY <2>1, Zenon DEF Tick, Mutate, EvictValue, vars
  <2>2. CASE (\E m \in sets : ExecSet(m) \/ LoseSet(m)) \/ (\E s \in scripts : LoseScript(s))
    BY <2>2 DEF ExecSet, LoseSet, LoseScript
  <2> QED
    BY <1>3, <2>1, <2>2 DEF RedisNext
<1> QED
  BY <1>1, <1>2, <1>3 DEF Next

\* A call is in flight because it was, or because it has just been sampled;
\* a script carries the arguments of a call.
LEMMA NewCalls ==
    ASSUME TypeOK, [Next]_vars
    PROVE  /\ \A s \in scripts' :
                 \/ s \in scripts
                 \/ \E i \in Invalidators : /\ inv[i].pc # "idle"
                                            /\ s.ver = inv[i].ver /\ s.at = inv[i].at
                 \/ s.ver = source /\ s.at \in Clock /\ UNCHANGED worldVars
           /\ \A i \in Invalidators : inv'[i].pc # "idle" =>
                 \/ /\ inv[i].pc # "idle"
                    /\ inv'[i].ver = inv[i].ver /\ inv'[i].at = inv[i].at
                 \/ /\ inv'[i].ver = source /\ inv'[i].at \in Clock
                    /\ UNCHANGED worldVars
<1> USE DEF envVars, redisVars, netVars, opVars, invVars
<1>1. CASE scripts' \subseteq scripts /\ inv' = inv
  BY <1>1
<1>2. CASE \E o \in Ops : OpNext(o)
  BY <1>1, <1>2, OpLeaves
<1>3. CASE Tick \/ Mutate \/ EvictValue \/ UNCHANGED vars
            \/ (\E m \in sets : ExecSet(m) \/ LoseSet(m))
            \/ (\E s \in scripts : LoseScript(s))
  BY <1>1, <1>3, Zenon DEF Tick, Mutate, EvictValue, ExecSet, LoseSet, LoseScript, vars
<1>4. CASE \E s \in scripts : ExecScript(s)
  BY <1>4 DEF ExecScript, TypeOK, Calls
<1>5. CASE \E i \in Invalidators, b \in FutureBuffers : Invalidate(i, b)
  <2>1. PICK i \in Invalidators, b \in FutureBuffers : Invalidate(i, b)
    BY <1>5
  <2>2. PICK c \in Clock :
           LET call == [pc |-> "EVALSHA", at |-> c, buffer |-> b, ver |-> source]
           IN  /\ inv' = [inv EXCEPT ![i] = call]
               /\ scripts' = scripts \cup {Script(i, "EVALSHA", call)}
    BY <2>1, Zenon DEF Invalidate
  <2>3. UNCHANGED worldVars
    BY <2>1 DEF Invalidate
  <2>4. \A s \in scripts' : s \in scripts \/ (s.ver = source /\ s.at = c)
    BY <2>2 DEF Script
  <2>5. inv'[i].ver = source /\ inv'[i].at = c
    BY <2>2 DEF TypeOK
  <2>6. \A j \in Invalidators \ {i} : inv'[j] = inv[j]
    BY <2>2 DEF TypeOK
  <2> QED
    BY <2>3, <2>4, <2>5, <2>6
<1>6. CASE \E i \in Invalidators : RetryWithEval(i)
  <2>1. PICK i \in Invalidators : RetryWithEval(i)
    BY <1>6
  <2>2. inv[i].pc # "idle" /\ scripts' = scripts \cup {Script(i, "EVAL", inv[i])}
    BY <2>1 DEF RetryWithEval
  <2>3. \A s \in scripts' : s \in scripts \/ (s.ver = inv[i].ver /\ s.at = inv[i].at)
    <3>1. /\ Script(i, "EVAL", inv[i]).ver = inv[i].ver
          /\ Script(i, "EVAL", inv[i]).at = inv[i].at
      BY DEF Script
    <3> QED
      BY <2>2, <3>1
  <2>4. \A j \in Invalidators : inv'[j].pc # "idle" =>
           inv[j].pc # "idle" /\ inv'[j].ver = inv[j].ver /\ inv'[j].at = inv[j].at
    BY <2>1 DEF RetryWithEval, TypeOK, Calls
  <2> QED
    BY <2>2, <2>3, <2>4, Zenon
<1>7. CASE \E i \in Invalidators : InvalidateFails(i)
  BY <1>7 DEF InvalidateFails, TypeOK, Calls
<1> QED
  BY <1>2, <1>3, <1>4, <1>5, <1>6, <1>7, Zenon DEF Next, RedisNext, InvNext

=============================================================================
