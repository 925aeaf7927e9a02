------------------------- MODULE TrackedRedisProofs -------------------------
(* The inductive invariant of TrackedRedis and the properties that follow,    *)
(* for any number of invocations and invalidators and any values of the       *)
(* constants.                                                                 *)
EXTENDS TrackedRedisSteps

-----------------------------------------------------------------------------
(* The fence *)

\* The fence invariant is inductive.
LEMMA NextFenceInv ==
    ASSUME TypeOK, TypeOK', FenceInv, [Next]_vars
    PROVE  FenceInv'
<1> USE DEF envVars, worldVars, redisVars, netVars, opVars, invVars
<1>1. (fenced <= source)'
  <2>1. CASE fenced' = fenced
    BY <2>1, Forward DEF FenceInv, TypeOK
  <2>2. CASE fenced' # fenced
    <3>1. PICK s \in scripts : ExecScript(s)
      BY <2>2, FenceWriters
    <3>2. source' = source /\ fenced' = Larger(fenced, s.ver)
      BY <2>2, <3>1 DEF ExecScript
    <3> QED
      BY <3>2 DEF FenceInv, SampleDates, Larger
  <2> QED
    BY <2>1, <2>2
<1>2. (\A w \in LiveWork : w.ver <= source /\ w.by <= now + Dmax)'
  <2>a. /\ source <= source' /\ source \in Nat /\ source' \in Nat
        /\ now + Dmax <= now' + Dmax /\ now + Dmax \in Nat /\ now' + Dmax \in Nat
    BY Forward
  <2> SUFFICES ASSUME NEW w \in LiveWork'
               PROVE  w.ver <= source' /\ w.by <= now' + Dmax
    OBVIOUS
  <2>1. CASE w \in LiveWork
    <3>1. w.ver <= source /\ w.by <= now + Dmax /\ w.ver \in Nat /\ w.by \in Nat
      BY <2>1, WorkType DEF FenceInv
    <3>2. \A a, b, c \in Nat : a <= b /\ b <= c => a <= c
      OBVIOUS
    <3> QED
      BY <2>a, <3>1, <3>2
  <2>2. CASE w = [ver |-> source, by |-> now + Dmax]
    BY <2>2, <2>a
  <2> QED
    BY <2>1, <2>2, WorkMoves
<1>3. (\A w \in LiveWork : w.ver < fenced => Covered(w.by))'
  <2> SUFFICES ASSUME NEW w \in LiveWork', w.ver < fenced'
               PROVE  Covered(w.by)'
    OBVIOUS
  <2>1. w \in LiveWork
    <3>1. fenced <= source /\ fenced \in Nat /\ source \in Nat
      BY DEF FenceInv, TypeOK
    <3> QED
      BY <3>1, WorkMoves
  <2>2. w.ver \in Nat /\ w.by \in Nat
    BY <2>1, WorkType
  <2>3. CASE w.ver < fenced
    <3>1. Covered(w.by)
      BY <2>1, <2>3 DEF FenceInv
    <3> QED
      BY <2>2, <3>1, TickLeavesTime, StaysCovered
  <2>4. CASE ~(w.ver < fenced)
    <3>1. PICK s \in scripts : ExecScript(s)
      BY <2>4, FenceWriters
    <3>2. w.ver < s.ver /\ s.buffer >= SufficientBuffer
      BY <2>2, <2>4, <3>1 DEF ExecScript, Larger, TypeOK
    <3> QED
      BY <2>1, <3>1, <3>2, ScriptCovers DEF FenceInv
  <2> QED
    BY <2>3, <2>4
<1>4. (\A o \in Ops : HoldsLoad(o) => now <= loaded[o].by)'
  <2> SUFFICES ASSUME NEW o \in Ops, HoldsLoad(o)'
               PROVE  now' <= loaded'[o].by
    OBVIOUS
  <2>1. CASE loaded'[o] = loaded[o] /\ HoldsLoad(o) /\ now' = now
    BY <2>1 DEF FenceInv
  <2>2. ASSUME NEW p \in Ops, OpNext(p)
        PROVE  now' <= loaded'[o].by
    <3>1. now' = now
      BY <2>2, OpLeaves
    <3>2. CASE p = o
      <4>1. LoadSource(o) \/ (loaded'[o] = loaded[o] /\ HoldsLoad(o))
        BY <2>2, <3>2, KeepsLoad
      <4>2. CASE LoadSource(o)
        <5>1. loaded'[o].by = now + Dmax
          BY <4>2 DEF LoadSource, TypeOK
        <5> QED
          BY <3>1, <5>1, TrackedRedisAssumption DEF TypeOK
      <4> QED
        BY <2>1, <3>1, <4>1, <4>2
    <3>3. CASE p # o
      BY <2>1, <2>2, <3>1, <3>3, OpLeaves DEF Same, HoldsLoad
    <3> QED
      BY <3>2, <3>3
  <2>3. CASE Tick
    BY <2>3 DEF Tick, HoldsLoad, TypeOK
  <2>4. CASE Mutate \/ RedisNext \/ UNCHANGED vars
    BY <2>1, <2>4, Zenon DEF Mutate, RedisNext, ExecSet, LoseSet, ExecScript, LoseScript,
                      EvictValue, HoldsLoad, vars
  <2>5. CASE \E i \in Invalidators : InvNext(i)
    BY <2>1, <2>5 DEF InvNext, Invalidate, RetryWithEval, InvalidateFails, HoldsLoad
  <2> QED
    BY <2>2, <2>3, <2>4, <2>5 DEF Next
<1>5. (\A m \in sets : now <= m.by /\ m.createdAtMs <= m.by + Ahead)'
  <2>1. CASE sets' \subseteq sets /\ now' = now
    BY <2>1 DEF FenceInv
  <2>2. ASSUME NEW o \in Ops, DispatchSet(o)
        PROVE  \A m \in sets' : now' <= m.by /\ m.createdAtMs <= m.by + Ahead
    <3>1. PICK c \in Clock :
             sets' = sets \cup {[ver |-> loaded[o].ver, createdAtMs |-> c,
                                 by |-> loaded[o].by]}
      BY <2>2 DEF DispatchSet
    <3>2. c \in Nat /\ c <= now + Ahead
      BY <3>1, ClockSample
    <3>3. now <= loaded[o].by /\ loaded[o].by \in Nat /\ now' = now
      BY <2>2 DEF DispatchSet, HoldsLoad, FenceInv, TypeOK
    <3> QED
      BY <3>1, <3>2, <3>3, TrackedRedisAssumption DEF FenceInv, TypeOK
  <2>3. ASSUME NEW o \in Ops, OpNext(o), ~DispatchSet(o)
        PROVE  sets' \subseteq sets /\ now' = now
    BY <2>3, OpLeaves
  <2>4. CASE Tick
    BY <2>4 DEF Tick, FenceInv, TypeOK
  <2>5. CASE Mutate \/ RedisNext \/ UNCHANGED vars
    BY <2>1, <2>5, Zenon DEF Mutate, RedisNext, ExecSet, LoseSet, ExecScript, LoseScript,
                      EvictValue, vars
  <2>6. CASE \E i \in Invalidators : InvNext(i)
    BY <2>1, <2>6 DEF InvNext, Invalidate, RetryWithEval, InvalidateFails
  <2> QED
    BY <2>1, <2>2, <2>3, <2>4, <2>5, <2>6 DEF Next
<1>6. (value.kind = "frame" /\ value.createdAtMs > 0 =>
          /\ value.createdAtMs <= value.by + Ahead
          /\ value.exp <= value.by + MAX_TRACKED_REDIS_VALUE_TTL_MS)'
  <2> DEFINE Goal == value'.kind = "frame" /\ value'.createdAtMs > 0 =>
                        /\ value'.createdAtMs <= value'.by + Ahead
                        /\ value'.exp <= value'.by + MAX_TRACKED_REDIS_VALUE_TTL_MS
  <2>a. value.kind = "frame" /\ value.createdAtMs > 0 =>
           /\ value.createdAtMs <= value.by + Ahead
           /\ value.exp <= value.by + MAX_TRACKED_REDIS_VALUE_TTL_MS
    BY DEF FenceInv
  <2>1. CASE value' = value \/ value' = NoFrame
    BY <2>a, <2>1 DEF NoFrame
  <2>2. ASSUME NEW m \in sets, ExecSet(m) PROVE Goal
    <3>1. /\ value'.createdAtMs = m.createdAtMs /\ value'.by = m.by
          /\ value'.exp = now + cacheTtlMs
      BY <2>2 DEF ExecSet
    <3>2. cacheTtlMs \in Nat /\ cacheTtlMs <= MAX_TRACKED_REDIS_VALUE_TTL_MS
      BY TrackedRedisAssumption DEF cacheTtlMs, Smaller
    <3>3. now <= m.by /\ m.createdAtMs <= m.by + Ahead
      BY DEF FenceInv
    <3> QED
      BY <3>1, <3>2, <3>3, TrackedRedisAssumption DEF TypeOK
  <2>3. CASE \E o \in Ops : OpNext(o)
    BY <2>1, <2>3, OpLeaves
  <2>4. CASE \E i \in Invalidators : InvNext(i)
    BY <2>1, <2>4 DEF InvNext, Invalidate, RetryWithEval, InvalidateFails
  <2>5. CASE Tick \/ Mutate \/ EvictValue \/ (\E m \in sets : LoseSet(m))
              \/ (\E s \in scripts : ExecScript(s) \/ LoseScript(s)) \/ UNCHANGED vars
    BY <2>1, <2>5, Zenon DEF Tick, Mutate, EvictValue, LoseSet, ExecScript, LoseScript, vars
  <2> QED
    BY <2>2, <2>3, <2>4, <2>5 DEF Next, RedisNext
<1>7. /\ (\A s \in scripts : SampleDates(s.ver, s.at))'
      /\ (\A i \in Invalidators : inv[i].pc # "idle" =>
             SampleDates(inv[i].ver, inv[i].at))'
  <2>1. ASSUME NEW ver \in Nat, NEW at \in Nat, SampleDates(ver, at)
        PROVE  SampleDates(ver, at)'
    BY <2>1, SampleKeepsDating
  <2>2. ASSUME NEW c \in Clock, now' = now, source' = source
        PROVE  SampleDates(source, c)'
    <3>1. c \in Nat /\ now - Behind <= c /\ c <= now + Ahead
      BY ClockSample
    <3>2. ASSUME NEW w \in LiveWork' PROVE w.by <= c + Behind + Dmax
      <4>1. w.by <= now + Dmax /\ w.by \in Nat
        BY <1>2, <2>2, WorkTypePrime
      <4> QED
        BY <3>1, <4>1, TrackedRedisAssumption DEF TypeOK
    <3> QED
      BY <2>2, <3>1, <3>2 DEF SampleDates, TypeOK
  <2>3. ASSUME NEW s \in scripts' PROVE SampleDates(s.ver, s.at)'
    <3>1. CASE s \in scripts
      BY <2>1, <3>1 DEF FenceInv, TypeOK
    <3>2. CASE \E i \in Invalidators : /\ inv[i].pc # "idle"
                                        /\ s.ver = inv[i].ver /\ s.at = inv[i].at
      BY <2>1, <3>2 DEF FenceInv, TypeOK, Calls
    <3>3. CASE s.ver = source /\ s.at \in Clock /\ UNCHANGED worldVars
      BY <2>2, <3>3
    <3> QED
      BY <3>1, <3>2, <3>3, NewCalls
  <2>4. ASSUME NEW i \in Invalidators, inv'[i].pc # "idle"
        PROVE  SampleDates(inv[i].ver, inv[i].at)'
    <3>1. CASE /\ inv[i].pc # "idle"
               /\ inv'[i].ver = inv[i].ver /\ inv'[i].at = inv[i].at
      <4>1. inv[i].ver \in Nat /\ inv[i].at \in Nat
        BY DEF TypeOK, Calls
      <4>2. SampleDates(inv[i].ver, inv[i].at)
        BY <3>1 DEF FenceInv
      <4> QED
        BY <2>1, <3>1, <4>1, <4>2
    <3>2. CASE /\ inv'[i].ver = source /\ inv'[i].at \in Clock
               /\ UNCHANGED worldVars
      BY <2>2, <3>2
    <3> QED
      BY <2>4, <3>1, <3>2, NewCalls
  <2> QED
    BY <2>3, <2>4
<1> QED
  BY <1>1, <1>2, <1>3, <1>4, <1>5, <1>6, <1>7 DEF FenceInv




-----------------------------------------------------------------------------
(* The invocations *)

\* What a tracked read decodes is not stale, and is stamped no later than the
\* work bound allows.
LEMMA ReadsAreFenced ==
    ASSUME TypeOK, FenceInv
    PROVE  LET r == decodeTrackedRedisReadResult(value, wm)
           IN  r.kind = "frame" => /\ r.frame.ver >= fenced
                                   /\ r.frame.createdAtMs <= r.frame.by + Ahead
<1> DEFINE r == decodeTrackedRedisReadResult(value, wm)
           w == [ver |-> value.ver, by |-> value.by]
<1> SUFFICES ASSUME r.kind = "frame"
             PROVE  /\ r.frame.ver >= fenced
                    /\ r.frame.createdAtMs <= r.frame.by + Ahead
  OBVIOUS
<1>1. /\ value.kind = "frame" /\ value.createdAtMs > 0
      /\ wm.kind = "valid" => value.createdAtMs > wm.ms
      /\ r.frame = [ver |-> value.ver, by |-> value.by,
                    createdAtMs |-> value.createdAtMs]
  BY ReadOutcome
<1>2. w \in LiveWork
  BY <1>1, WorkCases
<1>3. value.createdAtMs <= value.by + Ahead
  BY <1>1 DEF FenceInv
<1>4. /\ value.ver \in Nat /\ value.by \in Nat /\ value.createdAtMs \in Nat
      /\ wm.ms \in Nat /\ fenced \in Nat
  BY DEF TypeOK, Frames, Watermarks
<1>5. value.ver < fenced => FALSE
  <2>1. value.ver < fenced => wm.kind = "valid" /\ value.by + Ahead <= wm.ms
    BY <1>2 DEF FenceInv, Covered
  <2> QED
    BY <1>1, <1>3, <1>4, <2>1, TrackedRedisAssumption
<1> HIDE DEF r
<1> QED
  BY <1>1, <1>3, <1>4, <1>5

\* At first no invocation holds or has returned anything.
THEOREM InitOpInv == Init => OpInv
BY DEF Init, OpInv, OpOK, OpShape, OpFresh, Nothing

\* The fence never moves back.
LEMMA FenceAdvances ==
    ASSUME TypeOK, [Next]_vars
    PROVE  fenced' \in Nat /\ fenced <= fenced'
<1>1. CASE fenced' = fenced
  BY <1>1 DEF TypeOK
<1>2. ASSUME NEW s \in scripts, ExecScript(s) PROVE fenced' \in Nat /\ fenced <= fenced'
  BY <1>2 DEF ExecScript, Larger, TypeOK
<1> QED
  BY <1>1, <1>2, FenceWriters

\* A step of invocation o that leaves the fence alone keeps o's own part.
LEMMA OwnStep ==
    ASSUME TypeOK, FenceInv, NEW o \in Ops, OpNext(o), OpShape(o), OpFresh(o),
           fenced' = fenced
    PROVE  OpShape(o)' /\ OpFresh(o)'
<1>a. /\ pc = [p \in Ops |-> pc[p]] /\ got = [p \in Ops |-> got[p]]
      /\ loaded = [p \in Ops |-> loaded[p]] /\ result = [p \in Ops |-> result[p]]
      /\ startFence = [p \in Ops |-> startFence[p]]
  BY DEF TypeOK
<1>b. startFence[o] \in Nat /\ fenced \in Nat /\ fenced <= source /\ source \in Nat
  BY DEF TypeOK, FenceInv
<1>d. startFence[o] <= fenced /\ startFence[o] <= fenced' /\ startFence[o] <= source
  BY <1>b DEF OpFresh
<1>c. ASSUME NEW v, Return(o, v), UNCHANGED startFence,
             v # NoVersion => v >= startFence[o]
      PROVE  OpShape(o)' /\ OpFresh(o)'
  <2>1. /\ pc'[o] = "done" /\ result'[o] = v /\ got'[o] = Nothing
        /\ startFence'[o] <= fenced' /\ startFence'[o] = startFence[o]
    BY <1>a, <1>c, <1>d DEF Return
  <2>2. OpShape(o)'
    BY <2>1, Zenon DEF OpShape
  <2>3. OpFresh(o)'
    <3>1. /\ ~(got'[o].kind \in {"frame", "hit", "retained"})
          /\ ~(pc'[o] \in {"loaded", "serialize", "write"})
      BY <2>1 DEF Nothing
    <3> QED
      BY <1>c, <2>1, <3>1, Zenon DEF OpFresh
  <2> QED
    BY <2>2, <2>3
<1>1. CASE StartRead(o)
  <2>1. /\ pc'[o] = "read" /\ startFence'[o] = fenced
        /\ UNCHANGED <<got, loaded, result>> /\ pc[o] = "idle"
    BY <1>a, <1>1 DEF StartRead
  <2>s. OpShape(o)'
    BY <2>1 DEF OpShape
  <2>2. got'[o] = Nothing /\ result'[o] = NoVersion /\ startFence'[o] <= fenced'
    BY <1>b, <2>1 DEF OpShape
  <2>f. OpFresh(o)'
    BY <2>1, <2>2 DEF OpFresh, Nothing
  <2> QED
    BY <2>s, <2>f
<1>2. CASE ReadTracked(o)
  <2>1. /\ got'[o].kind \in {"miss", "frame"}
        /\ got'[o].kind = "frame" =>
              /\ got'[o].frame.ver >= fenced
              /\ got'[o].frame.createdAtMs <= got'[o].frame.by + Ahead
              /\ got'[o].frame.ver \in Nat
    BY <1>a, <1>2, ReadOutcome, ReadsAreFenced DEF ReadTracked, DecodedFrames
  <2>2. got'[o].kind = "frame" => got'[o].frame.ver >= startFence[o]
    BY <1>b, <1>d, <2>1
  <2>3. pc'[o] = "reply" /\ UNCHANGED <<loaded, result, startFence>>
    BY <1>a, <1>2 DEF ReadTracked
  <2>s. OpShape(o)'
    BY <2>1, <2>2, <2>3 DEF OpShape
  <2>f. OpFresh(o)'
    BY <2>1, <2>2, <2>3, <1>d DEF OpFresh
  <2> QED
    BY <2>s, <2>f
<1>3. CASE ReadFails(o) \/ DeserializeFails(o)
  <2>1. /\ pc'[o] = "load" /\ got'[o].kind \in {"error", "miss"}
        /\ UNCHANGED <<loaded, result, startFence>>
    BY <1>a, <1>3 DEF ReadFails, DeserializeFails, Failed, Miss
  <2>s. OpShape(o)'
    BY <2>1 DEF OpShape
  <2>f. OpFresh(o)'
    BY <2>1, <1>d DEF OpFresh
  <2> QED
    BY <2>s, <2>f
<1>4. CASE ClassifyReply(o)
  <2>1. PICK c \in Clock :
           /\ got'[o] = Classified(got[o], c)
           /\ pc'[o] = IF got'[o].kind = "hit" THEN "deserialize" ELSE "load"
    BY <1>a, <1>4 DEF ClassifyReply
  <2>2. got[o].kind \in {"miss", "frame"}
    BY <1>4 DEF ClassifyReply, OpShape
  <2>3. \/ got'[o].kind = "miss"
        \/ /\ got'[o].kind \in {"hit", "retained"} /\ got[o].kind = "frame"
           /\ got'[o].frame = got[o].frame
    BY <2>1, <2>2 DEF Classified, Miss, Found
  <2>4. UNCHANGED <<loaded, result, startFence>>
    BY <1>4 DEF ClassifyReply
  <2>s. OpShape(o)'
    BY <2>1, <2>3, <2>4 DEF OpShape
  <2>f. OpFresh(o)'
    BY <2>1, <2>3, <2>4, <1>d, Zenon DEF OpFresh
  <2> QED
    BY <2>s, <2>f
<1>5. CASE ServeHit(o) \/ ServeRecovered(o)
  <2>1. Return(o, got[o].frame.ver) /\ UNCHANGED startFence
    BY <1>5 DEF ServeHit, ServeRecovered
  <2>2. got[o].frame.ver >= startFence[o]
    BY <1>5 DEF ServeHit, ServeRecovered, OpShape, OpFresh
  <2> QED
    BY <1>c, <2>1, <2>2
<1>6. CASE LoadSource(o)
  <2>1. /\ pc'[o] = "loaded" /\ loaded'[o].ver = source /\ pc[o] = "load"
        /\ UNCHANGED <<got, result, startFence>>
    BY <1>a, <1>6 DEF LoadSource
  <2>2. source >= startFence[o]
    BY <1>d
  <2>s. OpShape(o)'
    BY <2>1, <2>2, Zenon DEF OpShape
  <2>f. OpFresh(o)'
    BY <2>1, <2>2, <1>d DEF OpFresh
  <2> QED
    BY <2>s, <2>f
<1>7. CASE LoadFails(o) /\ got[o].kind = "retained"
  <2>1. pc'[o] = "failed" /\ UNCHANGED <<got, result, startFence>>
    BY <1>a, <1>7 DEF LoadFails
  <2>s. OpShape(o)'
    BY <1>7, <2>1 DEF OpShape
  <2>f. OpFresh(o)'
    BY <1>7, <2>1, <1>d, Zenon DEF OpFresh
  <2> QED
    BY <2>s, <2>f
<1>8. CASE (LoadFails(o) /\ got[o].kind # "retained") \/ Reject(o)
  <2>1. Return(o, NoVersion) /\ UNCHANGED startFence
    BY <1>8 DEF LoadFails, Reject
  <2> QED
    BY <1>c, <2>1
<1>9. CASE ReturnUnwritten(o) \/ SkipFencedRefill(o) \/ SerializeFails(o)
             \/ WriteSettles(o)
  <2>1. /\ Return(o, loaded[o].ver) /\ UNCHANGED startFence
        /\ pc[o] \in {"loaded", "serialize", "write"}
    BY <1>9 DEF ReturnUnwritten, SkipFencedRefill, SerializeFails, WriteSettles
  <2>2. loaded[o].ver >= startFence[o]
    BY <2>1 DEF OpFresh
  <2> QED
    BY <1>c, <2>1, <2>2
<1>10. CASE BeginSerialize(o)
  <2>1. /\ pc[o] = "loaded" /\ pc'[o] = "serialize"
        /\ UNCHANGED <<got, loaded, result, startFence>>
    BY <1>a, <1>10 DEF BeginSerialize
  <2>s. OpShape(o)'
    BY <2>1 DEF OpShape
  <2>f. OpFresh(o)'
    BY <2>1, <1>d DEF OpFresh
  <2> QED
    BY <2>s, <2>f
<1>11. CASE DispatchSet(o)
  <2>1. /\ pc[o] = "serialize" /\ pc'[o] = "write" /\ got'[o] = Nothing
        /\ UNCHANGED <<result, startFence>>
    BY <1>a, <1>11 DEF DispatchSet
  <2>2. loaded'[o].ver = loaded[o].ver
    BY <1>11 DEF DispatchSet, TypeOK
  <2>s. OpShape(o)'
    BY <2>1, <2>2 DEF OpShape, Nothing
  <2>f. OpFresh(o)'
    BY <2>1, <2>2, <1>d DEF OpFresh, Nothing
  <2> QED
    BY <2>s, <2>f
<1>12. CASE BeginRecovery(o)
  <2>1. /\ pc[o] = "failed" /\ pc'[o] = "recover"
        /\ UNCHANGED <<got, loaded, result, startFence>>
    BY <1>a, <1>12 DEF BeginRecovery
  <2>s. OpShape(o)'
    BY <2>1 DEF OpShape
  <2>f. OpFresh(o)'
    BY <2>1, <1>d DEF OpFresh
  <2> QED
    BY <2>s, <2>f
<1> QED
  BY <1>1, <1>2, <1>3, <1>4, <1>5, <1>6, <1>7, <1>8, <1>9, <1>10, <1>11, <1>12, Zenon
     DEF OpNext

\* The invocation part of the invariant is inductive, given the fence.
LEMMA NextOpInv ==
    ASSUME TypeOK, FenceInv, OpInv, [Next]_vars
    PROVE  OpInv'
<1> USE DEF envVars, worldVars, redisVars, netVars, opVars, invVars
<1>a. fenced' \in Nat /\ fenced <= fenced'
  BY FenceAdvances
<1>b. ASSUME NEW o \in Ops, Same(o) PROVE OpOK(o)'
  <2>1. OpShape(o) /\ OpFresh(o) /\ startFence[o] \in Nat /\ fenced \in Nat
    BY DEF OpInv, OpOK, TypeOK
  <2>2. startFence'[o] <= fenced'
    BY <1>a, <1>b, <2>1 DEF OpFresh, Same
  <2>3. OpShape(o)'
    BY <1>b, <2>1 DEF OpShape, Same
  <2>4. OpFresh(o)'
    BY <1>b, <2>1, <2>2, Zenon DEF OpFresh, Same
  <2> QED
    BY <2>3, <2>4 DEF OpOK
<1>1. CASE UNCHANGED opVars
  BY <1>1, <1>b DEF OpInv, Same
<1>2. ASSUME NEW o \in Ops, OpNext(o) PROVE OpInv'
  <2>1. OpOK(o)'
    BY <1>2, OwnStep, OpLeaves DEF OpInv, OpOK
  <2>2. \A p \in Ops \ {o} : OpOK(p)'
    BY <1>2, <1>b, OpLeaves
  <2> QED
    BY <2>1, <2>2 DEF OpInv
<1>3. CASE Tick \/ Mutate \/ RedisNext \/ UNCHANGED vars
  <2>1. UNCHANGED opVars
    BY <1>3, Zenon DEF Tick, Mutate, RedisNext, ExecSet, LoseSet, ExecScript, LoseScript,
                EvictValue, vars
  <2> QED
    BY <1>1, <2>1
<1>4. CASE \E i \in Invalidators : InvNext(i)
  <2>1. UNCHANGED opVars
    BY <1>4 DEF InvNext, Invalidate, RetryWithEval, InvalidateFails
  <2> QED
    BY <1>1, <2>1
<1> QED
  BY <1>2, <1>3, <1>4 DEF Next

-----------------------------------------------------------------------------
(* The theorems *)

\* The conjunction is an invariant.
THEOREM Invariant == Spec => [](TypeOK /\ FenceInv /\ OpInv)
<1>1. Init => TypeOK /\ FenceInv /\ OpInv
  BY InitTypeOK, InitFenceInv, InitOpInv
<1>2. TypeOK /\ FenceInv /\ OpInv /\ [Next]_vars => (TypeOK /\ FenceInv /\ OpInv)'
  BY NextTypeOK, NextFenceInv, NextOpInv
<1> QED
  BY <1>1, <1>2, PTL DEF Spec

\* No tracked read decodes a frame that a completed, sufficiently buffered
\* invalidation made stale (decodeTrackedRedisReadResult against
\* INVALIDATE_CACHE_SCRIPT).
THEOREM NeverReadable == Spec => []InvalidatedNeverReadable
<1>1. TypeOK /\ FenceInv => InvalidatedNeverReadable
  BY ReadsAreFenced DEF InvalidatedNeverReadable
<1> QED
  BY <1>1, Invariant, PTL

\* No invocation that starts after such an invalidation returns a stale
\* version by any path of finishRedisChain.
THEOREM NeverServed == Spec => []ServedAfterFence
<1>1. OpInv => ServedAfterFence
  BY DEF OpInv, OpOK, OpFresh, ServedAfterFence
<1> QED
  BY <1>1, Invariant, PTL

\* The script's derived TTL keeps the watermark for as long as a stale frame
\* is stored.
THEOREM WatermarkOutlives == Spec => []WatermarkOutlivesStaleFrames
<1>1. TypeOK /\ FenceInv => WatermarkOutlivesStaleFrames
  <2> SUFFICES ASSUME TypeOK, FenceInv, value.kind = "frame",
                      value.createdAtMs > 0, value.ver < fenced
               PROVE  /\ wm.kind = "valid"
                      /\ value.createdAtMs <= wm.ms
                      /\ wm.exp = NoExpiry \/ value.exp <= wm.exp
    BY DEF WatermarkOutlivesStaleFrames
  <2> DEFINE w == [ver |-> value.ver, by |-> value.by]
  <2>1. w \in LiveWork /\ w.ver = value.ver /\ w.by = value.by
    BY WorkCases
  <2>2. Covered(value.by)
    BY <2>1 DEF FenceInv
  <2>3. value.by \in Nat /\ value.createdAtMs \in Nat /\ value.exp \in Nat
          /\ wm.ms \in Nat /\ wm.exp \in Nat \cup {NoExpiry}
    BY DEF TypeOK, Frames, Watermarks
  <2> QED
    BY <2>2, <2>3, TrackedRedisAssumption DEF FenceInv, Covered
<1> QED
  BY <1>1, Invariant, PTL

\* No script, retry or late copy of one moves a valid watermark back or
\* shortens its life, and it disappears only by expiring.
THEOREM OnlyAdvances == Spec => WatermarkOnlyAdvances
<1> DEFINE Advance ==
      wm.kind = "valid" /\ wm' # wm =>
          \/ /\ wm' = NoWatermark
             /\ wm.exp # NoExpiry /\ wm.exp <= now'
          \/ /\ wm'.kind = "valid" /\ wm'.ms >= wm.ms
             /\ \/ wm'.exp = NoExpiry
                \/ wm.exp # NoExpiry /\ wm'.exp >= wm.exp
<1>1. TypeOK /\ [Next]_vars => [Advance]_vars
  <2> SUFFICES ASSUME TypeOK, Next PROVE Advance
    OBVIOUS
  <2> USE DEF envVars, worldVars, redisVars, netVars, opVars, invVars
  <2>1. CASE Tick
    BY <2>1, Zenon DEF Tick
  <2>2. ASSUME NEW s \in scripts, ExecScript(s) PROVE Advance
    <3>1. s.at \in Nat /\ s.buffer \in Nat
      BY DEF TypeOK
    <3> QED
      BY <2>2, <3>1, ScriptOutcome DEF ExecScript
  <2>3. CASE wm' = wm
    BY <2>3
  <2>4. CASE \E o \in Ops : OpNext(o)
    BY <2>3, <2>4, OpLeaves
  <2>5. CASE Mutate \/ EvictValue \/ (\E m \in sets : ExecSet(m) \/ LoseSet(m))
              \/ (\E s \in scripts : LoseScript(s))
              \/ (\E i \in Invalidators : InvNext(i))
    BY <2>3, <2>5 DEF Mutate, EvictValue, ExecSet, LoseSet, LoseScript, InvNext,
                      Invalidate, RetryWithEval, InvalidateFails
  <2> QED
    BY <2>1, <2>2, <2>4, <2>5 DEF Next, RedisNext
<1> QED
  BY <1>1, Typing, PTL DEF Spec, WatermarkOnlyAdvances

\* A reply is passed to the serializer only by its classification.
LEMMA OnlyClassified ==
    ASSUME TypeOK, NEW o \in Ops, OpNext(o), pc[o] = "reply", pc'[o] = "deserialize"
    PROVE  ClassifyReply(o)
<1>a. pc = [p \in Ops |-> pc[p]]
  BY DEF TypeOK
<1> USE DEF Return
<1>1. ~StartRead(o) /\ ~ReadTracked(o) /\ ~ReadFails(o) /\ ~ServeHit(o)
  BY <1>a DEF StartRead, ReadTracked, ReadFails, ServeHit
<1>2. ~DeserializeFails(o) /\ ~LoadSource(o) /\ ~LoadFails(o) /\ ~ReturnUnwritten(o)
  BY <1>a DEF DeserializeFails, LoadSource, LoadFails, ReturnUnwritten
<1>3. ~SkipFencedRefill(o) /\ ~BeginSerialize(o) /\ ~DispatchSet(o)
  BY <1>a DEF SkipFencedRefill, BeginSerialize, DispatchSet
<1>4. ~SerializeFails(o) /\ ~WriteSettles(o) /\ ~Reject(o)
  BY <1>a DEF SerializeFails, WriteSettles, Reject
<1>5. ~BeginRecovery(o) /\ ~ServeRecovered(o)
  BY <1>a DEF BeginRecovery, ServeRecovered
<1> QED
  BY <1>1, <1>2, <1>3, <1>4, <1>5, Zenon DEF OpNext

\* A retained candidate is returned only by a recovery that checked its age again.
LEMMA OnlyRecovered ==
    ASSUME TypeOK, NEW o \in Ops, OpNext(o), pc[o] = "recover", pc'[o] = "done",
           result'[o] # NoVersion
    PROVE  ServeRecovered(o)
<1>a. pc = [p \in Ops |-> pc[p]] /\ result = [p \in Ops |-> result[p]]
  BY DEF TypeOK
<1>1. ~StartRead(o) /\ ~ReadTracked(o) /\ ~ReadFails(o) /\ ~ServeHit(o) /\ ~ClassifyReply(o)
  BY DEF StartRead, ReadTracked, ReadFails, ServeHit, ClassifyReply
<1>2. ~DeserializeFails(o) /\ ~LoadSource(o) /\ ~LoadFails(o) /\ ~ReturnUnwritten(o)
  BY DEF DeserializeFails, LoadSource, LoadFails, ReturnUnwritten
<1>3. ~SkipFencedRefill(o) /\ ~BeginSerialize(o) /\ ~DispatchSet(o)
  BY DEF SkipFencedRefill, BeginSerialize, DispatchSet
<1>4. ~SerializeFails(o) /\ ~WriteSettles(o) /\ ~BeginRecovery(o)
  BY DEF SerializeFails, WriteSettles, BeginRecovery
<1>5. ~Reject(o)
  BY <1>a DEF Reject, Return
<1> QED
  BY <1>1, <1>2, <1>3, <1>4, <1>5, Zenon DEF OpNext

\* A step that moves an invocation on is a step of that invocation.
LEMMA MovedBy ==
    ASSUME TypeOK, Next, NEW o \in Ops, pc'[o] # pc[o]
    PROVE  OpNext(o)
<1> USE DEF envVars, worldVars, redisVars, netVars, opVars, invVars
<1>1. CASE \E p \in Ops : OpNext(p)
  BY <1>1, OpLeaves DEF Same
<1>2. CASE Tick \/ Mutate \/ RedisNext
  BY <1>2, Zenon DEF Tick, Mutate, RedisNext, ExecSet, LoseSet, ExecScript,
              LoseScript, EvictValue
<1>3. CASE \E i \in Invalidators : InvNext(i)
  BY <1>3 DEF InvNext, Invalidate, RetryWithEval, InvalidateFails
<1> QED
  BY <1>1, <1>2, <1>3 DEF Next

\* A fresh hit was loaded less than F + Dmax plus the clock error ago, by the age
\* check of getWithResolvedConfig, and a recovered value less than M + Dmax plus
\* the clock error ago, by the second check of recoverRetainedCandidate.
THEOREM HitsBounded == Spec => HitsAreBoundedInAge
<1> DEFINE Bounded == \A o \in Ops :
             /\ pc[o] = "reply" /\ pc'[o] = "deserialize" =>
                   now < got[o].frame.by + freshAgeMs + Ahead + Behind
             /\ pc[o] = "recover" /\ pc'[o] = "done" /\ result'[o] # NoVersion =>
                   now < got[o].frame.by + maximumAgeMs + Ahead + Behind
<1>1. ASSUME TypeOK, OpInv, Next, NEW o \in Ops, pc[o] = "reply", pc'[o] = "deserialize"
      PROVE  now < got[o].frame.by + freshAgeMs + Ahead + Behind
  <2>1. ClassifyReply(o)
    BY <1>1, MovedBy, OnlyClassified
  <2>2. PICK c \in Clock : Classified(got[o], c).kind = "hit"
    BY <1>1, <2>1 DEF ClassifyReply, TypeOK
  <2>3. c \in Nat /\ now - Behind <= c
    BY <1>1, ClockSample
  <2>4. got[o].kind = "frame" /\ c - got[o].frame.createdAtMs < freshAgeMs
    <3>1. got[o].kind \in {"miss", "frame"}
      BY <1>1 DEF OpInv, OpOK, OpShape
    <3>2. got[o].kind # "miss"
      BY <2>2 DEF Classified
    <3>3. ~(c - got[o].frame.createdAtMs >= freshAgeMs)
      BY <2>2, <3>2, Zenon DEF Classified, Miss, Found
    <3>4. c - got[o].frame.createdAtMs \in Int /\ freshAgeMs \in Int
      BY <1>1, <2>3, TrackedRedisAssumption DEF TypeOK, DecodedFrames
    <3> QED
      BY <3>1, <3>2, <3>3, <3>4
  <2>5. got[o].frame.createdAtMs <= got[o].frame.by + Ahead
    BY <1>1, <2>4, Zenon DEF OpInv, OpOK, OpFresh
  <2>6. now \in Nat /\ got[o].frame.createdAtMs \in Nat /\ got[o].frame.by \in Nat
    BY <1>1 DEF TypeOK, DecodedFrames
  <2> QED
    BY <2>3, <2>4, <2>5, <2>6, TrackedRedisAssumption
<1>2. ASSUME TypeOK, OpInv, Next, NEW o \in Ops, pc[o] = "recover", pc'[o] = "done",
             result'[o] # NoVersion
      PROVE  now < got[o].frame.by + maximumAgeMs + Ahead + Behind
  <2>1. ServeRecovered(o)
    BY <1>2, MovedBy, OnlyRecovered
  <2>2. PICK c \in Clock : c - got[o].frame.createdAtMs < maximumAgeMs
    BY <2>1 DEF ServeRecovered, Recoverable
  <2>3. c \in Nat /\ now - Behind <= c
    BY <1>2, ClockSample
  <2>4. got[o].kind = "retained"
    BY <1>2 DEF OpInv, OpOK, OpShape
  <2>5. got[o].frame.createdAtMs <= got[o].frame.by + Ahead
    BY <1>2, <2>4, Zenon DEF OpInv, OpOK, OpFresh
  <2>6. now \in Nat /\ got[o].frame.createdAtMs \in Nat /\ got[o].frame.by \in Nat
    BY <1>2 DEF TypeOK, DecodedFrames
  <2> QED
    BY <2>2, <2>3, <2>5, <2>6, TrackedRedisAssumption
<1>3. TypeOK /\ FenceInv /\ OpInv /\ [Next]_vars => [Bounded]_vars
  BY <1>1, <1>2
<1> QED
  BY <1>3, Invariant, PTL DEF Spec, HitsAreBoundedInAge

-----------------------------------------------------------------------------
(* Skipped refills *)

\* The watermark that a script leaves lasts, however old its clock sample is.
LEMMA ScriptLasts ==
    ASSUME WatermarksLast, TypeOK, NEW at \in Nat, NEW buffer \in Nat, at <= now + Ahead
    PROVE  Lasting(INVALIDATE_CACHE_SCRIPT(wm, at, buffer))
<1>1. /\ wm.ms \in Nat /\ wm.exp \in Nat \cup {NoExpiry} /\ now \in Nat
      /\ Ahead \in Nat /\ Behind \in Nat /\ MAX_TRACKED_REDIS_VALUE_TTL_MS \in Nat
      /\ WATERMARK_TTL_MARGIN_MS \in Nat
  BY TrackedRedisAssumption DEF TypeOK, Watermarks
<1> DEFINE present == wm.kind \in {"valid", "malformed"}
           ms == Larger(IF wm.kind = "valid" THEN wm.ms ELSE 0, at + buffer)
           lifetime == ms - at + MAX_TRACKED_REDIS_VALUE_TTL_MS + WATERMARK_TTL_MARGIN_MS
           desired == Larger(MIN_WATERMARK_TTL_MS, lifetime)
           exp == IF present /\ wm.exp = NoExpiry THEN NoExpiry
                  ELSE IF present THEN Larger(wm.exp, now + desired)
                  ELSE now + desired
<1>2. INVALIDATE_CACHE_SCRIPT(wm, at, buffer) = [kind |-> "valid", ms |-> ms, exp |-> exp]
  BY Zenon DEF INVALIDATE_CACHE_SCRIPT
<1>3. ms \in Nat /\ lifetime \in Int /\ desired \in Int /\ desired >= lifetime
  BY <1>1 DEF Larger, MIN_WATERMARK_TTL_MS
<1>4. exp = NoExpiry \/ (exp \in Int /\ exp >= now + desired)
  <2> HIDE DEF desired
  <2> QED
    BY <1>1, <1>3 DEF Larger, NoExpiry
<1>5. now + lifetime > ms + Behind
  <2> HIDE DEF ms
  <2> QED
    BY <1>1, <1>3 DEF WatermarksLast
<1> HIDE DEF ms, lifetime, desired, exp
<1>6. exp = NoExpiry \/ ms + Behind < exp
  BY <1>1, <1>3, <1>4, <1>5
<1> QED
  BY <1>2, <1>6 DEF Lasting

\* A read reports the watermark that it observed as its fence, or no fence.
LEMMA ReadFence ==
    ASSUME NEW f, NEW w
    PROVE  LET r == decodeTrackedRedisReadResult(f, w)
           IN  r.fence = NoFence \/ (w.kind = "valid" /\ r.fence = w.ms)
<1> DEFINE fence == parseRedisWatermark(w)
           r == decodeTrackedRedisReadResult(f, w)
<1>1. fence = NoFence \/ (w.kind = "valid" /\ fence = w.ms)
  BY DEF parseRedisWatermark
<1>2. r = Miss(fence) \/ r = Miss(NoFence) \/ r = Found("frame", decodedRedisFrame(f))
  BY Zenon DEF decodeTrackedRedisReadResult, decodeTrackedFrame
<1>3. Miss(fence).fence = fence /\ Miss(NoFence).fence = NoFence
  BY DEF Miss
<1>4. Found("frame", decodedRedisFrame(f)).fence = NoFence
  BY DEF Found
<1> HIDE DEF fence, r
<1>5. r.fence = NoFence \/ (w.kind = "valid" /\ r.fence = w.ms)
  BY <1>1, <1>2, <1>3, <1>4, Zenon
<1> QED
  BY <1>5 DEF r

\* An invocation's fence is the one that its read observed, or none.
LEMMA FenceObserved ==
    ASSUME TypeOK, NEW o \in Ops, OpNext(o)
    PROVE  \/ got'[o].fence \in {got[o].fence, NoFence}
           \/ wm.kind = "valid" /\ got'[o].fence = wm.ms
<1>a. got = [p \in Ops |-> got[p]]
  BY DEF TypeOK
<1> USE DEF Return, Nothing, Failed
<1>1. CASE ReadTracked(o)
  <2>1. got'[o] = decodeTrackedRedisReadResult(value, wm)
    BY <1>a, <1>1 DEF ReadTracked
  <2> QED
    BY <2>1, ReadFence, Zenon
<1>2. CASE ClassifyReply(o)
  <2>1. PICK c \in Clock : got'[o] = Classified(got[o], c)
    BY <1>a, <1>2 DEF ClassifyReply
  <2> QED
    BY <2>1 DEF Classified, Miss, Found
<1>3. CASE StartRead(o) \/ ReadFails(o) \/ ServeHit(o) \/ DeserializeFails(o)
  BY <1>a, <1>3 DEF StartRead, ReadFails, ServeHit, DeserializeFails, Miss
<1>4. CASE LoadSource(o) \/ LoadFails(o) \/ ReturnUnwritten(o)
  BY <1>a, <1>4 DEF LoadSource, LoadFails, ReturnUnwritten
<1>5. CASE SkipFencedRefill(o) \/ BeginSerialize(o) \/ DispatchSet(o)
  BY <1>a, <1>5 DEF SkipFencedRefill, BeginSerialize, DispatchSet
<1>6. CASE SerializeFails(o) \/ WriteSettles(o) \/ Reject(o)
  BY <1>a, <1>6 DEF SerializeFails, WriteSettles, Reject
<1>7. CASE BeginRecovery(o) \/ ServeRecovered(o)
  BY <1>a, <1>7 DEF BeginRecovery, ServeRecovered
<1> QED
  BY <1>1, <1>2, <1>3, <1>4, <1>5, <1>6, <1>7, Zenon DEF OpNext

\* Observed fences keep standing: a tick lets no watermark go that a clock has
\* not passed, and scripts only raise it.
LEMMA FencesKeepStanding ==
    ASSUME WatermarksLast, TypeOK, TypeOK', FenceInv, FencesStand, [Next]_vars
    PROVE  FencesStand'
<1> USE DEF envVars, worldVars, redisVars, netVars, opVars, invVars
<1>1. /\ now \in Nat /\ Behind \in Nat
      /\ wm.ms \in Nat /\ wm.exp \in Nat \cup {NoExpiry}
      /\ \A o \in Ops : got[o].fence \in Nat \cup {NoFence}
  BY TrackedRedisAssumption DEF TypeOK, Watermarks
<1>2. CASE Tick
  <2>1. /\ now' = now + 1 /\ got' = got
        /\ wm' = IF wm.kind # "absent" /\ wm.exp # NoExpiry /\ wm.exp <= now'
                 THEN NoWatermark ELSE wm
    BY <1>2 DEF Tick
  <2>2. Lasting(wm')
    BY <2>1 DEF FencesStand, Lasting, NoWatermark
  <2>3. ASSUME NEW o \in Ops, got[o].fence # NoFence, now' <= got[o].fence + Behind
        PROVE  wm'.kind = "valid" /\ got[o].fence <= wm'.ms
    <3>1. got[o].fence \in Nat
      BY <1>1, <2>3
    <3>2. wm.kind = "valid" /\ got[o].fence <= wm.ms
      BY <1>1, <2>1, <2>3, <3>1 DEF FencesStand
    <3>3. wm.exp = NoExpiry \/ wm.exp > now'
      BY <1>1, <2>1, <2>3, <3>1, <3>2 DEF FencesStand, Lasting
    <3>4. wm' = wm
      BY <1>1, <2>1, <3>3 DEF NoExpiry
    <3> QED
      BY <3>2, <3>4
  <2> QED
    BY <2>1, <2>2, <2>3 DEF FencesStand
<1>3. ASSUME NEW s \in scripts, ExecScript(s) PROVE FencesStand'
  <2>1. s.at \in Nat /\ s.buffer \in Nat /\ s.at <= now + Ahead
    BY DEF TypeOK, FenceInv, SampleDates
  <2>2. wm' = INVALIDATE_CACHE_SCRIPT(wm, s.at, s.buffer) /\ now' = now /\ got' = got
    BY <1>3, Zenon DEF ExecScript
  <2>3. Lasting(wm')
    BY <2>1, <2>2, ScriptLasts
  <2>4. wm'.kind = "valid" /\ wm'.ms \in Nat /\ (wm.kind = "valid" => wm'.ms >= wm.ms)
    BY <2>1, <2>2, ScriptOutcome DEF Watermarks
  <2> QED
    BY <1>1, <2>2, <2>3, <2>4 DEF FencesStand
<1>4. ASSUME NEW p \in Ops, OpNext(p) PROVE FencesStand'
  <2>1. now' = now /\ wm' = wm /\ \A o \in Ops \ {p} : got'[o] = got[o]
    BY <1>4, OpLeaves DEF Same
  <2>2. \/ got'[p].fence \in {got[p].fence, NoFence}
        \/ wm.kind = "valid" /\ got'[p].fence = wm.ms
    BY <1>4, FenceObserved
  <2>3. ASSUME NEW o \in Ops, got'[o].fence # NoFence, now <= got'[o].fence + Behind
        PROVE  wm.kind = "valid" /\ got'[o].fence <= wm.ms
    <3>1. CASE got'[o].fence = got[o].fence
      BY <2>3, <3>1 DEF FencesStand
    <3>2. CASE wm.kind = "valid" /\ got'[o].fence = wm.ms
      BY <1>1, <3>2
    <3> QED
      BY <2>1, <2>2, <2>3, <3>1, <3>2
  <2>4. Lasting(wm')
    BY <2>1 DEF FencesStand
  <2> QED
    BY <2>1, <2>3, <2>4 DEF FencesStand
<1>5. CASE Mutate \/ EvictValue \/ (\E m \in sets : ExecSet(m) \/ LoseSet(m))
            \/ (\E s \in scripts : LoseScript(s))
            \/ (\E i \in Invalidators : InvNext(i)) \/ UNCHANGED vars
  <2>1. now' = now /\ wm' = wm /\ got' = got
    BY <1>5 DEF Mutate, EvictValue, ExecSet, LoseSet, LoseScript, InvNext,
                Invalidate, RetryWithEval, InvalidateFails, vars
  <2> QED
    BY <2>1 DEF FencesStand, Lasting
<1> QED
  BY <1>2, <1>3, <1>4, <1>5 DEF Next, RedisNext

\* putWithLayer skips a refill only under a fence that still stands: when clocks
\* disagree by less than the life that the script adds to a watermark, the
\* watermark that the invocation's read observed is still stored, or a later one.
THEOREM SkipsAreFenced ==
    ASSUME WatermarksLast PROVE Spec => SkippedRefillsAreFenced
<1> DEFINE Fenced ==
      \A o \in Ops : SkipFencedRefill(o) => wm.kind = "valid" /\ got[o].fence <= wm.ms
<1>1. Init => FencesStand
  BY DEF Init, FencesStand, WatermarksLast, Nothing
<1>2. TypeOK /\ TypeOK' /\ FenceInv /\ FencesStand /\ [Next]_vars => FencesStand'
  BY FencesKeepStanding
<1>3. TypeOK /\ FencesStand /\ [Next]_vars => [Fenced]_vars
  <2> SUFFICES ASSUME TypeOK, FencesStand, NEW o \in Ops, SkipFencedRefill(o)
               PROVE  wm.kind = "valid" /\ got[o].fence <= wm.ms
    OBVIOUS
  <2>1. PICK c \in Clock : got[o].fence # NoFence /\ c <= got[o].fence
    BY DEF SkipFencedRefill, FencedAt
  <2>2. c \in Nat /\ now - Behind <= c
    BY ClockSample
  <2>3. got[o].fence \in Nat /\ now \in Nat /\ Behind \in Nat
    BY <2>1, TrackedRedisAssumption DEF TypeOK
  <2>4. now <= got[o].fence + Behind
    BY <2>1, <2>2, <2>3
  <2> QED
    BY <2>1, <2>4 DEF FencesStand
<1> QED
  BY <1>1, <1>2, <1>3, Invariant, PTL DEF Spec, SkippedRefillsAreFenced

=============================================================================
