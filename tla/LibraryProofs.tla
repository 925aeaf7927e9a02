---------------------------- MODULE LibraryProofs ----------------------------
(* Proofs about three parts of the library for every value of their           *)
(* constants: deadlines, the Redis adapters and the runtime policy.           *)
EXTENDS RuntimeConfig, Deadline, RedisAdapter, TLAPS

-----------------------------------------------------------------------------
(* Deadlines *)

\* The inductive invariant: before the executor has run nothing is armed or
\* settled, and afterwards the wait's properties hold.
DeadlineInv ==
    /\ TypeOK
    /\ DeadlineIsExact
    /\ TimerFollowsWait
    /\ TimerIsTight
    /\ pc = "start" => timer = NoTime /\ outcome = "none"

\* Math.ceil rounds the remaining time of scheduleTimer up by less than one
\* millisecond.
LEMMA CeilBounds ==
    ASSUME NEW t \in Nat
    PROVE  /\ ceil(t) \in Nat
           /\ t <= ceil(t)
           /\ ceil(t) < t + Res
<1>1. Res \in Nat /\ Res > 0
  BY DeadlineAssumption
<1> DEFINE n == t + Res - 1
           q == n \div Res
           r == n % Res
<1>2. n \in Nat
  BY <1>1
<1>3. q \in Int /\ r \in 0..(Res - 1) /\ n = Res * q + r
  BY <1>1, <1>2
<1>4. ceil(t) = n - r
  BY <1>1, <1>2, <1>3 DEF ceil
<1> QED
  BY <1>1, <1>2, <1>3, <1>4

\* scheduleTimer arms a timer for the deadline, rounded up.
LEMMA TimerArmed ==
    ASSUME now \in Nat, timeout - now > 0
    PROVE  LET due == now + ceil(timeout - now)
           IN  due \in Nat /\ timeout <= due /\ due < timeout + Res
<1>1. timeout - now \in Nat
  BY DeadlineAssumption
<1> QED
  BY <1>1, CeilBounds, DeadlineAssumption

\* Every step of withMonotonicDeadline preserves the invariant.
LEMMA DeadlineNext == DeadlineInv /\ [Next]_vars => DeadlineInv'
<1> SUFFICES ASSUME DeadlineInv, [Next]_vars PROVE DeadlineInv'
  OBVIOUS
<1> USE DeadlineAssumption DEF DeadlineInv, TypeOK, DeadlineIsExact, TimerFollowsWait,
                               TimerIsTight, NoTime
<1>1. CASE Tick
  BY <1>1 DEF Tick
<1>2. CASE OperationSettles
  BY <1>2 DEF OperationSettles
<1>3. CASE Start
  <2>1. CASE timeout - now <= 0
    BY <1>3, <2>1 DEF Start, rejectTimeout, settle
  <2>2. CASE timeout - now > 0
    <3> DEFINE due == now + ceil(timeout - now)
    <3>1. due \in Nat /\ timeout <= due /\ due < timeout + Res
      BY <2>2, TimerArmed
    <3>2. timer' = due /\ UNCHANGED <<now, operation, outcome, settledAt, timeouts>>
      BY <1>3, <2>2 DEF Start, scheduleTimer
    <3> HIDE DEF due
    <3> QED
      BY <1>3, <3>1, <3>2 DEF Start
  <2> QED
    BY <2>1, <2>2
<1>4. CASE onTimer
  <2>1. CASE timeout - now <= 0
    BY <1>4, <2>1 DEF onTimer, rejectTimeout, settle
  <2>2. CASE timeout - now > 0
    <3> DEFINE due == now + ceil(timeout - now)
    <3>1. due \in Nat /\ timeout <= due /\ due < timeout + Res
      BY <2>2, TimerArmed
    <3>2. timer' = due /\ UNCHANGED <<now, pc, operation, outcome, settledAt, timeouts>>
      BY <1>4, <2>2 DEF onTimer, scheduleTimer
    <3> HIDE DEF due
    <3> QED
      BY <1>4, <3>1, <3>2 DEF onTimer
  <2> QED
    BY <2>1, <2>2
<1>5. CASE settleBeforeDeadline
  BY <1>5 DEF settleBeforeDeadline, rejectTimeout, settle
<1>6. CASE UNCHANGED vars
  BY <1>6 DEF vars
<1> QED
  BY <1>1, <1>2, <1>3, <1>4, <1>5, <1>6 DEF Next

\* The invariant holds of withMonotonicDeadline from its call on.
LEMMA DeadlineInvariance == Spec => []DeadlineInv
<1>1. Init => DeadlineInv
  BY DeadlineAssumption DEF Init, DeadlineInv, TypeOK, DeadlineIsExact, TimerFollowsWait, TimerIsTight, NoTime
<1> QED
  BY <1>1, DeadlineNext, PTL DEF Spec

\* withMonotonicDeadline never delivers a late outcome and never times out
\* early, however early or late its timers fire.
THEOREM Exact == Spec => []DeadlineIsExact
<1>1. DeadlineInv => DeadlineIsExact
  BY DEF DeadlineInv
<1> QED
  BY <1>1, DeadlineInvariance, PTL

\* One timer is armed exactly while the caller of withMonotonicDeadline waits,
\* and onTimeout runs exactly once for a timeout.
THEOREM NoOrphanTimer == Spec => []TimerFollowsWait
<1>1. DeadlineInv => TimerFollowsWait
  BY DEF DeadlineInv
<1> QED
  BY <1>1, DeadlineInvariance, PTL

\* The timer withMonotonicDeadline arms is due within a millisecond after the
\* deadline, and never before it.
THEOREM Tight == Spec => []TimerIsTight
<1>1. DeadlineInv => TimerIsTight
  BY DEF DeadlineInv
<1> QED
  BY <1>1, DeadlineInvariance, PTL

\* withMonotonicDeadline implements BoundedWait: every step of it is a step of
\* the abstract wait or leaves it unchanged.
THEOREM Refinement == Spec => ImplementsBoundedWait
<1>1. Init => Abstract!Init
  BY DEF Init, Abstract!Init
<1>2. DeadlineInv /\ [Next]_vars => [Abstract!Next]_(Abstract!vars)
  <2> SUFFICES ASSUME DeadlineInv, [Next]_vars
               PROVE  [Abstract!Next]_(Abstract!vars)
    OBVIOUS
  <2> USE DeadlineAssumption DEF DeadlineInv, TypeOK, NoTime, TimerFollowsWait
  <2>1. CASE Tick
    BY <2>1 DEF Tick, Abstract!Next, Abstract!vars, Abstract!DeadlinePasses
  <2>2. CASE OperationSettles
    BY <2>2 DEF OperationSettles, Abstract!Next, Abstract!OperationSettles,
                Abstract!Outcomes
  <2>3. CASE Start
    BY <2>3 DEF Start, rejectTimeout, settle, Abstract!Next,
                Abstract!DeliverTimeout, Abstract!vars
  <2>4. CASE onTimer
    BY <2>4 DEF onTimer, rejectTimeout, settle, Abstract!Next,
                Abstract!DeliverTimeout, Abstract!vars
  <2>5. CASE settleBeforeDeadline
    BY <2>5 DEF settleBeforeDeadline, rejectTimeout, settle, Abstract!Next,
                Abstract!DeliverTimeout, Abstract!DeliverOutcome,
                Abstract!Outcomes
  <2>6. CASE UNCHANGED vars
    BY <2>6 DEF vars, Abstract!vars
  <2> QED
    BY <2>1, <2>2, <2>3, <2>4, <2>5, <2>6 DEF Next
<1> QED
  BY <1>1, <1>2, DeadlineInvariance, PTL DEF Spec, ImplementsBoundedWait, Abstract!Spec

-----------------------------------------------------------------------------
(* The Redis adapters *)

Stores == [frame : Nat \cup {None}, watermark : Nat]
Results ==
    {None, Ok, Error, [kind |-> "miss"]} \cup [kind : {"hit"}, createdAtMs : Nat]
Ops == {"none", "tracked", "untracked", "write", "invalidate"}
Phases == {"idle", "sent", "evalsha", "eval", "done"}
Samples == Nat \cup {None}
Invocations ==
    [op : Ops, phase : Phases, sample : Samples, ranAt : SUBSET Samples,
     buffer : Nat, floor : Nat, result : Results]

\* What holds of an invocation when the acknowledged watermark is a: it has sampled
\* the clock once it has a stamp or a watermark to send, its script ran with that
\* sample only, and a tracked read began with a floor acknowledged before and
\* returns nothing that lies at or below it.
Sound(i, a) ==
    /\ i \in Invocations
    /\ i.phase \in {"evalsha", "eval"} => i.sample \in Nat
    /\ i.op = "write" /\ i.phase = "sent" => i.sample \in Nat
    /\ i.ranAt \subseteq {i.sample}
    /\ i.op = "tracked" => i.floor <= a
    /\ i.op = "tracked" /\ i.phase = "done" /\ i.result.kind = "hit"
       => i.result.createdAtMs > i.floor

\* The inductive invariant: invocations are sound, and what is acknowledged is in
\* place at the primary.
FenceInv ==
    /\ clock \in Nat /\ primary \in Stores /\ replica \in Stores
    /\ acked \in Nat /\ acked <= primary.watermark
    /\ call \in [Calls -> Invocations]
    /\ \A c \in Calls : Sound(call[c], acked)

\* An invocation after an answer or a dispatch.
Answered(r, phase, result, ranAt) ==
    [r EXCEPT !.phase = phase, !.result = result, !.ranAt = ranAt]

\* A step replaces one invocation.
Replaces(c, i) == call' = [call EXCEPT ![c] = i]

\* The samples, and the results an adapter gives without reading.
LEMMA PlainResults ==
    /\ None \in Samples /\ (\A n \in Nat : n \in Samples)
    /\ None \in Results /\ Ok \in Results /\ Error \in Results
    /\ Ok.kind # "hit" /\ Error.kind # "hit"
BY DEF Samples, Results, Ok, Error

\* The fields of an invocation that was not begun.
LEMMA IdleFields ==
    Idle \in Invocations /\ Idle.ranAt = {} /\ Idle.op = "none"
BY PlainResults DEF Idle, Invocations, Ops, Phases

\* The invariant holds before any client exists.
LEMMA FenceInit == AdapterInit => FenceInv
<1>1. Sound(Idle, 0)
  BY IdleFields DEF Idle, Sound
<1> QED
  BY <1>1, IdleFields DEF AdapterInit, FenceInv, Stores

\* An invocation as it begins is sound.
LEMMA SoundBegun ==
    ASSUME NEW a \in Nat, NEW i \in Invocations, i.ranAt = {}, i.phase # "eval",
           i.phase = "evalsha" => i.sample \in Nat,
           i.op = "write" /\ i.phase = "sent" => i.sample \in Nat,
           i.op = "tracked" => i.floor <= a /\ i.phase = "sent"
    PROVE  Sound(i, a)
BY DEF Sound

\* An answer or a dispatch keeps an invocation sound, if the script ran with the
\* sample and a read's result lies above its floor.
LEMMA SoundAnswered ==
    ASSUME NEW a \in Nat, NEW r, Sound(r, a),
           NEW phase \in Phases \ {"sent", "evalsha"}, NEW result \in Results,
           phase = "eval" => r.sample \in Nat,
           NEW ranAt, ranAt \subseteq r.ranAt \cup {r.sample},
           r.op = "tracked" /\ phase = "done" /\ result.kind = "hit"
               => result.createdAtMs > r.floor
    PROVE  Sound(Answered(r, phase, result, ranAt), a)
<1> DEFINE i == Answered(r, phase, result, ranAt)
<1>1. /\ r \in Invocations /\ r.ranAt \subseteq {r.sample}
      /\ r.op = "tracked" => r.floor <= a
  BY DEF Sound
<1>2. ranAt \subseteq {r.sample} /\ ranAt \in SUBSET Samples
  BY <1>1 DEF Invocations
<1>3. /\ i \in Invocations
      /\ i.op = r.op /\ i.phase = phase /\ i.sample = r.sample
      /\ i.ranAt = ranAt /\ i.floor = r.floor /\ i.result = result
  BY <1>1, <1>2 DEF Answered, Invocations
<1> HIDE DEF i
<1>4. Sound(i, a)
  BY <1>1, <1>2, <1>3 DEF Sound
<1> QED
  BY <1>4 DEF i

\* Soundness survives a larger acknowledged watermark.
LEMMA SoundLater ==
    ASSUME NEW a \in Nat, NEW b \in Nat, a <= b, NEW i, Sound(i, a)
    PROVE  Sound(i, b)
<1>1. i \in Invocations
  BY DEF Sound
<1>2. i.floor \in Nat
  BY <1>1 DEF Invocations
<1> QED
  BY <1>2 DEF Sound

\* A step that replaces one invocation by a sound one keeps the invariant.
LEMMA InvocationMoves ==
    ASSUME FenceInv, NEW c \in Calls, NEW i, Sound(i, acked),
           Replaces(c, i), primary' \in Stores, acked' \in Nat, acked <= acked',
           acked' <= primary'.watermark, clock' = clock, replica' = replica
    PROVE  FenceInv'
<1>1. i \in Invocations
  BY DEF Sound
<1>2. /\ \A d \in Calls : Sound(call[d], acked)
      /\ call \in [Calls -> Invocations] /\ acked \in Nat
  BY DEF FenceInv
<1>3. call' \in [Calls -> Invocations] /\ \A d \in Calls : Sound(call'[d], acked)
  BY <1>1, <1>2 DEF Replaces
<1>4. \A d \in Calls : Sound(call'[d], acked')
  BY <1>2, <1>3, SoundLater
<1> QED
  BY <1>3, <1>4 DEF FenceInv

\* The records that answers and rejections build are Answered ones.
LEMMA DispatchAnswered ==
    ASSUME NEW r \in Invocations, NEW ran, NEW result
    PROVE  /\ [[r EXCEPT !.ranAt = ran] EXCEPT !.phase = "eval"]
                  = Answered(r, "eval", r.result, ran)
           /\ [[r EXCEPT !.ranAt = ran] EXCEPT !.phase = "done", !.result = result]
                  = Answered(r, "done", result, ran)
           /\ [r EXCEPT !.phase = "eval"] = Answered(r, "eval", r.result, r.ranAt)
           /\ [r EXCEPT !.phase = "done", !.result = result]
                  = Answered(r, "done", result, r.ranAt)
BY DEF Invocations, Answered

\* Every step of an adapter, of its client and of the servers keeps the invariant.
LEMMA FenceStep ==
    FenceInv /\ [AdapterNext]_adapterVars => FenceInv'
<1> SUFFICES ASSUME FenceInv, [AdapterNext]_adapterVars PROVE FenceInv'
  OBVIOUS
<1>1. /\ clock \in Nat /\ primary \in Stores /\ replica \in Stores
      /\ acked \in Nat /\ acked <= primary.watermark
      /\ call \in [Calls -> Invocations]
      /\ \A c \in Calls : Sound(call[c], acked)
  BY DEF FenceInv
<1>p. Phases = {"idle", "sent", "evalsha", "eval", "done"}
      /\ {"tracked", "untracked", "write", "invalidate"} \subseteq Ops
  BY DEF Phases, Ops
<1>2. ASSUME NEW s \in BOOLEAN, NEW k \in BOOLEAN, createClient(s, k) PROVE FenceInv'
  BY <1>1, <1>2 DEF FenceInv, createClient
<1>3. ASSUME NEW c \in Calls, NEW t \in BOOLEAN, StartRead(c, t) PROVE FenceInv'
  <2> DEFINE op == IF t THEN "tracked" ELSE "untracked"
             i == [Idle EXCEPT !.op = op, !.phase = "sent", !.floor = acked]
  <2>1. Replaces(c, i)
    BY <1>3, Zenon DEF StartRead, Replaces
  <2>2. op \in Ops /\ op # "write"
    BY <1>p
  <2> HIDE DEF op
  <2>3. i \in Invocations /\ i.op = op /\ i.phase = "sent" /\ i.floor = acked /\ i.ranAt = {}
    BY <1>1, <1>p, <2>2, IdleFields DEF Invocations
  <2> HIDE DEF i
  <2>4. Sound(i, acked)
    BY <1>1, <2>2, <2>3, SoundBegun
  <2> QED
    BY <1>1, <1>3, <2>1, <2>4, InvocationMoves DEF StartRead
<1>4. ASSUME NEW c \in Calls, NEW t \in BOOLEAN, NEW s \in {None} \cup 1..clock,
             StartWrite(c, t, s)
      PROVE  FenceInv'
  <2> DEFINE stamp == IF s = None THEN clock ELSE s
             i == [Idle EXCEPT !.op = "write", !.phase = "sent", !.sample = stamp]
             j == [Idle EXCEPT !.op = "write", !.phase = "done", !.result = Error]
  <2>1. Replaces(c, i) \/ Replaces(c, j)
    BY <1>4, Zenon DEF StartWrite, Replaces
  <2>2. stamp \in Nat
    BY <1>1
  <2> HIDE DEF stamp
  <2>3. i \in Invocations /\ i.op = "write" /\ i.phase = "sent" /\ i.sample = stamp
        /\ i.ranAt = {}
    BY <1>1, <1>p, <2>2, PlainResults, IdleFields DEF Invocations
  <2>4. j \in Invocations /\ j.op = "write" /\ j.phase = "done" /\ j.ranAt = {}
    BY <1>1, <1>p, PlainResults, IdleFields DEF Invocations
  <2> HIDE DEF i, j
  <2>5. Sound(i, acked) /\ Sound(j, acked)
    BY <1>1, <2>2, <2>3, <2>4, SoundBegun
  <2> QED
    BY <1>1, <1>4, <2>1, <2>5, InvocationMoves DEF StartWrite
<1>5. ASSUME NEW c \in Calls, NEW b \in Buffers, StartInvalidate(c, b) PROVE FenceInv'
  <2> DEFINE i == [Idle EXCEPT !.op = "invalidate", !.phase = "evalsha", !.sample = clock,
                                 !.buffer = b]
  <2>1. Replaces(c, i)
    BY <1>5, Zenon DEF StartInvalidate, Replaces
  <2>2. b \in Nat
    BY AdapterAssumption
  <2>3. i \in Invocations /\ i.op = "invalidate" /\ i.phase = "evalsha" /\ i.sample = clock
        /\ i.ranAt = {}
    BY <1>1, <1>p, <2>2, PlainResults, IdleFields DEF Invocations
  <2> HIDE DEF i
  <2>4. Sound(i, acked)
    BY <1>1, <2>3, SoundBegun
  <2> QED
    BY <1>1, <1>5, <2>1, <2>4, InvocationMoves DEF StartInvalidate
<1>6. ASSUME NEW c \in Calls, NEW result \in Results,
             call[c].op = "tracked" /\ result.kind = "hit"
                 => result.createdAtMs > call[c].floor,
             call' = [call EXCEPT ![c].phase = "done", ![c].result = result],
             primary' \in Stores, primary'.watermark = primary.watermark,
             acked' = acked, clock' = clock, replica' = replica
      PROVE  FenceInv'
  <2>1. Sound(Answered(call[c], "done", result, call[c].ranAt), acked)
    BY <1>1, <1>6, SoundAnswered, <1>p
  <2>2. [call EXCEPT ![c].phase = "done", ![c].result = result]
          = [call EXCEPT ![c] = [call[c] EXCEPT !.phase = "done", !.result = result]]
    BY <1>1
  <2>3. Replaces(c, Answered(call[c], "done", result, call[c].ranAt))
    BY <1>1, <1>6, <2>2, DispatchAnswered, Zenon DEF Replaces
  <2> QED
    BY <1>1, <1>6, <2>1, <2>3, InvocationMoves
<1>7. ASSUME NEW c \in Calls, FinishRead(c) PROVE FenceInv'
  <2>1. PICK snapshot \in ReadTargets(call[c].op = "tracked") :
          \E result \in validateRedisMGetReply(snapshot, call[c].op = "tracked") :
             call' = [call EXCEPT ![c].phase = "done", ![c].result = result]
    BY <1>7 DEF FinishRead
  <2>2. PICK result \in validateRedisMGetReply(snapshot, call[c].op = "tracked") :
          call' = [call EXCEPT ![c].phase = "done", ![c].result = result]
    BY <2>1
  <2>3. snapshot \in Stores /\ (call[c].op = "tracked" => snapshot = primary)
    BY <1>1 DEF ReadTargets, sendKeyedCommand, keyedOptions
  <2>4. call[c].op = "tracked" => call[c].floor \in Nat /\ call[c].floor <= acked
    BY <1>1 DEF Sound, Invocations
  <2>5. result \in Results
    BY <2>3, PlainResults DEF validateRedisMGetReply, Decoded, Results, Stores
  <2>6. call[c].op = "tracked" /\ result.kind = "hit" => result.createdAtMs > call[c].floor
    BY <1>1, <2>3, <2>4, PlainResults DEF validateRedisMGetReply, Decoded, Stores
  <2> QED
    BY <1>1, <1>6, <1>7, <2>2, <2>5, <2>6, Zenon DEF FinishRead
<1>8. ASSUME NEW c \in Calls, FinishWrite(c) PROVE FenceInv'
  <2>1. PICK result \in {Ok, Error} :
          call' = [call EXCEPT ![c].phase = "done", ![c].result = result]
    BY <1>8 DEF FinishWrite, validateRedisSetReply
  <2>2. call[c].sample \in Nat
    BY <1>1, <1>8 DEF FinishWrite, Sound
  <2>3. primary' \in Stores /\ primary'.watermark = primary.watermark
    BY <1>1, <1>8, <2>2 DEF FinishWrite, sendFrameSet, Stores
  <2> QED
    BY <1>6, <1>8, <2>1, <2>3, PlainResults DEF FinishWrite
<1>9. ASSUME NEW c \in Calls,
             InvalidateAnswered(c) \/ InvalidateMisanswered(c) \/ InvalidateRejected(c)
      PROVE  FenceInv'
  <2> DEFINE r == call[c]
             Moves(phase, result, ranAt) ==
                 Replaces(c, Answered(r, phase, result, ranAt))
  <2>1. /\ r.phase \in {"evalsha", "eval"} /\ r.sample \in Nat /\ r.buffer \in Nat
        /\ r.result \in Results /\ r \in Invocations /\ Sound(r, acked)
        /\ ScriptSample(c) = r.sample
    BY <1>1, <1>9 DEF InvalidateAnswered, InvalidateMisanswered, InvalidateRejected,
                Sound, Invocations, ScriptSample
  <2>2. Ran(c) = [r EXCEPT !.ranAt = r.ranAt \cup {r.sample}]
    BY <2>1 DEF Ran
  <2>3. \E ranAt \in {r.ranAt, r.ranAt \cup {r.sample}} :
           Moves("eval", r.result, ranAt) \/ Moves("done", Ok, ranAt)
              \/ Moves("done", Error, ranAt)
    <3> DEFINE ran == r.ranAt \cup {r.sample}
    <3>1. CASE InvalidateAnswered(c)
      <4>1. [Ran(c) EXCEPT !.phase = "done", !.result = Ok]
              = Answered(r, "done", Ok, ran)
        BY <2>1, <2>2 DEF Answered, Invocations
      <4> QED
        BY <3>1, <4>1, Zenon DEF InvalidateAnswered, Replaces
    <3>2. CASE InvalidateMisanswered(c)
      <4>1. [Ran(c) EXCEPT !.phase = "done", !.result = Error]
              = Answered(r, "done", Error, ran)
        BY <2>1, <2>2 DEF Answered, Invocations
      <4>2. [call EXCEPT ![c].phase = "done", ![c].result = Error]
              = [call EXCEPT ![c] = [r EXCEPT !.phase = "done", !.result = Error]]
        BY <1>1
      <4>3. [r EXCEPT !.phase = "done", !.result = Error]
              = Answered(r, "done", Error, r.ranAt)
        BY <2>1, DispatchAnswered, Zenon
      <4> QED
        BY <3>2, <4>1, <4>2, <4>3, Zenon DEF InvalidateMisanswered, Replaces
    <3>3. CASE InvalidateRejected(c)
      <4>1. ASSUME NEW before, NEW ranAt, before = [r EXCEPT !.ranAt = ranAt],
                   Rejection(c, before)
            PROVE  Moves("eval", r.result, ranAt) \/ Moves("done", Error, ranAt)
        <5>1. /\ [before EXCEPT !.phase = "eval"] = Answered(r, "eval", r.result, ranAt)
              /\ [before EXCEPT !.phase = "done", !.result = Error]
                    = Answered(r, "done", Error, ranAt)
          BY <2>1, <4>1 DEF Answered, Invocations
        <5> QED
          BY <1>1, <4>1, <5>1 DEF Rejection, Replaces
      <4>2. r = [r EXCEPT !.ranAt = r.ranAt]
        BY <2>1 DEF Invocations
      <4> QED
        BY <2>2, <3>3, <4>1, <4>2, Zenon DEF InvalidateRejected
    <3> QED
      BY <1>9, <3>1, <3>2, <3>3, Zenon
  <2>4. ASSUME NEW ranAt \in {r.ranAt, r.ranAt \cup {r.sample}}
        PROVE  /\ Sound(Answered(r, "eval", r.result, ranAt), acked)
               /\ Sound(Answered(r, "done", Ok, ranAt), acked)
               /\ Sound(Answered(r, "done", Error, ranAt), acked)
    BY <1>1, <2>1, PlainResults, SoundAnswered, <1>p
  <2>5. /\ primary' \in Stores /\ acked' \in Nat /\ acked <= acked'
        /\ acked' <= primary'.watermark /\ clock' = clock /\ replica' = replica
    BY <1>1, <1>9, <2>1 DEF InvalidateAnswered, InvalidateMisanswered,
                InvalidateRejected, ScriptRuns, Larger, Stores
  <2> QED
    BY <2>3, <2>4, <2>5, InvocationMoves
<1>10. CASE Replicate \/ FlushScripts \/ Elapse \/ UNCHANGED adapterVars
  BY <1>1, <1>10 DEF FenceInv, Replicate, FlushScripts, Elapse, adapterVars
<1> QED
  BY <1>2, <1>3, <1>4, <1>5, <1>7, <1>8, <1>9, <1>10 DEF AdapterNext

\* A tracked read that began after an invalidation settled never returns a frame it
\* fences, for any number of invocations and however the replica lags (ReadTargets
\* sends it to the primary, Decoded applies the watermark).
THEOREM FencesSeen ==
    AdapterSpec => []SettledFencesAreSeen
<1>1. FenceInv => SettledFencesAreSeen
  BY DEF FenceInv, Sound, SettledFencesAreSeen
<1> QED
  BY <1>1, FenceInit, FenceStep, PTL DEF AdapterSpec

\* Every dispatch of one invalidation proposes the watermark sampled before the
\* first, and a settled one is in place at the primary (ScriptSample, Rejection).
THEOREM RetryIsIdempotent ==
    AdapterSpec => []RetryProposesTheSame
<1>1. FenceInv => RetryProposesTheSame
  BY DEF FenceInv, Sound, RetryProposesTheSame
<1> QED
  BY <1>1, FenceInit, FenceStep, PTL DEF AdapterSpec

-----------------------------------------------------------------------------
(* Runtime policy: leaves and shadow groups *)

\* A shadow group whose own groups are objects.
SoundShadow(s) ==
    s = Undefined \/ (s \in ShadowConfigs /\ s.mismatchLogging # Malformed)

\* A leaf of one group: the written one, else what the shorthand stands for.
OwnLeaf(s, leaf) == Leaf(LeafOf(s, leaf), ShorthandOf(s, leaf))

\* The first written of four.
FirstWritten(w) == Leaf(Leaf(w[1], w[2]), Leaf(w[3], w[4]))

Wins(w, i) == w[i] # Undefined /\ \A j \in 1 .. i - 1 : w[j] = Undefined

\* An unwritten leaf and a malformed one differ from each other and from every
\* value that a leaf or a group may hold.
LEMMA Marks ==
    /\ Undefined \notin Int /\ Malformed \notin Int
    /\ Undefined \notin BOOLEAN /\ Malformed \notin BOOLEAN
    /\ Undefined \notin DIFF_LEVELS /\ Malformed \notin DIFF_LEVELS
    /\ Undefined \notin ShadowConfigs /\ Malformed \notin ShadowConfigs
    /\ Undefined \notin MismatchLoggings /\ Malformed \notin MismatchLoggings
    /\ Malformed \notin [Layers -> Written(Int)] /\ Malformed \notin KeyConfigs
    /\ Undefined # Malformed
  BY ConfigAssumption

\* In particular from the values that the kill switch writes.
LEMMA MarksApart ==
    /\ Undefined # FALSE /\ Malformed # FALSE /\ Undefined # 0
    /\ Undefined # "off" /\ Malformed # "off"
<1>1. Undefined # FALSE /\ Malformed # FALSE
  BY Marks, Zenon
<1>2. Undefined # 0
  BY Marks
<1>3. Undefined # "off" /\ Malformed # "off"
  BY Marks DEF DIFF_LEVELS
<1> QED
  BY <1>1, <1>2, <1>3, Zenon

\* A written leaf prevails, an unwritten one inherits (mergeKeyConfig).
LEMMA LeafIs ==
    \A a, b : /\ a # Undefined => Leaf(a, b) = a
              /\ Leaf(Undefined, b) = b
  BY DEF Leaf

\* Merging pairwise finds the first written of four leaves: a valid winner is the
\* merged leaf, and there is one exactly if the merged leaf is valid.
LEMMA FirstWins ==
    ASSUME NEW a, NEW b, NEW c, NEW e, NEW valid, Undefined \notin valid
    PROVE  LET w == <<a, b, c, e>>
           IN  /\ (\E i \in 1 .. 4 : Wins(w, i) /\ w[i] \in valid)
                    <=> FirstWritten(w) \in valid
               /\ FirstWritten(w) \in valid
                    => w[CHOOSE i \in 1 .. 4 : Wins(w, i)] = FirstWritten(w)
<1> DEFINE w == <<a, b, c, e>>
<1>1. /\ w[1] = a /\ w[2] = b /\ w[3] = c /\ w[4] = e
  OBVIOUS
<1>2. /\ Wins(w, 1) <=> a # Undefined
      /\ Wins(w, 2) <=> (a = Undefined /\ b # Undefined)
      /\ Wins(w, 3) <=> (a = Undefined /\ b = Undefined /\ c # Undefined)
      /\ Wins(w, 4) <=> (a = Undefined /\ b = Undefined /\ c = Undefined /\ e # Undefined)
  BY <1>1 DEF Wins
<1>3. FirstWritten(w) = Leaf(Leaf(a, b), Leaf(c, e))
  BY <1>1 DEF FirstWritten
<1>4. \A i \in 1 .. 4 : Wins(w, i) => w[i] = FirstWritten(w)
  <2> SUFFICES ASSUME NEW i \in 1 .. 4, Wins(w, i) PROVE w[i] = FirstWritten(w)
    OBVIOUS
  <2> i = 1 \/ i = 2 \/ i = 3 \/ i = 4
    OBVIOUS
  <2> HIDE DEF w
  <2> QED
    BY <1>1, <1>2, <1>3 DEF Leaf
<1> HIDE DEF w
<1>5. FirstWritten(w) # Undefined => \E i \in 1 .. 4 : Wins(w, i)
  BY <1>2, <1>3 DEF Leaf
<1>6. (\E i \in 1 .. 4 : Wins(w, i) /\ w[i] \in valid) <=> FirstWritten(w) \in valid
  BY <1>4, <1>5
<1>7. FirstWritten(w) \in valid
        => w[CHOOSE i \in 1 .. 4 : Wins(w, i)] = FirstWritten(w)
  BY <1>4, <1>5
<1> QED
  BY <1>6, <1>7 DEF w

\* expandMismatchLogging yields each leaf written beside the shorthand, else the
\* shorthand's, and marks exactly a malformed shorthand, which writes both leaves.
LEMMA Expanded ==
    ASSUME NEW s, s # Undefined, SoundShadow(s)
    PROVE  /\ expandMismatchLogging(s).value = OwnLeaf(s, "value")
           /\ expandMismatchLogging(s).diff = OwnLeaf(s, "diff")
           /\ expandMismatchLogging(s).invalid = (s.logMismatches = Malformed)
           /\ OwnLeaf(s, "value") \in Written(BOOLEAN)
           /\ OwnLeaf(s, "diff") \in Written(DIFF_LEVELS)
           /\ s.logMismatches = Malformed
                => OwnLeaf(s, "value") # Undefined /\ OwnLeaf(s, "diff") # Undefined
<1> DEFINE x == expandShorthand(s.logMismatches)
<1>1. /\ s \in ShadowConfigs /\ s.mismatchLogging # Malformed
      /\ s.logMismatches \in BOOLEAN \cup {Undefined, Malformed}
  BY DEF SoundShadow, ShadowConfigs, Written
<1>2. /\ x.value = ShorthandOf(s, "value") /\ x.diff = ShorthandOf(s, "diff")
      /\ x.invalid = (s.logMismatches = Malformed)
      /\ x = [value |-> x.value, diff |-> x.diff, invalid |-> x.invalid]
      /\ ShorthandOf(s, "value") \in BOOLEAN \cup {Undefined}
      /\ ShorthandOf(s, "diff") \in DIFF_LEVELS \cup {Undefined}
      /\ s.logMismatches = Malformed
           => ShorthandOf(s, "value") = FALSE /\ ShorthandOf(s, "diff") = "off"
  BY <1>1, Marks DEF expandShorthand, NoLogging, ShorthandOf, DIFF_LEVELS
<1> HIDE DEF x
<1>3. CASE s.mismatchLogging = Undefined
  BY <1>1, <1>2, <1>3, Marks
  DEF expandMismatchLogging, OwnLeaf, LeafOf, Leaf, Written, x, DIFF_LEVELS
<1>4. CASE s.mismatchLogging # Undefined
  <2>1. /\ s.mismatchLogging.value \in Written(BOOLEAN)
        /\ s.mismatchLogging.diff \in Written(DIFF_LEVELS)
    BY <1>1, <1>4 DEF ShadowConfigs, MismatchLoggings, Written
  <2>2. /\ LeafOf(s, "value") = s.mismatchLogging.value
        /\ LeafOf(s, "diff") = s.mismatchLogging.diff
    BY <1>4 DEF LeafOf
  <2>3. expandMismatchLogging(s)
          = [value |-> Leaf(s.mismatchLogging.value, x.value),
             diff |-> Leaf(s.mismatchLogging.diff, x.diff), invalid |-> x.invalid]
    BY <1>2, <1>4 DEF expandMismatchLogging, x
  <2>4. /\ expandMismatchLogging(s).value = OwnLeaf(s, "value")
        /\ expandMismatchLogging(s).diff = OwnLeaf(s, "diff")
        /\ expandMismatchLogging(s).invalid = x.invalid
    BY <1>2, <2>2, <2>3 DEF OwnLeaf
  <2>5. /\ OwnLeaf(s, "value") \in Written(BOOLEAN)
        /\ OwnLeaf(s, "diff") \in Written(DIFF_LEVELS)
    BY <1>2, <2>1, <2>2 DEF OwnLeaf, Leaf, Written
  <2>6. s.logMismatches = Malformed
          => OwnLeaf(s, "value") # Undefined /\ OwnLeaf(s, "diff") # Undefined
    <3>1. SUFFICES ASSUME s.logMismatches = Malformed
                   PROVE  OwnLeaf(s, "value") # Undefined /\ OwnLeaf(s, "diff") # Undefined
      OBVIOUS
    <3>2. ShorthandOf(s, "value") # Undefined /\ ShorthandOf(s, "diff") # Undefined
      BY <1>2, <3>1, Marks DEF DIFF_LEVELS
    <3> QED
      BY <3>2 DEF OwnLeaf, Leaf
  <2> QED
    BY <1>2, <2>4, <2>5, <2>6
<1> QED
  BY <1>3, <1>4

\* The same for a group that may be missing, which writes nothing.
LEMMA LeavesAre ==
    ASSUME NEW s, SoundShadow(s)
    PROVE  /\ LeavesOf(s).value = OwnLeaf(s, "value")
           /\ LeavesOf(s).diff = OwnLeaf(s, "diff")
           /\ LeavesOf(s).invalid = (s # Undefined /\ s.logMismatches = Malformed)
           /\ OwnLeaf(s, "value") \in Written(BOOLEAN)
           /\ OwnLeaf(s, "diff") \in Written(DIFF_LEVELS)
           /\ LeavesOf(s).invalid
                => OwnLeaf(s, "value") # Undefined /\ OwnLeaf(s, "diff") # Undefined
<1>1. CASE s = Undefined
  BY <1>1 DEF LeavesOf, NoLogging, OwnLeaf, LeafOf, ShorthandOf, Leaf, Written
<1>2. CASE s # Undefined
  BY <1>2, Expanded DEF LeavesOf
<1> QED
  BY <1>1, <1>2

\* mergeShadowConfig merges the expanded leaves, and the shorthand that it keeps
\* for resolution to report changes none of them.
LEMMA MergedShadow ==
    ASSUME NEW d, NEW o, SoundShadow(d), SoundShadow(o),
           ~(d = Undefined /\ o = Undefined),
           NEW m, m = mergeShadowConfig(d, o)
    PROVE  /\ m # Undefined /\ SoundShadow(m)
           /\ m.ramp = Leaf(RampOf(o), RampOf(d))
           /\ OwnLeaf(m, "value") = Leaf(OwnLeaf(o, "value"), OwnLeaf(d, "value"))
           /\ OwnLeaf(m, "diff") = Leaf(OwnLeaf(o, "diff"), OwnLeaf(d, "diff"))
           /\ m.logMismatches = IF LeavesOf(o).invalid THEN Malformed ELSE Undefined
<1> DEFINE v == Leaf(OwnLeaf(o, "value"), OwnLeaf(d, "value"))
           f == Leaf(OwnLeaf(o, "diff"), OwnLeaf(d, "diff"))
           short == IF LeavesOf(o).invalid THEN Malformed ELSE Undefined
           group == IF v = Undefined /\ f = Undefined THEN Undefined
                    ELSE [value |-> v, diff |-> f]
<1>1. LeavesOf(o).invalid => o.logMismatches = Malformed
  BY LeavesAre
<1>2. m = [ramp |-> Leaf(RampOf(o), RampOf(d)), logMismatches |-> short,
           mismatchLogging |-> group]
  BY <1>1, LeavesAre DEF mergeShadowConfig
<1>3. /\ v \in Written(BOOLEAN) /\ f \in Written(DIFF_LEVELS)
      /\ short = Malformed => v # Undefined /\ f # Undefined
  BY LeavesAre, Marks DEF Leaf, Written
<1>4. Leaf(RampOf(o), RampOf(d)) \in Written(Int)
  BY DEF SoundShadow, ShadowConfigs, RampOf, Leaf, Written
<1>5. /\ short \in {Undefined, Malformed}
      /\ m.ramp = Leaf(RampOf(o), RampOf(d)) /\ m.logMismatches = short
      /\ m.mismatchLogging = group
  <2>1. short \in {Undefined, Malformed}
    OBVIOUS
  <2> HIDE DEF short, group
  <2> QED
    BY <1>2, <2>1
<1> HIDE DEF v, f, short
<1>6. /\ group = Undefined => v = Undefined /\ f = Undefined
      /\ group # Undefined => group = [value |-> v, diff |-> f]
      /\ group \in MismatchLoggings \cup {Undefined}
  BY <1>3, Marks DEF MismatchLoggings
<1> HIDE DEF group
<1>7. m \in ShadowConfigs
  BY <1>2, <1>4, <1>5, <1>6 DEF ShadowConfigs, Written
<1>8. group # Malformed
  BY <1>6, Marks
<1>9. /\ LeafOf(m, "value") = v /\ LeafOf(m, "diff") = f
  BY <1>5, <1>6, <1>7, Marks DEF LeafOf
<1>10. short = Undefined
         => ShorthandOf(m, "value") = Undefined /\ ShorthandOf(m, "diff") = Undefined
  BY <1>5 DEF ShorthandOf
<1>11. OwnLeaf(m, "value") = v /\ OwnLeaf(m, "diff") = f
  <2>1. /\ v = Undefined => ShorthandOf(m, "value") = Undefined
        /\ f = Undefined => ShorthandOf(m, "diff") = Undefined
    BY <1>3, <1>5, <1>10
  <2> QED
    BY <1>9, <2>1 DEF OwnLeaf, Leaf
<1> QED
  BY <1>5, <1>7, <1>8, <1>11, Marks DEF SoundShadow, v, f, short

\* resolveMismatchLogging turns an unwritten or invalid leaf off and reports exactly
\* the invalid ones.
LEMMA LoggingIs ==
    ASSUME NEW config, config # Absent, SoundShadow(config.shadow)
    PROVE  LET s == config.shadow
               v == OwnLeaf(s, "value")
               f == OwnLeaf(s, "diff")
               l == LoggingOf(config)
           IN  /\ l.value = (v = TRUE)
               /\ l.diff = IF f \in DIFF_LEVELS THEN f ELSE "off"
               /\ l.invalid = (\/ s # Undefined /\ s.logMismatches = Malformed
                               \/ v = Malformed \/ f = Malformed)
               /\ l \in [value : BOOLEAN, diff : DIFF_LEVELS, invalid : BOOLEAN]
               /\ l = [value |-> l.value, diff |-> l.diff, invalid |-> l.invalid]
<1> DEFINE s == config.shadow
           v == OwnLeaf(s, "value")
           f == OwnLeaf(s, "diff")
           l == LoggingOf(config)
<1>1. CASE s = Undefined
  <2>1. v = Undefined /\ f = Undefined
    BY <1>1 DEF OwnLeaf, LeafOf, ShorthandOf, Leaf
  <2>2. l = [value |-> FALSE, diff |-> "off", invalid |-> FALSE]
    BY <1>1 DEF LoggingOf
  <2>3. (v = TRUE) = FALSE /\ f \notin DIFF_LEVELS /\ v # Malformed /\ f # Malformed
    BY <2>1, Marks
  <2> HIDE DEF v, f, l
  <2>4. /\ l.value = FALSE /\ l.diff = "off" /\ l.invalid = FALSE
        /\ l \in [value : BOOLEAN, diff : DIFF_LEVELS, invalid : BOOLEAN]
        /\ l = [value |-> l.value, diff |-> l.diff, invalid |-> l.invalid]
    BY <2>2 DEF DIFF_LEVELS
  <2>5. l.value = (v = TRUE)
    BY <2>3, <2>4, Zenon
  <2>6. l.diff = IF f \in DIFF_LEVELS THEN f ELSE "off"
    BY <2>3, <2>4
  <2>7. l.invalid = (\/ s # Undefined /\ s.logMismatches = Malformed
                     \/ v = Malformed \/ f = Malformed)
    BY <1>1, <2>3, <2>4, Zenon
  <2> QED
    BY <2>4, <2>5, <2>6, <2>7, Zenon DEF v, f, l
<1>2. CASE s # Undefined
  <2> DEFINE e == expandMismatchLogging(s)
  <2>1. /\ e.value = v /\ e.diff = f /\ e.invalid = (s.logMismatches = Malformed)
        /\ v \in Written(BOOLEAN) /\ f \in Written(DIFF_LEVELS)
    BY <1>2, Expanded
  <2>2. l = [value |-> e.value = TRUE,
             diff |-> IF e.diff \in DIFF_LEVELS THEN e.diff ELSE "off",
             invalid |-> \/ e.invalid \/ ~Optional(e.value, BOOLEAN)
                         \/ ~Optional(e.diff, DIFF_LEVELS)]
    BY <1>2 DEF LoggingOf, resolveMismatchLogging
  <2> HIDE DEF e, v, f, l
  <2>3. /\ ~Optional(v, BOOLEAN) <=> v = Malformed
        /\ ~Optional(f, DIFF_LEVELS) <=> f = Malformed
    BY <2>1, Marks DEF Optional, Written
  <2>4. l = [value |-> v = TRUE, diff |-> IF f \in DIFF_LEVELS THEN f ELSE "off",
             invalid |-> \/ s.logMismatches = Malformed
                         \/ v = Malformed \/ f = Malformed]
    BY <2>1, <2>2, <2>3
  <2> QED
    BY <1>2, <2>4 DEF DIFF_LEVELS, v, f, l
<1> QED
  BY <1>1, <1>2

-----------------------------------------------------------------------------
(* Runtime policy: configs and what they resolve to *)

\* A config that is an object all through.
SoundConfig(c) == c \in KeyConfigs /\ assertKeyConfig(c)

\* The groups of a config that passed assertKeyConfig are objects.
LEMMA SoundParts ==
    ASSUME NEW c, SoundConfig(c)
    PROVE  /\ SoundShadow(c.shadow) /\ c # Absent
           /\ c.ttlSec \in [Layers -> Written(Int)] /\ c.ramp \in [Layers -> Written(Int)]
<1>1. c # Absent
  BY ConfigAssumption DEF SoundConfig
<1>2. c.shadow \in ShadowConfigs \cup {Undefined, Malformed}
  BY DEF SoundConfig, KeyConfigs, Written
<1>3. SoundShadow(c.shadow)
  BY <1>2 DEF SoundConfig, assertKeyConfig, assertShadowConfig, SoundShadow
<1>4. c.ttlSec \in LayerConfigs /\ c.ramp \in LayerConfigs
  BY DEF SoundConfig, KeyConfigs
<1>5. c.ttlSec # Malformed /\ c.ramp # Malformed
  BY DEF SoundConfig, assertKeyConfig, assertLayerConfig
<1> QED
  BY <1>1, <1>3, <1>4, <1>5 DEF LayerConfigs

\* Nothing written is such a config.
LEMMA SoundEmpty == SoundConfig(EmptyConfig)
<1>1. NoLeaves \in [Layers -> Written(Int)]
  BY DEF NoLeaves, Written
<1>2. EmptyConfig \in KeyConfigs
  BY <1>1 DEF EmptyConfig, KeyConfigs, LayerConfigs, Written
<1>3. /\ EmptyConfig.ttlSec = NoLeaves /\ EmptyConfig.ramp = NoLeaves
      /\ EmptyConfig.shadow = Undefined
  BY DEF EmptyConfig
<1>4. assertKeyConfig(EmptyConfig)
  BY <1>1, <1>2, <1>3, Marks DEF assertKeyConfig, assertLayerConfig, assertShadowConfig
<1> QED
  BY <1>2, <1>4 DEF SoundConfig

\* The default under the overlay: nothing written when none is registered.
Base(defaults) == IF defaults = Absent THEN EmptyConfig ELSE defaults

\* mergeLayerConfig yields a leaf for every layer.
LEMMA MergedLayers ==
    ASSUME NEW d \in [Layers -> Written(Int)], NEW o \in [Layers -> Written(Int)]
    PROVE  mergeLayerConfig(d, o) \in [Layers -> Written(Int)]
  BY DEF mergeLayerConfig, Leaf

\* mergeKeyConfig of two such configs is one, leaf by leaf.
LEMMA Merged ==
    ASSUME NEW defaults, NEW o, SoundConfig(Base(defaults)), SoundConfig(o)
    PROVE  LET m == mergeKeyConfig(defaults, o)
               d == Base(defaults)
           IN  /\ SoundConfig(m)
               /\ m.shadow = mergeShadowConfig(d.shadow, o.shadow)
               /\ m.requestLocal = Leaf(o.requestLocal, d.requestLocal)
               /\ m.coalesce = Leaf(o.coalesce, d.coalesce)
               /\ m.staleOnErrorMaxAgeSec
                    = Leaf(o.staleOnErrorMaxAgeSec, d.staleOnErrorMaxAgeSec)
               /\ m.remoteReadTimeoutMs = Leaf(o.remoteReadTimeoutMs, d.remoteReadTimeoutMs)
               /\ \A layer \in Layers :
                     m.ramp[layer] = Leaf(o.ramp[layer], d.ramp[layer])
<1> DEFINE d == Base(defaults)
           m == mergeKeyConfig(defaults, o)
           sh == mergeShadowConfig(d.shadow, o.shadow)
           ttl == mergeLayerConfig(d.ttlSec, o.ttlSec)
           ramp == mergeLayerConfig(d.ramp, o.ramp)
<1>1. m = [ttlSec |-> ttl, ramp |-> ramp,
           requestLocal |-> Leaf(o.requestLocal, d.requestLocal),
           coalesce |-> Leaf(o.coalesce, d.coalesce),
           staleOnErrorMaxAgeSec |->
              Leaf(o.staleOnErrorMaxAgeSec, d.staleOnErrorMaxAgeSec),
           remoteReadTimeoutMs |-> Leaf(o.remoteReadTimeoutMs, d.remoteReadTimeoutMs),
           shadow |-> sh]
  BY Zenon DEF mergeKeyConfig, Base
<1>2. ttl \in [Layers -> Written(Int)] /\ ramp \in [Layers -> Written(Int)]
  BY MergedLayers, SoundParts
<1>3. \A layer \in Layers : ramp[layer] = Leaf(o.ramp[layer], d.ramp[layer])
  BY DEF mergeLayerConfig
<1>4. SoundShadow(sh)
  <2>1. CASE d.shadow = Undefined /\ o.shadow = Undefined
    BY <2>1, Zenon DEF mergeShadowConfig, SoundShadow
  <2>2. CASE ~(d.shadow = Undefined /\ o.shadow = Undefined)
    BY <2>2, MergedShadow, SoundParts, Zenon
  <2> QED
    BY <2>1, <2>2
<1>5. /\ Leaf(o.requestLocal, d.requestLocal) \in Written(BOOLEAN)
      /\ Leaf(o.coalesce, d.coalesce) \in Written(BOOLEAN)
      /\ Leaf(o.staleOnErrorMaxAgeSec, d.staleOnErrorMaxAgeSec) \in Written(Int)
      /\ Leaf(o.remoteReadTimeoutMs, d.remoteReadTimeoutMs) \in Written(Int)
  BY Zenon DEF SoundConfig, KeyConfigs, Leaf
<1> HIDE DEF d, m, sh, ttl, ramp
<1>6. m \in KeyConfigs
  <2>1. sh \in Written(ShadowConfigs)
    BY <1>4 DEF SoundShadow, Written
  <2>2. ttl \in LayerConfigs /\ ramp \in LayerConfigs
    BY <1>2 DEF LayerConfigs
  <2> QED
    BY <1>1, <1>5, <2>1, <2>2, Zenon DEF KeyConfigs
<1>7. assertKeyConfig(m)
  BY <1>1, <1>2, <1>4, <1>6, Marks, Zenon
  DEF assertKeyConfig, assertLayerConfig, assertShadowConfig, SoundShadow
<1>8. /\ m.shadow = sh /\ m.ramp = ramp
      /\ m.requestLocal = Leaf(o.requestLocal, d.requestLocal)
      /\ m.coalesce = Leaf(o.coalesce, d.coalesce)
      /\ m.staleOnErrorMaxAgeSec
           = Leaf(o.staleOnErrorMaxAgeSec, d.staleOnErrorMaxAgeSec)
      /\ m.remoteReadTimeoutMs = Leaf(o.remoteReadTimeoutMs, d.remoteReadTimeoutMs)
  BY <1>1, Zenon
<1> QED
  BY <1>3, <1>6, <1>7, <1>8, Zenon DEF SoundConfig, d, m, sh

\* resolveLayerConfigResult answers one of its resolutions.
LEMMA LayerTyped ==
    ASSUME NEW config, NEW layer \in Layers, config = Absent \/ SoundConfig(config)
    PROVE  resolveLayerConfigResult(config, layer) \in LayerResults
<1> DEFINE ttl == config.ttlSec[layer]
           ramp == Leaf(config.ramp[layer], 100)
           r == resolveLayerConfigResult(config, layer)
<1>1. \A reason \in {"policy_disabled", "invalid_ttl", "invalid_ramp"} :
         Off(reason) \in LayerResults
  BY DEF Off, LayerResults
<1>2. ASSUME NEW t \in 1 .. MaxCacheTtlSec, NEW q
      PROVE  Ramped(layer, t, q) \in LayerResults
  BY DEF Ramped, LayerResults
<1>3. r \in {Off("policy_disabled"), Off("invalid_ttl"), Off("invalid_ramp")}
        \/ (ttl \in 1 .. MaxCacheTtlSec /\ r = Ramped(layer, ttl, ramp))
  BY Zenon DEF resolveLayerConfigResult, isSupportedCacheTtlSec
<1> HIDE DEF ttl, ramp, r
<1>4. r \in LayerResults
  BY <1>1, <1>2, <1>3
<1> QED
  BY <1>4 DEF r

\* An invocation that resolves at all resolves a policy.
LEMMA PolicyTyped ==
    ASSUME NEW config, config = Absent \/ SoundConfig(config)
    PROVE  Resolve(config) \in Policies
<1>1. /\ resolveLayerConfigResult(config, "local") \in LayerResults
      /\ resolveLayerConfigResult(config, "remote") \in LayerResults
  BY LayerTyped DEF Layers
<1>2. resolveStaleOnError(config)
        \in [maxAgeSec : 1 .. MaxCacheTtlSec \cup {Absent}, error : BOOLEAN]
  BY DEF resolveStaleOnError, isSupportedCacheTtlSec
<1>3. resolveShadow(config) \in [admits : BOOLEAN, error : BOOLEAN]
  BY DEF resolveShadow
<1>4. LoggingOf(config) \in [value : BOOLEAN, diff : DIFF_LEVELS, invalid : BOOLEAN]
  <2>1. CASE config = Absent
    BY <2>1 DEF LoggingOf, DIFF_LEVELS
  <2>2. CASE SoundConfig(config)
    BY <2>2, SoundParts, LoggingIs, Zenon
  <2> QED
    BY <2>1, <2>2
<1>5. /\ (config # Absent /\ config.requestLocal = TRUE) \in BOOLEAN
      /\ (config = Absent \/ config.coalesce # FALSE) \in BOOLEAN
  OBVIOUS
<1> QED
  BY <1>1, <1>2, <1>3, <1>4, <1>5, Zenon DEF Resolve, Policies

\* The leaves that DialCacheKeyConfig.disabled() writes.
LEMMA DisabledLeaves ==
    /\ SoundConfig(disabled) /\ disabled.shadow # Undefined
    /\ disabled.requestLocal = FALSE /\ disabled.coalesce = Undefined
    /\ disabled.staleOnErrorMaxAgeSec = 0 /\ disabled.remoteReadTimeoutMs = Undefined
    /\ \A layer \in Layers : disabled.ramp[layer] = 0
    /\ RampOf(disabled.shadow) = 0 /\ ~LeavesOf(disabled.shadow).invalid
    /\ OwnLeaf(disabled.shadow, "value") = FALSE
    /\ OwnLeaf(disabled.shadow, "diff") = "off"
<1> DEFINE zero == [layer \in Layers |-> 0]
           group == [value |-> FALSE, diff |-> "off"]
           sh == [ramp |-> 0, logMismatches |-> Undefined, mismatchLogging |-> group]
<1>1. disabled = [ttlSec |-> NoLeaves, ramp |-> zero, requestLocal |-> FALSE,
                  coalesce |-> Undefined, staleOnErrorMaxAgeSec |-> 0,
                  remoteReadTimeoutMs |-> Undefined, shadow |-> sh]
  BY Zenon DEF disabled
<1>2. group \in MismatchLoggings /\ group.value = FALSE /\ group.diff = "off"
  BY DEF MismatchLoggings, Written, DIFF_LEVELS
<1> HIDE DEF group
<1>3. /\ sh.ramp = 0 /\ sh.logMismatches = Undefined /\ sh.mismatchLogging = group
      /\ sh \in ShadowConfigs
  BY <1>2 DEF ShadowConfigs, Written
<1> HIDE DEF sh
<1>4. /\ NoLeaves \in [Layers -> Written(Int)] /\ zero \in [Layers -> Written(Int)]
      /\ \A layer \in Layers : zero[layer] = 0
  BY DEF NoLeaves, Written
<1> HIDE DEF zero
<1>5. /\ disabled \in KeyConfigs /\ disabled.ttlSec = NoLeaves /\ disabled.ramp = zero
      /\ disabled.requestLocal = FALSE /\ disabled.coalesce = Undefined
      /\ disabled.staleOnErrorMaxAgeSec = 0 /\ disabled.remoteReadTimeoutMs = Undefined
      /\ disabled.shadow = sh
  <2>1. disabled \in KeyConfigs
    BY <1>1, <1>3, <1>4 DEF KeyConfigs, LayerConfigs, Written
  <2> QED
    BY <1>1, <2>1
<1>6. SoundConfig(disabled)
  BY <1>2, <1>3, <1>4, <1>5, Marks DEF SoundConfig, assertKeyConfig, assertLayerConfig,
     assertShadowConfig
<1>7. /\ sh # Undefined /\ RampOf(sh) = 0 /\ ~LeavesOf(sh).invalid
  BY <1>3, <1>5, <1>6, LeavesAre, SoundParts, Marks, Zenon DEF RampOf
<1>8. OwnLeaf(sh, "value") = FALSE /\ OwnLeaf(sh, "diff") = "off"
  <2>1. LeafOf(sh, "value") = FALSE /\ LeafOf(sh, "diff") = "off"
    BY <1>2, <1>3, <1>7, Marks DEF LeafOf
  <2> QED
    BY <2>1, MarksApart, LeafIs, Zenon DEF OwnLeaf
<1> QED
  BY <1>4, <1>5, <1>6, <1>7, <1>8, Zenon

\* The registered default is one that registration accepts.
Registered ==
    \/ defaultConfig = Absent
    \/ SoundConfig(defaultConfig) /\ constructorAccepts(defaultConfig)

\* What the overlay merges into is a config that the constructor accepts.
LEMMA BaseIsSound ==
    ASSUME Registered
    PROVE  SoundConfig(Base(defaultConfig)) /\ constructorAccepts(Base(defaultConfig))
  BY SoundEmpty, SoundParts, Marks
  DEF Registered, Base, EmptyConfig, constructorAccepts, Optional

\* The kill switch over any registered default: the merge does not throw, and
\* every layer, stale recovery, shadow work and its logging resolve to off.
LEMMA KillSwitch ==
    ASSUME Registered
    PROVE  LET m == mergeKeyConfig(defaultConfig, disabled)
           IN  /\ ~throws(defaultConfig, disabled) /\ SoundConfig(m)
               /\ m.requestLocal = FALSE
               /\ \A layer \in Layers :
                     resolveLayerConfigResult(m, layer).status = "disabled"
               /\ resolveStaleOnError(m) = [maxAgeSec |-> Absent, error |-> FALSE]
               /\ resolveShadow(m) = [admits |-> FALSE, error |-> FALSE]
               /\ LoggingOf(m) = [value |-> FALSE, diff |-> "off", invalid |-> FALSE]
<1> DEFINE d == Base(defaultConfig)
           m == mergeKeyConfig(defaultConfig, disabled)
<1>1. SoundConfig(d) /\ constructorAccepts(d)
  BY BaseIsSound
<1>2. /\ SoundConfig(m) /\ m.shadow = mergeShadowConfig(d.shadow, disabled.shadow)
      /\ m.requestLocal = Leaf(FALSE, d.requestLocal)
      /\ m.coalesce = Leaf(Undefined, d.coalesce)
      /\ m.staleOnErrorMaxAgeSec = Leaf(0, d.staleOnErrorMaxAgeSec)
      /\ m.remoteReadTimeoutMs = Leaf(Undefined, d.remoteReadTimeoutMs)
      /\ \A layer \in Layers : m.ramp[layer] = Leaf(0, d.ramp[layer])
  <2>1. /\ SoundConfig(m) /\ m.shadow = mergeShadowConfig(d.shadow, disabled.shadow)
        /\ m.requestLocal = Leaf(disabled.requestLocal, d.requestLocal)
        /\ m.coalesce = Leaf(disabled.coalesce, d.coalesce)
        /\ m.staleOnErrorMaxAgeSec
             = Leaf(disabled.staleOnErrorMaxAgeSec, d.staleOnErrorMaxAgeSec)
        /\ m.remoteReadTimeoutMs = Leaf(disabled.remoteReadTimeoutMs, d.remoteReadTimeoutMs)
        /\ \A layer \in Layers :
              m.ramp[layer] = Leaf(disabled.ramp[layer], d.ramp[layer])
    BY <1>1, Merged, DisabledLeaves, Zenon
  <2> HIDE DEF m, d
  <2> QED
    BY <2>1, DisabledLeaves, Zenon
<1> HIDE DEF m, d
<1>3. /\ m.requestLocal = FALSE /\ m.staleOnErrorMaxAgeSec = 0
      /\ m.coalesce = d.coalesce /\ m.remoteReadTimeoutMs = d.remoteReadTimeoutMs
      /\ \A layer \in Layers : m.ramp[layer] = 0
  BY <1>2, MarksApart, LeafIs, Zenon
<1>4. ~throws(defaultConfig, disabled)
  <2>1. Optional(m.requestLocal, BOOLEAN)
    BY <1>3 DEF Optional
  <2>2. constructorAccepts(m)
    BY <1>1, <1>3, <2>1 DEF constructorAccepts
  <2> QED
    BY <2>2, DisabledLeaves DEF throws, SoundConfig, m
<1>5. ASSUME NEW layer \in Layers
      PROVE  resolveLayerConfigResult(m, layer).status = "disabled"
  <2>1. Leaf(m.ramp[layer], 100) = 0
    BY <1>3, Marks DEF Leaf
  <2>2. \A reason : Off(reason).status = "disabled"
    BY DEF Off
  <2>3. \A t : Ramped(layer, t, 0).status = "disabled"
    BY DEF Ramped
  <2> QED
    BY <2>1, <2>2, <2>3 DEF resolveLayerConfigResult
<1>6. resolveStaleOnError(m) = [maxAgeSec |-> Absent, error |-> FALSE]
  BY <1>2, <1>3, SoundParts, Zenon DEF resolveStaleOnError
<1>7. /\ m.shadow # Undefined /\ SoundShadow(m.shadow) /\ m.shadow.ramp = 0
      /\ m.shadow.logMismatches = Undefined
      /\ OwnLeaf(m.shadow, "value") = FALSE /\ OwnLeaf(m.shadow, "diff") = "off"
  <2>1. SoundShadow(d.shadow) /\ SoundShadow(disabled.shadow)
    BY <1>1, SoundParts, DisabledLeaves
  <2>2. /\ m.shadow # Undefined /\ SoundShadow(m.shadow)
        /\ m.shadow.ramp = Leaf(0, RampOf(d.shadow))
        /\ OwnLeaf(m.shadow, "value") = Leaf(FALSE, OwnLeaf(d.shadow, "value"))
        /\ OwnLeaf(m.shadow, "diff") = Leaf("off", OwnLeaf(d.shadow, "diff"))
        /\ m.shadow.logMismatches = Undefined
    <3> DEFINE dd == d.shadow
               oo == disabled.shadow
               mm == m.shadow
    <3>1. /\ SoundShadow(dd) /\ SoundShadow(oo) /\ oo # Undefined
          /\ mm = mergeShadowConfig(dd, oo)
      BY <1>2, <2>1, DisabledLeaves, Zenon
    <3>2. /\ RampOf(oo) = 0 /\ ~LeavesOf(oo).invalid
          /\ OwnLeaf(oo, "value") = FALSE /\ OwnLeaf(oo, "diff") = "off"
      BY DisabledLeaves, Zenon
    <3> HIDE DEF dd, oo, mm
    <3>3. /\ mm # Undefined /\ SoundShadow(mm)
          /\ mm.ramp = Leaf(RampOf(oo), RampOf(dd))
          /\ OwnLeaf(mm, "value") = Leaf(OwnLeaf(oo, "value"), OwnLeaf(dd, "value"))
          /\ OwnLeaf(mm, "diff") = Leaf(OwnLeaf(oo, "diff"), OwnLeaf(dd, "diff"))
          /\ mm.logMismatches = IF LeavesOf(oo).invalid THEN Malformed ELSE Undefined
      BY <3>1, MergedShadow
    <3>4. mm.logMismatches = Undefined
      BY <3>2, <3>3
    <3>5. /\ mm # Undefined /\ SoundShadow(mm)
          /\ mm.ramp = Leaf(0, RampOf(dd))
          /\ OwnLeaf(mm, "value") = Leaf(FALSE, OwnLeaf(dd, "value"))
          /\ OwnLeaf(mm, "diff") = Leaf("off", OwnLeaf(dd, "diff"))
      BY <3>2, <3>3
    <3> QED
      BY <3>4, <3>5, Zenon DEF dd, mm
  <2> QED
    BY <2>2, MarksApart, LeafIs, Zenon
<1>8. resolveShadow(m) = [admits |-> FALSE, error |-> FALSE]
  <2>1. RampOf(m.shadow) = 0
    BY <1>7 DEF RampOf
  <2> QED
    BY <1>2, <2>1, SoundParts, Zenon DEF resolveShadow
<1>9. LoggingOf(m) = [value |-> FALSE, diff |-> "off", invalid |-> FALSE]
  <2> DEFINE l == LoggingOf(m)
             v == OwnLeaf(m.shadow, "value")
             f == OwnLeaf(m.shadow, "diff")
  <2>1. /\ l.value = (v = TRUE)
        /\ l.diff = IF f \in DIFF_LEVELS THEN f ELSE "off"
        /\ l.invalid = (\/ m.shadow # Undefined /\ m.shadow.logMismatches = Malformed
                        \/ v = Malformed \/ f = Malformed)
        /\ l = [value |-> l.value, diff |-> l.diff, invalid |-> l.invalid]
    BY <1>2, <1>7, SoundParts, LoggingIs, Zenon
  <2>2. v = FALSE /\ f = "off" /\ f \in DIFF_LEVELS
    BY <1>7 DEF DIFF_LEVELS
  <2> HIDE DEF l, v, f
  <2>3. l.value = FALSE
    BY <2>1, <2>2
  <2>4. l.diff = "off"
    BY <2>1, <2>2
  <2>6. l.invalid = FALSE
    BY <1>7, <2>1, <2>2, MarksApart, Marks
  <2> QED
    BY <2>1, <2>3, <2>4, <2>6 DEF l
<1> QED
  BY <1>2, <1>3, <1>4, <1>5, <1>6, <1>8, <1>9, Zenon DEF m

-----------------------------------------------------------------------------
(* Runtime policy: the system *)

\* The shadow groups of the overlay and of the default.
OverlayShadow == IF overlay = Absent THEN Undefined ELSE overlay.shadow
DefaultShadow == IF defaultConfig = Absent THEN Undefined ELSE defaultConfig.shadow

\* The config that the running invocation resolves.
Effective == fetchKeyConfig(defaultConfig, overlay)

\* The effective logging leaves are the overlay's, else the default's.
LEMMA EffectiveLeaves ==
    ASSUME Registered, overlay = Absent \/ SoundConfig(overlay),
           NEW leaf \in {"value", "diff"}
    PROVE  /\ SoundShadow(OverlayShadow) /\ SoundShadow(DefaultShadow)
           /\ Effective = Absent \/ SoundConfig(Effective)
           /\ Effective # Absent =>
                OwnLeaf(Effective.shadow, leaf)
                  = Leaf(OwnLeaf(OverlayShadow, leaf), OwnLeaf(DefaultShadow, leaf))
           /\ Effective = Absent =>
                Leaf(OwnLeaf(OverlayShadow, leaf), OwnLeaf(DefaultShadow, leaf)) = Undefined
<1>0. SoundShadow(Undefined) /\ OwnLeaf(Undefined, leaf) = Undefined
  BY DEF SoundShadow, OwnLeaf, LeafOf, ShorthandOf, Leaf
<1>1. SoundShadow(OverlayShadow) /\ SoundShadow(DefaultShadow)
  BY <1>0, SoundParts DEF OverlayShadow, DefaultShadow, Registered
<1>2. CASE overlay = Absent
  <2>1. Effective = defaultConfig /\ OverlayShadow = Undefined
    BY <1>2 DEF Effective, fetchKeyConfig, OverlayShadow
  <2>2. defaultConfig = Absent => DefaultShadow = Undefined
    BY DEF DefaultShadow
  <2>3. defaultConfig # Absent => DefaultShadow = defaultConfig.shadow
    BY DEF DefaultShadow
  <2> QED
    BY <1>0, <1>1, <2>1, <2>2, <2>3, LeafIs, Zenon DEF Registered
<1>3. CASE overlay # Absent
  <2>1. /\ SoundConfig(Effective) /\ Effective # Absent
        /\ Effective.shadow = mergeShadowConfig(Base(defaultConfig).shadow, overlay.shadow)
    BY <1>3, BaseIsSound, Merged, SoundParts, Zenon DEF Effective, fetchKeyConfig
  <2>2. Base(defaultConfig).shadow = DefaultShadow /\ overlay.shadow = OverlayShadow
    BY <1>3 DEF Base, DefaultShadow, OverlayShadow, EmptyConfig
  <2>3. CASE DefaultShadow = Undefined /\ OverlayShadow = Undefined
    <3>1. Effective.shadow = Undefined
      BY <2>1, <2>2, <2>3 DEF mergeShadowConfig
    <3> QED
      BY <1>0, <1>1, <2>1, <2>3, <3>1, LeafIs, Zenon
  <2>4. CASE ~(DefaultShadow = Undefined /\ OverlayShadow = Undefined)
    <3> DEFINE mm == Effective.shadow
    <3>0. mm = mergeShadowConfig(DefaultShadow, OverlayShadow)
      BY <2>1, <2>2, Zenon
    <3> HIDE DEF mm
    <3>1. OwnLeaf(mm, leaf)
            = Leaf(OwnLeaf(OverlayShadow, leaf), OwnLeaf(DefaultShadow, leaf))
      BY <1>1, <2>4, <3>0, MergedShadow
    <3> USE DEF mm
    <3> QED
      BY <1>1, <2>1, <3>1, Zenon
  <2> QED
    BY <2>3, <2>4
<1> QED
  BY <1>2, <1>3

\* What an invocation resolves, and what it was resolved from.
PolicyInv ==
    /\ Registered
    /\ overlay \in Overlays \cup {Absent, disabled}
    /\ \/ policy = Absent /\ overlay = Absent
       \/ throws(defaultConfig, overlay) /\ policy = ConfigError
       \/ ~throws(defaultConfig, overlay) /\ policy = Resolve(Effective)

\* An overlay that does not throw is an object all through.
LEMMA OverlaySound ==
    ASSUME overlay \in Overlays \cup {Absent, disabled}, ~throws(defaultConfig, overlay)
    PROVE  overlay = Absent \/ SoundConfig(overlay)
  BY ConfigAssumption, DisabledLeaves, Zenon DEF throws, SoundConfig, assertKeyConfig

\* Nothing is registered or resolved at first.
LEMMA PolicyInit == ConfigInit => PolicyInv
  BY DEF ConfigInit, PolicyInv, Registered

\* Registration, an invocation and its end keep the policy resolved from the
\* default and the overlay that it shows.
LEMMA PolicyStep == PolicyInv /\ [ConfigNext]_configVars => PolicyInv'
<1> SUFFICES ASSUME PolicyInv, [ConfigNext]_configVars PROVE PolicyInv'
  OBVIOUS
<1>1. CASE Register
  <2>1. overlay = Absent
    <3>1. policy = Absent
      BY <1>1 DEF Register
    <3>2. policy # ConfigError
      BY <3>1, ConfigAssumption
    <3>3. ASSUME ~throws(defaultConfig, overlay), policy = Resolve(Effective)
          PROVE  FALSE
      <4>1. Effective = Absent \/ SoundConfig(Effective)
        BY <3>3, OverlaySound, EffectiveLeaves DEF PolicyInv
      <4> QED
        BY <3>1, <3>3, <4>1, PolicyTyped, ConfigAssumption
    <3> QED
      BY <3>2, <3>3 DEF PolicyInv
  <2>2. Registered'
    BY <1>1, ConfigAssumption
    DEF Register, Registered, SoundConfig, snapshotDefaultConfig, assertKeyConfig
  <2> QED
    BY <1>1, <2>1, <2>2 DEF Register, PolicyInv
<1>2. CASE Invoke
  BY <1>2 DEF Invoke, PolicyInv, Registered, Effective
<1>3. CASE Settle
  BY <1>3 DEF Settle, PolicyInv, Registered
<1>4. CASE UNCHANGED configVars
  BY <1>4 DEF configVars, PolicyInv, Registered, Effective
<1> QED
  BY <1>1, <1>2, <1>3, <1>4 DEF ConfigNext

\* The first half of OverlayPrevails: an invocation under the kill switch.
LEMMA Killed ==
    ASSUME PolicyInv, overlay = disabled
    PROVE  /\ policy # ConfigError
           /\ ~policy.requestLocal
           /\ policy.local.status = "disabled" /\ policy.remote.status = "disabled"
           /\ policy.stale = [maxAgeSec |-> Absent, error |-> FALSE]
           /\ policy.shadow = [admits |-> FALSE, error |-> FALSE]
           /\ policy.logging = [value |-> FALSE, diff |-> "off", invalid |-> FALSE]
<1> DEFINE m == mergeKeyConfig(defaultConfig, disabled)
<1>1. disabled # Absent
  BY DisabledLeaves, SoundParts, Zenon
<1>2. Effective = m
  BY <1>1 DEF Effective, fetchKeyConfig
<1>3. /\ ~throws(defaultConfig, disabled) /\ SoundConfig(m)
      /\ m.requestLocal = FALSE
      /\ \A layer \in Layers : resolveLayerConfigResult(m, layer).status = "disabled"
      /\ resolveStaleOnError(m) = [maxAgeSec |-> Absent, error |-> FALSE]
      /\ resolveShadow(m) = [admits |-> FALSE, error |-> FALSE]
      /\ LoggingOf(m) = [value |-> FALSE, diff |-> "off", invalid |-> FALSE]
  BY KillSwitch, Zenon DEF PolicyInv
<1> HIDE DEF m
<1>4. policy = Resolve(m)
  BY <1>1, <1>2, <1>3, Zenon DEF PolicyInv
<1>5. policy # ConfigError
  <2>1. Resolve(m) \in Policies
    BY <1>3, PolicyTyped, Zenon
  <2>2. ConfigError \notin Policies
    BY ConfigAssumption, Zenon
  <2> QED
    BY <1>4, <2>1, <2>2, Zenon
<1>6. /\ policy.requestLocal = (m # Absent /\ m.requestLocal = TRUE)
      /\ policy.local = resolveLayerConfigResult(m, "local")
      /\ policy.remote = resolveLayerConfigResult(m, "remote")
      /\ policy.stale = resolveStaleOnError(m)
      /\ policy.shadow = resolveShadow(m)
      /\ policy.logging = LoggingOf(m)
  BY <1>4 DEF Resolve
<1>7. "local" \in Layers /\ "remote" \in Layers
  BY DEF Layers
<1>8. ~policy.requestLocal
  BY <1>3, <1>6, Zenon
<1> QED
  BY <1>3, <1>5, <1>6, <1>7, <1>8, Zenon

\* The leaf that prevails, from the four places where it may be written.
LEMMA FirstOfPrecedence ==
    ASSUME NEW leaf
    PROVE  FirstWritten(Precedence(leaf))
             = Leaf(OwnLeaf(OverlayShadow, leaf), OwnLeaf(DefaultShadow, leaf))
  BY DEF FirstWritten, Precedence, OwnLeaf, OverlayShadow, DefaultShadow

\* The winner among the four places is the first written one.
LEMMA Preceding ==
    ASSUME NEW leaf, NEW valid, Undefined \notin valid
    PROVE  LET w == Precedence(leaf)
           IN  /\ (\E i \in 1 .. 4 : Wins(w, i) /\ w[i] \in valid)
                    <=> FirstWritten(w) \in valid
               /\ FirstWritten(w) \in valid
                    => w[CHOOSE i \in 1 .. 4 : Wins(w, i)] = FirstWritten(w)
<1> DEFINE a == LeafOf(OverlayShadow, leaf)
           b == ShorthandOf(OverlayShadow, leaf)
           c == LeafOf(DefaultShadow, leaf)
           e == ShorthandOf(DefaultShadow, leaf)
<1>1. Precedence(leaf) = <<a, b, c, e>>
  BY DEF Precedence, OverlayShadow, DefaultShadow
<1> HIDE DEF a, b, c, e
<1>2. LET w == <<a, b, c, e>>
      IN  /\ (\E i \in 1 .. 4 : Wins(w, i) /\ w[i] \in valid)
               <=> FirstWritten(w) \in valid
          /\ FirstWritten(w) \in valid
               => w[CHOOSE i \in 1 .. 4 : Wins(w, i)] = FirstWritten(w)
  BY FirstWins
<1> QED
  BY <1>1, <1>2

\* The second half of OverlayPrevails: the resolved logging leaves.
LEMMA ResolvedLeaves ==
    ASSUME PolicyInv, policy \notin {Absent, ConfigError}
    PROVE  LET v == FirstWritten(Precedence("value"))
               f == FirstWritten(Precedence("diff"))
           IN  /\ policy.logging.value = (v = TRUE)
               /\ policy.logging.diff = IF f \in DIFF_LEVELS THEN f ELSE "off"
<1> DEFINE v == FirstWritten(Precedence("value"))
           f == FirstWritten(Precedence("diff"))
           l == LoggingOf(Effective)
<1>1. /\ ~throws(defaultConfig, overlay) \/ overlay = Absent
      /\ policy = Resolve(Effective)
  BY DEF PolicyInv
<1>2. policy.logging = l
  BY <1>1 DEF Resolve
<1>3. overlay = Absent \/ SoundConfig(overlay)
  BY <1>1, OverlaySound DEF PolicyInv
<1>4. CASE Effective = Absent
  <2>1. v = Undefined /\ f = Undefined
    BY <1>3, <1>4, EffectiveLeaves, FirstOfPrecedence DEF PolicyInv
  <2>2. l.value = FALSE /\ l.diff = "off"
    BY <1>4 DEF LoggingOf
  <2>3. (v = TRUE) = FALSE /\ f \notin DIFF_LEVELS
    BY <2>1, Marks
  <2> HIDE DEF v, f, l
  <2>4. policy.logging.value = (v = TRUE)
    BY <1>2, <2>2, <2>3, Zenon
  <2>5. policy.logging.diff = IF f \in DIFF_LEVELS THEN f ELSE "off"
    BY <1>2, <2>2, <2>3
  <2> QED
    BY <2>4, <2>5, Zenon DEF v, f
<1>5. CASE Effective # Absent
  <2>1. /\ SoundConfig(Effective)
        /\ OwnLeaf(Effective.shadow, "value") = v /\ OwnLeaf(Effective.shadow, "diff") = f
    BY <1>3, <1>5, EffectiveLeaves, FirstOfPrecedence DEF PolicyInv
  <2>2. SoundShadow(Effective.shadow)
    BY <2>1, SoundParts, Zenon
  <2> HIDE DEF v, f
  <2>3. l.value = (v = TRUE) /\ l.diff = IF f \in DIFF_LEVELS THEN f ELSE "off"
    BY <1>5, <2>1, <2>2, LoggingIs
  <2> QED
    BY <1>2, <2>3, Zenon DEF v, f
<1> QED
  BY <1>4, <1>5

\* The overlay prevails, for every default that registration accepts, every overlay

\* and every rollout sample: DialCacheKeyConfig.disabled() turns everything off
\* without a configuration error, and a logging leaf is the first written of the
\* overlay's leaf, its shorthand, the default's leaf and its shorthand
\* (fetchKeyConfig, mergeShadowConfig, resolveMismatchLogging).
THEOREM PolicyFollowsOverlay ==
    ConfigSpec => []OverlayPrevails
<1>1. PolicyInv => OverlayPrevails
  <2> SUFFICES ASSUME PolicyInv PROVE OverlayPrevails
    OBVIOUS
  <2>1. ASSUME policy \notin {Absent, ConfigError}
        PROVE  LET w == Precedence("value")
               IN  policy.logging["value"] =
                      IF \E i \in 1 .. 4 : Wins(w, i) /\ w[i] \in BOOLEAN
                      THEN w[CHOOSE i \in 1 .. 4 : Wins(w, i)]
                      ELSE FALSE
    <3> DEFINE w == Precedence("value")
               v == FirstWritten(w)
               c == w[CHOOSE i \in 1 .. 4 : Wins(w, i)]
               x == \E i \in 1 .. 4 : Wins(w, i) /\ w[i] \in BOOLEAN
    <3>1. policy.logging.value = (v = TRUE)
      BY <2>1, ResolvedLeaves, Zenon
    <3>2. (x <=> v \in BOOLEAN) /\ (v \in BOOLEAN => c = v)
      BY Preceding, Marks, Zenon
    <3> HIDE DEF x, c, v
    <3>3. policy.logging.value = IF x THEN c ELSE FALSE
      <4>1. CASE v = TRUE
        BY <3>1, <3>2, <4>1, Zenon
      <4>2. CASE v = FALSE
        BY <3>1, <3>2, <4>2, Zenon
      <4>3. CASE v \notin BOOLEAN
        <5>1. (v = TRUE) = FALSE
          BY <4>3, Zenon
        <5> QED
          BY <3>1, <3>2, <4>3, <5>1, Zenon
      <4> QED
        BY <4>1, <4>2, <4>3, Zenon
    <3> QED
      BY <3>3, Zenon DEF x, c
  <2>2. ASSUME policy \notin {Absent, ConfigError}
        PROVE  LET w == Precedence("diff")
               IN  policy.logging["diff"] =
                      IF \E i \in 1 .. 4 : Wins(w, i) /\ w[i] \in DIFF_LEVELS
                      THEN w[CHOOSE i \in 1 .. 4 : Wins(w, i)]
                      ELSE "off"
    <3> DEFINE w == Precedence("diff")
               f == FirstWritten(w)
               c == w[CHOOSE i \in 1 .. 4 : Wins(w, i)]
               x == \E i \in 1 .. 4 : Wins(w, i) /\ w[i] \in DIFF_LEVELS
    <3>1. policy.logging.diff = IF f \in DIFF_LEVELS THEN f ELSE "off"
      BY <2>2, ResolvedLeaves, Zenon
    <3>2. (x <=> f \in DIFF_LEVELS) /\ (f \in DIFF_LEVELS => c = f)
      BY Preceding, Marks, Zenon
    <3> HIDE DEF x, c, f
    <3>3. policy.logging.diff = IF x THEN c ELSE "off"
      BY <3>1, <3>2
    <3> QED
      BY <3>3, Zenon DEF x, c
  <2>3. policy \notin {Absent, ConfigError} =>
          \A leaf \in {"value", "diff"} :
             LET w == Precedence(leaf)
                 off == IF leaf = "value" THEN FALSE ELSE "off"
                 valid == IF leaf = "value" THEN BOOLEAN ELSE DIFF_LEVELS
             IN  policy.logging[leaf] =
                    IF \E i \in 1 .. 4 : Wins(w, i) /\ w[i] \in valid
                    THEN w[CHOOSE i \in 1 .. 4 : Wins(w, i)]
                    ELSE off
    <3> SUFFICES ASSUME policy \notin {Absent, ConfigError}, NEW leaf \in {"value", "diff"}
                 PROVE  LET w == Precedence(leaf)
                            off == IF leaf = "value" THEN FALSE ELSE "off"
                            valid == IF leaf = "value" THEN BOOLEAN ELSE DIFF_LEVELS
                        IN  policy.logging[leaf] =
                               IF \E i \in 1 .. 4 : Wins(w, i) /\ w[i] \in valid
                               THEN w[CHOOSE i \in 1 .. 4 : Wins(w, i)]
                               ELSE off
      BY Zenon
    <3>1. CASE leaf = "value"
      BY <2>1, <3>1
    <3>2. CASE leaf = "diff"
      BY <2>2, <3>2
    <3> QED
      BY <3>1, <3>2
  <2> QED
    BY <2>3, Killed, Zenon DEF OverlayPrevails, Wins
<1> QED
  BY <1>1, PolicyInit, PolicyStep, PTL DEF ConfigSpec
=============================================================================
