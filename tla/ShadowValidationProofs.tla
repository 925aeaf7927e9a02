------------------------ MODULE ShadowValidationProofs -----------------------
(* The inductive invariant of ShadowValidation, the shapes its steps have,  *)
(* and the admissions, drops and returns that keep it, for any finite sets  *)
(* of jobs and keys and any capacity.                                       *)
EXTENDS ShadowValidation, FiniteSetTheorems, TLAPS

\* The slots in use are within the capacity.
SlotsBounded == IsFiniteSet(InFlight) /\ Cardinality(InFlight) <= shadowMaxInFlight

\* The inductive invariant.
IInv ==
    /\ TypeOK
    /\ SlotsAreExact
    /\ SlotsBounded
    /\ AbandonedRetainsNothing
    /\ JobInv

-----------------------------------------------------------------------------
(* Typing *)

\* The initial state has its types.
LEMMA InitTypeOK == Init => TypeOK
BY ShadowValidationAssumption DEF Init, TypeOK, Running

\* A job's return keeps the types of what it changes.
LEMMA EndType ==
    ASSUME TypeOK, NEW j \in Jobs, NEW o \in Verdicts, NEW reads, End(j, o, reads)
    PROVE  /\ source' \in Nat
           /\ shadowFlights' \in [Keys -> Jobs \cup {None}]
           /\ pc' \in [Jobs -> Running \cup {"idle", "done"}]
           /\ kind' \in [Jobs -> {"redis", "retained", None}]
           /\ cachedFrame' \in [Jobs -> Nat \cup {None}]
           /\ sourceValue' \in [Jobs -> Nat \cup {None}]
           /\ filling' \in [Jobs -> BOOLEAN]
           /\ expired' \in [Jobs -> BOOLEAN]
           /\ abandoned' \in [Jobs -> BOOLEAN]
           /\ outcome' \in [Jobs -> Verdicts \cup {"none"}]
<1> USE DEF TypeOK, End
<1>1. shadowFlights' \in [Keys -> Jobs \cup {None}]
  BY Zenon DEF Release
<1>2. abandoned' \in [Jobs -> BOOLEAN]
  BY Zenon
<1>3. outcome' \in [Jobs -> Verdicts \cup {"none"}]
  BY DEF Verdicts
<1> QED
  BY <1>1, <1>2, <1>3

\* The history variable is a Boolean per job.
LEMMA ObserveType == Observe => held' \in [Jobs -> BOOLEAN]
BY DEF Observe

-----------------------------------------------------------------------------
(* Shapes of steps *)

\* A step that leaves everything of job i alone, other than what the history
\* variable may add, keeps what holds of i.
LEMMA Bystander ==
    ASSUME IInv, Observe, NEW i \in Jobs,
           pc'[i] = pc[i], cachedFrame'[i] = cachedFrame[i],
           sourceValue'[i] = sourceValue[i], expired'[i] = expired[i],
           abandoned'[i] = abandoned[i], clientReads'[i] = clientReads[i],
           reply'[i] = reply[i], outcome'[i] = outcome[i]
    PROVE  /\ JobOK(i)'
           /\ (abandoned[i] \/ pc[i] = "done" => cachedFrame[i] = None)'
           /\ Unsettled(i)' <=> Unsettled(i)
<1>1. JobOK(i) /\ (abandoned[i] \/ pc[i] = "done" => cachedFrame[i] = None)
  BY DEF IInv, JobInv, AbandonedRetainsNothing
<1>2. pc[i] = "confirm" /\ cachedFrame[i] # None /\ held[i] => held'[i]
  BY <1>1 DEF JobOK, Observe
<1> QED
  BY <1>1, <1>2 DEF JobOK, Unsettled

\* If no slot is taken, the slots stay within the capacity.
LEMMA FewerSlots ==
    ASSUME SlotsBounded, InFlight' \subseteq InFlight
    PROVE  SlotsBounded'
<1>1. IsFiniteSet(InFlight') /\ Cardinality(InFlight') <= Cardinality(InFlight)
  BY FS_Subset DEF SlotsBounded
<1>2. Cardinality(InFlight) \in Nat /\ Cardinality(InFlight') \in Nat
  BY <1>1, FS_CardinalityType DEF SlotsBounded
<1> QED
  BY <1>1, <1>2, ShadowValidationAssumption DEF SlotsBounded

\* A job that was running returns: it keeps its slot exactly while its reads are
\* open, and everything else holds.
LEMMA Returns ==
    ASSUME IInv, Observe, NEW j \in Jobs, NEW o \in Verdicts,
           NEW reads \in SUBSET {"first", "confirm"},
           pc[j] \in Running, End(j, o, reads),
           clientReads' = [clientReads EXCEPT ![j] = reads],
           stored' \in [Keys -> Nat \cup {None}],
           reply' \in [Jobs -> SUBSET (Nat \cup {None})],
           \A i \in Jobs \ {j} : reply'[i] = reply[i]
    PROVE  IInv'
<1> USE ShadowValidationAssumption
<1>1. TypeOK /\ SlotsAreExact /\ SlotsBounded
  BY DEF IInv
<1>2. TypeOK'
  <2>1. clientReads' \in [Jobs -> SUBSET {"first", "confirm"}]
    BY <1>1 DEF TypeOK
  <2> QED
    BY <1>1, <2>1, EndType, ObserveType DEF TypeOK
<1>3. pc'[j] = "done" /\ cachedFrame'[j] = None /\ clientReads'[j] = reads
  BY <1>1 DEF TypeOK, End
<1>4. shadowFlights[keyOf[j]] = j
  BY <1>1 DEF SlotsAreExact, Unsettled
<1>5. \A k \in Keys : shadowFlights'[k] =
          IF k = keyOf[j] /\ reads = {} THEN None ELSE shadowFlights[k]
  BY <1>1, <1>4 DEF TypeOK, End, Release
<1>6. ASSUME NEW i \in Jobs \ {j}
      PROVE  /\ JobOK(i)'
             /\ (abandoned[i] \/ pc[i] = "done" => cachedFrame[i] = None)'
             /\ Unsettled(i)' <=> Unsettled(i)
  BY <1>1, <1>6, Bystander DEF TypeOK, End
<1>7. Unsettled(j)' <=> reads # {}
  BY <1>3 DEF Unsettled, Running
<1>8. SlotsAreExact'
  <2>1. ASSUME NEW i \in Jobs \ {j}
        PROVE  Unsettled(i)' <=> shadowFlights'[keyOf[i]] = i
    <3>1. Unsettled(i) <=> shadowFlights[keyOf[i]] = i
      BY <1>1, <2>1 DEF SlotsAreExact
    <3> QED
      BY <1>4, <1>5, <1>6, <2>1, <3>1
  <2>2. Unsettled(j)' <=> shadowFlights'[keyOf[j]] = j
    BY <1>4, <1>5, <1>7
  <2>3. \A k \in Keys : shadowFlights'[k] # None => keyOf[shadowFlights'[k]] = k
    BY <1>1, <1>5 DEF SlotsAreExact
  <2> QED
    BY <2>1, <2>2, <2>3 DEF SlotsAreExact
<1>9. SlotsBounded'
  BY <1>1, <1>5, FewerSlots DEF InFlight
<1>10. AbandonedRetainsNothing'
  BY <1>3, <1>6 DEF AbandonedRetainsNothing
<1>11. JobOK(j)'
  <2>1. abandoned'[j] => expired'[j]
    BY <1>1 DEF IInv, JobInv, JobOK, End, TypeOK
  <2> QED
    BY <1>3, <2>1 DEF JobOK, Running
<1>12. JobInv'
  BY <1>6, <1>11 DEF JobInv
<1> QED
  BY <1>2, <1>8, <1>9, <1>10, <1>12 DEF IInv

\* Job i is not touched by the step.
Untouched(i) ==
    /\ pc'[i] = pc[i] /\ cachedFrame'[i] = cachedFrame[i]
    /\ sourceValue'[i] = sourceValue[i] /\ expired'[i] = expired[i]
    /\ abandoned'[i] = abandoned[i] /\ clientReads'[i] = clientReads[i]
    /\ reply'[i] = reply[i] /\ outcome'[i] = outcome[i]

\* A step of a running job that does not return keeps the invariant if it keeps
\* the types and what holds of the job itself.
LEMMA GoesOn ==
    ASSUME IInv, TypeOK', Observe, NEW j \in Jobs,
           pc[j] \in Running, pc'[j] \in Running,
           shadowFlights' = shadowFlights,
           \A i \in Jobs \ {j} : Untouched(i),
           JobOK(j)', abandoned'[j] => cachedFrame'[j] = None
    PROVE  IInv'
<1>1. TypeOK /\ SlotsAreExact /\ SlotsBounded
  BY DEF IInv
<1>2. ASSUME NEW i \in Jobs \ {j}
      PROVE  /\ JobOK(i)'
             /\ (abandoned[i] \/ pc[i] = "done" => cachedFrame[i] = None)'
             /\ Unsettled(i)' <=> Unsettled(i)
  BY <1>2, Bystander DEF Untouched
<1>3. Unsettled(j)' /\ Unsettled(j)
  BY DEF Unsettled
<1>4. SlotsAreExact'
  <2>1. ASSUME NEW i \in Jobs
        PROVE  Unsettled(i)' <=> shadowFlights'[keyOf[i]] = i
    <3>1. Unsettled(i) <=> shadowFlights[keyOf[i]] = i
      BY <1>1, <2>1 DEF SlotsAreExact
    <3>2. Unsettled(i)' <=> Unsettled(i)
      BY <1>2, <1>3
    <3> QED
      BY <3>1, <3>2
  <2> QED
    BY <1>1, <2>1 DEF SlotsAreExact
<1>5. SlotsBounded'
  BY <1>1, FewerSlots DEF InFlight
<1>6. AbandonedRetainsNothing'
  <2>1. pc'[j] # "done"
    BY DEF Running
  <2> QED
    BY <1>2, <2>1 DEF AbandonedRetainsNothing
<1>7. JobInv'
  BY <1>2 DEF JobInv
<1> QED
  BY <1>4, <1>5, <1>6, <1>7 DEF IInv

\* A step that touches no job keeps the invariant.
LEMMA Elsewhere ==
    ASSUME IInv, TypeOK', Observe, shadowFlights' = shadowFlights,
           \A i \in Jobs : Untouched(i)
    PROVE  IInv'
<1>1. TypeOK /\ SlotsAreExact /\ SlotsBounded
  BY DEF IInv
<1>2. ASSUME NEW i \in Jobs
      PROVE  /\ JobOK(i)'
             /\ (abandoned[i] \/ pc[i] = "done" => cachedFrame[i] = None)'
             /\ Unsettled(i)' <=> Unsettled(i)
  BY <1>2, Bystander DEF Untouched
<1>3. SlotsAreExact'
  <2>1. ASSUME NEW i \in Jobs
        PROVE  Unsettled(i)' <=> shadowFlights'[keyOf[i]] = i
    BY <1>1, <1>2, <2>1 DEF SlotsAreExact
  <2> QED
    BY <1>1, <2>1 DEF SlotsAreExact
<1>4. SlotsBounded'
  BY <1>1, FewerSlots DEF InFlight
<1>5. AbandonedRetainsNothing' /\ JobInv'
  BY <1>2 DEF AbandonedRetainsNothing, JobInv
<1> QED
  BY <1>3, <1>4, <1>5 DEF IInv

-----------------------------------------------------------------------------
(* The actions *)

\* The initial state satisfies the invariant.
LEMMA InitIInv == Init => IInv
<1> SUFFICES ASSUME Init PROVE IInv
  OBVIOUS
<1>1. SlotsAreExact
  BY ShadowValidationAssumption DEF Init, SlotsAreExact, Unsettled, Running
<1>2. InFlight = {}
  BY DEF Init, InFlight
<1>3. SlotsBounded
  BY <1>2, FS_EmptySet, ShadowValidationAssumption DEF SlotsBounded
<1>4. AbandonedRetainsNothing /\ JobInv
  BY DEF Init, AbandonedRetainsNothing, JobInv, JobOK, Running
<1> QED
  BY <1>1, <1>3, <1>4, InitTypeOK DEF IInv

\* What happens around the jobs keeps the invariant.
LEMMA Surroundings ==
    ASSUME IInv, Observe, Mutate \/ \E k \in Keys : StoredChanges(k)
    PROVE  IInv'
<1>1. TypeOK
  BY DEF IInv
<1>2. source' \in Nat /\ stored' \in [Keys -> Nat \cup {None}]
  <2>1. CASE Mutate
    BY <1>1, <2>1 DEF TypeOK, Mutate
  <2>2. CASE \E k \in Keys : StoredChanges(k)
    <3>1. \A v \in 0..source : v \in Nat
      BY <1>1 DEF TypeOK
    <3> QED
      BY <1>1, <2>2, <3>1 DEF TypeOK, StoredChanges
  <2> QED
    BY <2>1, <2>2
<1>3. UNCHANGED <<shadowFlights, jobVars, expired, abandoned, readVars, outcome>>
  BY DEF Mutate, StoredChanges
<1>4. TypeOK'
  BY <1>1, <1>2, <1>3, ObserveType DEF TypeOK, jobVars, readVars
<1>5. \A i \in Jobs : Untouched(i)
  BY <1>3 DEF Untouched, jobVars, readVars
<1> QED
  BY <1>3, <1>4, <1>5, Elsewhere

\* A candidate is dropped, and holds no slot.
LEMMA Drops ==
    ASSUME IInv, Observe, NEW j \in Jobs, Drop(j)
    PROVE  IInv'
<1>1. TypeOK /\ SlotsAreExact /\ SlotsBounded /\ JobOK(j)
  BY DEF IInv, JobInv
<1>2. TypeOK'
  BY <1>1, ObserveType DEF TypeOK, Drop, Verdicts, worldVars, readVars
<1>3. pc[j] = "idle" /\ pc'[j] = "done" /\ shadowFlights' = shadowFlights
  BY <1>1 DEF TypeOK, Drop
<1>4. \A i \in Jobs \ {j} : Untouched(i)
  BY <1>1 DEF TypeOK, Drop, readVars, Untouched
<1>5. ASSUME NEW i \in Jobs \ {j}
      PROVE  /\ JobOK(i)'
             /\ (abandoned[i] \/ pc[i] = "done" => cachedFrame[i] = None)'
             /\ Unsettled(i)' <=> Unsettled(i)
  BY <1>4, <1>5, Bystander DEF Untouched
<1>6. /\ JobOK(j)' /\ cachedFrame'[j] = None
      /\ Unsettled(j)' <=> Unsettled(j)
  BY <1>1, <1>3 DEF JobOK, Drop, readVars, Running, Unsettled
<1>7. SlotsAreExact'
  <2>1. ASSUME NEW i \in Jobs
        PROVE  Unsettled(i)' <=> shadowFlights'[keyOf[i]] = i
    <3>1. Unsettled(i)' <=> Unsettled(i)
      BY <1>5, <1>6
    <3> QED
      BY <1>1, <1>3, <3>1 DEF SlotsAreExact
  <2> QED
    BY <1>1, <1>3, <2>1 DEF SlotsAreExact
<1>8. SlotsBounded'
  BY <1>1, <1>3, FewerSlots DEF InFlight
<1>9. AbandonedRetainsNothing' /\ JobInv'
  BY <1>5, <1>6 DEF AbandonedRetainsNothing, JobInv
<1> QED
  BY <1>2, <1>7, <1>8, <1>9 DEF IInv

\* A candidate is admitted: it takes a free slot of its key, within the capacity.
LEMMA Admits ==
    ASSUME IInv, Observe, NEW j \in Jobs, NEW start \in {"redis", "retained"},
           NEW frame \in Nat \cup {None}, Admit(j, start, frame)
    PROVE  IInv'
<1> USE ShadowValidationAssumption
<1>1. TypeOK /\ SlotsAreExact /\ SlotsBounded /\ JobOK(j)
  BY DEF IInv, JobInv
<1>2. TypeOK'
  BY <1>1, ObserveType DEF TypeOK, Admit, Running, worldVars, readVars
<1>3. pc[j] = "idle" /\ pc'[j] = "deferred" /\ shadowFlights[keyOf[j]] = None
  BY <1>1 DEF TypeOK, Admit, NoSlot
<1>4. \A k \in Keys : shadowFlights'[k] = IF k = keyOf[j] THEN j ELSE shadowFlights[k]
  BY <1>1 DEF TypeOK, Admit
<1>5. \A i \in Jobs \ {j} : Untouched(i)
  BY <1>1 DEF TypeOK, Admit, readVars, Untouched
<1>6. ASSUME NEW i \in Jobs \ {j}
      PROVE  /\ JobOK(i)'
             /\ (abandoned[i] \/ pc[i] = "done" => cachedFrame[i] = None)'
             /\ Unsettled(i)' <=> Unsettled(i)
  BY <1>5, <1>6, Bystander DEF Untouched
<1>7. JobOK(j)' /\ ~abandoned'[j] /\ Unsettled(j)'
  BY <1>1, <1>3, Zenon DEF JobOK, Admit, readVars, Running, Unsettled
<1>8. SlotsAreExact'
  <2>1. ASSUME NEW i \in Jobs \ {j}
        PROVE  Unsettled(i)' <=> shadowFlights'[keyOf[i]] = i
    <3>1. Unsettled(i) <=> shadowFlights[keyOf[i]] = i
      BY <1>1, <2>1 DEF SlotsAreExact
    <3> QED
      BY <1>3, <1>4, <1>6, <2>1, <3>1
  <2>2. shadowFlights'[keyOf[j]] = j
    BY <1>4
  <2>3. \A k \in Keys : shadowFlights'[k] # None => keyOf[shadowFlights'[k]] = k
    BY <1>1, <1>4 DEF SlotsAreExact
  <2> QED
    BY <1>7, <2>1, <2>2, <2>3 DEF SlotsAreExact
<1>9. SlotsBounded'
  <2>1. InFlight' = InFlight \cup {keyOf[j]} /\ keyOf[j] \notin InFlight
    BY <1>3, <1>4 DEF InFlight
  <2>2. IsFiniteSet(InFlight') /\ Cardinality(InFlight') = Cardinality(InFlight) + 1
    BY <1>1, <2>1, FS_AddElement DEF SlotsBounded
  <2>3. ~(Cardinality(InFlight) >= shadowMaxInFlight)
    BY DEF Admit, NoSlot
  <2>4. Cardinality(InFlight) \in Nat
    BY <1>1, FS_CardinalityType DEF SlotsBounded
  <2> QED
    BY <2>2, <2>3, <2>4 DEF SlotsBounded
<1>10. AbandonedRetainsNothing'
  BY <1>3, <1>6, <1>7 DEF AbandonedRetainsNothing
<1>11. JobInv'
  BY <1>6, <1>7 DEF JobInv
<1> QED
  BY <1>2, <1>8, <1>9, <1>10, <1>11 DEF IInv

\* A running job returns while its reads stay as they are.
LEMMA ReturnsOpen ==
    ASSUME IInv, Observe, NEW j \in Jobs, NEW o \in Verdicts, pc[j] \in Running,
           End(j, o, clientReads[j]), UNCHANGED readVars,
           stored' \in [Keys -> Nat \cup {None}]
    PROVE  IInv'
<1>1. TypeOK
  BY DEF IInv
<1>2. /\ clientReads[j] \in SUBSET {"first", "confirm"}
      /\ clientReads' = [clientReads EXCEPT ![j] = clientReads[j]]
      /\ reply' \in [Jobs -> SUBSET (Nat \cup {None})]
      /\ \A i \in Jobs \ {j} : reply'[i] = reply[i]
  BY <1>1 DEF TypeOK, readVars
<1> QED
  BY <1>2, Returns, Zenon

\* A running job returns when its read settles.
LEMMA ReturnsSettled ==
    ASSUME IInv, Observe, NEW j \in Jobs, NEW o \in Verdicts, pc[j] \in Running,
           Finish(j, o, {}), Settle(j)
    PROVE  IInv'
<1>1. TypeOK
  BY DEF IInv
<1>2. /\ clientReads' = [clientReads EXCEPT ![j] = {}]
      /\ reply' \in [Jobs -> SUBSET (Nat \cup {None})]
      /\ \A i \in Jobs \ {j} : reply'[i] = reply[i]
      /\ stored' \in [Keys -> Nat \cup {None}]
      /\ End(j, o, {})
  BY <1>1 DEF TypeOK, Settle, Finish
<1> QED
  BY <1>2, Returns, Zenon

\* The client operation of a finished job's read settles: the job gives up its
\* own slot, never a successor's.
LEMMA Settles ==
    ASSUME IInv, Observe, NEW j \in Jobs, ClientSettles(j)
    PROVE  IInv'
<1> USE ShadowValidationAssumption
<1>1. TypeOK /\ SlotsAreExact /\ SlotsBounded /\ JobOK(j)
  BY DEF IInv, JobInv
<1>2. pc[j] = "done" /\ clientReads[j] # {} /\ clientReads'[j] = {} /\ pc'[j] = "done"
  BY <1>1 DEF TypeOK, ClientSettles, Settle, jobVars
<1>3. Unsettled(j) /\ ~Unsettled(j)'
  BY <1>2 DEF Unsettled, Running
<1>4. shadowFlights[keyOf[j]] = j
  BY <1>1, <1>3 DEF SlotsAreExact
<1>5. shadowFlights' = [shadowFlights EXCEPT ![keyOf[j]] = None]
  BY <1>4 DEF ClientSettles, Release
<1>6. \A k \in Keys : shadowFlights'[k] = IF k = keyOf[j] THEN None ELSE shadowFlights[k]
  BY <1>1, <1>5 DEF TypeOK
<1>7. TypeOK'
  <2>1. shadowFlights' \in [Keys -> Jobs \cup {None}]
    BY <1>1, <1>5 DEF TypeOK
  <2> QED
    BY <1>1, <2>1, ObserveType DEF TypeOK, ClientSettles, Settle, jobVars, worldVars
<1>8. \A i \in Jobs \ {j} : Untouched(i)
  BY <1>1 DEF TypeOK, ClientSettles, Settle, jobVars, Untouched
<1>9. ASSUME NEW i \in Jobs \ {j}
      PROVE  /\ JobOK(i)'
             /\ (abandoned[i] \/ pc[i] = "done" => cachedFrame[i] = None)'
             /\ Unsettled(i)' <=> Unsettled(i)
  BY <1>8, <1>9, Bystander DEF Untouched
<1>10. JobOK(j)' /\ cachedFrame'[j] = None
  <2>1. cachedFrame[j] = None
    BY <1>2 DEF IInv, AbandonedRetainsNothing
  <2> QED
    BY <1>1, <1>2, <2>1 DEF JobOK, ClientSettles, jobVars, Running
<1>11. SlotsAreExact'
  <2>1. ASSUME NEW i \in Jobs \ {j}
        PROVE  Unsettled(i)' <=> shadowFlights'[keyOf[i]] = i
    <3>1. Unsettled(i) <=> shadowFlights[keyOf[i]] = i
      BY <1>1, <2>1 DEF SlotsAreExact
    <3> QED
      BY <1>4, <1>6, <1>9, <2>1, <3>1
  <2>2. shadowFlights'[keyOf[j]] # j
    BY <1>6
  <2>3. \A k \in Keys : shadowFlights'[k] # None => keyOf[shadowFlights'[k]] = k
    BY <1>1, <1>6 DEF SlotsAreExact
  <2> QED
    BY <1>3, <2>1, <2>2, <2>3 DEF SlotsAreExact
<1>12. SlotsBounded'
  BY <1>1, <1>6, FewerSlots DEF InFlight
<1>13. AbandonedRetainsNothing' /\ JobInv'
  BY <1>9, <1>10 DEF AbandonedRetainsNothing, JobInv
<1> QED
  BY <1>7, <1>11, <1>12, <1>13 DEF IInv


-----------------------------------------------------------------------------
(* The other steps *)

\* The deadline of a job passes, or its timer fires: only what the job has
\* reported and whether it is abandoned changes.
LEMMA DeadlineSteps ==
    ASSUME IInv, Observe, NEW j \in Jobs, DeadlinePasses(j) \/ OnTimeout(j)
    PROVE  IInv'
<1>1. TypeOK /\ JobOK(j) /\ (abandoned[j] => cachedFrame[j] = None)
  BY DEF IInv, JobInv, AbandonedRetainsNothing
<1>2. TypeOK'
  <2>1. held' \in [Jobs -> BOOLEAN]
    BY ObserveType
  <2>2. CASE DeadlinePasses(j)
    <3>1. expired' \in [Jobs -> BOOLEAN]
      BY <1>1, <2>2 DEF TypeOK, DeadlinePasses
    <3>2. UNCHANGED <<worldVars, shadowFlights, jobVars, abandoned, readVars, outcome>>
      BY <2>2, Zenon DEF DeadlinePasses
    <3> QED
      BY <1>1, <2>1, <3>1, <3>2, Zenon DEF TypeOK, worldVars, jobVars, readVars
  <2>3. CASE OnTimeout(j)
    <3>1. abandoned' \in [Jobs -> BOOLEAN] /\ cachedFrame' \in [Jobs -> Nat \cup {None}]
      BY <1>1, <2>3, Zenon DEF TypeOK, OnTimeout
    <3>2. outcome' \in [Jobs -> Verdicts \cup {"none"}]
      BY <1>1, <2>3 DEF TypeOK, OnTimeout, Verdicts
    <3>3. UNCHANGED <<worldVars, shadowFlights, pc, kind, sourceValue, filling, expired,
                      readVars>>
      BY <2>3, Zenon DEF OnTimeout
    <3> QED
      BY <1>1, <2>1, <3>1, <3>2, <3>3, Zenon DEF TypeOK, worldVars, readVars
  <2> QED
    BY <2>2, <2>3
<1>3. pc[j] \in Running /\ pc' = pc /\ shadowFlights' = shadowFlights
  BY Zenon DEF DeadlinePasses, OnTimeout, jobVars
<1>4. \A i \in Jobs \ {j} : Untouched(i)
  BY <1>1 DEF TypeOK, DeadlinePasses, OnTimeout, jobVars, readVars, Untouched
<1>5. CASE DeadlinePasses(j)
  <2>1. expired'[j] /\ UNCHANGED <<worldVars, jobVars, readVars, abandoned, outcome>>
    BY <1>1, <1>5 DEF DeadlinePasses, TypeOK
  <2>2. pc[j] = "confirm" /\ cachedFrame[j] # None /\ held[j] => held'[j]
    BY <1>1, <2>1 DEF Observe, JobOK, jobVars
  <2>3. JobOK(j)' /\ (abandoned'[j] => cachedFrame'[j] = None)
    BY <1>1, <1>3, <2>1, <2>2, Zenon DEF JobOK, jobVars, readVars, Running
  <2> QED
    BY <1>2, <1>3, <1>4, <2>3, GoesOn, Zenon
<1>6. CASE OnTimeout(j)
  <2>1. /\ abandoned'[j] /\ cachedFrame'[j] = None /\ expired'[j] /\ pc[j] # "idle"
        /\ UNCHANGED <<pc, sourceValue, readVars>>
    BY <1>1, <1>6, Zenon DEF OnTimeout, TypeOK, Running
  <2>2. JobOK(j)'
    BY <1>1, <2>1, Zenon DEF JobOK, readVars, Running
  <2> QED
    BY <1>2, <1>3, <1>4, <2>1, <2>2, GoesOn, Zenon
<1> QED
  BY <1>5, <1>6

\* Redis answers the open read of a job.
LEMMA Serves ==
    ASSUME IInv, Observe, NEW j \in Jobs, Serve(j)
    PROVE  IInv'
<1>1. TypeOK /\ JobOK(j) /\ (abandoned[j] => cachedFrame[j] = None)
  BY DEF IInv, JobInv, AbandonedRetainsNothing
<1>2. PICK r \in {stored[keyOf[j]], None} : reply' = [reply EXCEPT ![j] = {r}]
  BY Zenon DEF Serve
<1>3. /\ pc[j] \in {"read", "confirm"} /\ pc[j] \in Running
      /\ UNCHANGED <<worldVars, shadowFlights, jobVars, expired, abandoned, clientReads,
                     outcome>>
  BY DEF Serve, Running
<1>4. r \in Nat \cup {None}
  BY <1>1, ShadowValidationAssumption DEF TypeOK
<1>5. TypeOK'
  <2>1. reply' \in [Jobs -> SUBSET (Nat \cup {None})]
    BY <1>1, <1>2, <1>4 DEF TypeOK
  <2>2. held' \in [Jobs -> BOOLEAN]
    BY ObserveType
  <2> QED
    BY <1>1, <1>3, <2>1, <2>2, Zenon DEF TypeOK, worldVars, jobVars
<1>6. \A i \in Jobs \ {j} : Untouched(i)
  BY <1>1, <1>2, <1>3 DEF TypeOK, jobVars, Untouched
<1>7. JobOK(j)'
  <2>1. reply'[j] = {r}
    BY <1>1, <1>2 DEF TypeOK
  <2>2. pc[j] = "confirm" /\ cachedFrame[j] # None /\ cachedFrame[j] = r => held'[j]
    BY <1>1, <1>3, Zenon DEF Observe, JobOK, worldVars, jobVars
  <2> QED
    BY <1>1, <1>3, <2>1, <2>2, Zenon DEF JobOK, jobVars, Running
<1> QED
  BY <1>1, <1>3, <1>5, <1>6, <1>7, GoesOn, Zenon DEF jobVars

\* A step by which the operation of j goes on at p.
Goes(j, p) ==
    \/ /\ p = "read" /\ pc[j] = "deferred"
       /\ clientReads' = [clientReads EXCEPT ![j] = {"first"}]
       /\ UNCHANGED <<reply, cachedFrame, sourceValue, filling>>
    \/ /\ p = "source" /\ pc[j] = "deferred"
       /\ UNCHANGED <<cachedFrame, sourceValue, filling, readVars>>
    \/ /\ p = "source" /\ pc[j] = "read"
       /\ Settle(j)
       /\ \E r \in reply[j] :
             /\ cachedFrame' = [cachedFrame EXCEPT ![j] = r]
             /\ filling' = [filling EXCEPT ![j] = r = None]
       /\ UNCHANGED sourceValue
    \/ /\ p \in {"fill", "deserialize"} /\ pc[j] = "yield"
       /\ UNCHANGED <<cachedFrame, sourceValue, filling, readVars>>
    \/ /\ p = "deserialize" /\ pc[j] = "source"
       /\ sourceValue' = [sourceValue EXCEPT ![j] = source]
       /\ UNCHANGED <<cachedFrame, filling, readVars>>
    \/ /\ p = "write" /\ pc[j] = "fill"
       /\ UNCHANGED <<cachedFrame, sourceValue, filling, readVars>>
    \/ /\ p = "confirm" /\ pc[j] = "deserialize"
       /\ cachedFrame[j] # sourceValue[j]
       /\ clientReads' = [clientReads EXCEPT ![j] = {"confirm"}]
       /\ UNCHANGED <<reply, cachedFrame, sourceValue, filling>>

\* An operation that goes on, its flight not abandoned, keeps the invariant.
LEMMA Continues ==
    ASSUME IInv, Observe, NEW j \in Jobs, NEW p \in Running,
           Continue(j, p), Goes(j, p)
    PROVE  IInv'
<1>1. TypeOK /\ JobOK(j)
  BY DEF IInv, JobInv
<1>2. /\ ~expired[j] /\ ~abandoned[j] /\ pc[j] \in Running /\ pc'[j] = p
      /\ UNCHANGED <<worldVars, shadowFlights, kind, expired, abandoned, outcome>>
  BY <1>1, Zenon DEF TypeOK, Continue, Goes, JobOK, Running
<1>3. /\ clientReads' \in [Jobs -> SUBSET {"first", "confirm"}]
      /\ reply' \in [Jobs -> SUBSET (Nat \cup {None})]
      /\ cachedFrame' \in [Jobs -> Nat \cup {None}]
      /\ sourceValue' \in [Jobs -> Nat \cup {None}]
      /\ filling' \in [Jobs -> BOOLEAN]
  <2>1. \A r \in reply[j] : r \in Nat \cup {None}
    BY <1>1 DEF TypeOK
  <2>2. cachedFrame' \in [Jobs -> Nat \cup {None}]
    <3>1. \/ cachedFrame' = cachedFrame
          \/ \E r \in reply[j] : cachedFrame' = [cachedFrame EXCEPT ![j] = r]
      BY Zenon DEF Goes
    <3>2. cachedFrame \in [Jobs -> Nat \cup {None}]
      BY <1>1 DEF TypeOK
    <3> QED
      BY <2>1, <3>1, <3>2, Zenon
  <2>3. filling' \in [Jobs -> BOOLEAN]
    <3>1. \/ filling' = filling
          \/ \E b \in BOOLEAN : filling' = [filling EXCEPT ![j] = b]
      <4>1. \A r : (r = None) \in BOOLEAN
        OBVIOUS
      <4> QED
        BY <4>1, Zenon DEF Goes
    <3> QED
      BY <1>1, <3>1, Zenon DEF TypeOK
  <2>4. clientReads' \in [Jobs -> SUBSET {"first", "confirm"}]
    <3>1. \/ clientReads' = clientReads
          \/ \E which \in {{}, {"first"}, {"confirm"}} :
                 clientReads' = [clientReads EXCEPT ![j] = which]
      BY Zenon DEF Goes, Settle, readVars
    <3>2. clientReads \in [Jobs -> SUBSET {"first", "confirm"}]
      BY <1>1 DEF TypeOK
    <3> QED
      BY <3>1, <3>2
  <2>5. reply' \in [Jobs -> SUBSET (Nat \cup {None})]
    BY <1>1 DEF TypeOK, Goes, Settle, readVars
  <2>6. sourceValue' \in [Jobs -> Nat \cup {None}]
    BY <1>1, Zenon DEF TypeOK, Goes
  <2> QED
    BY <2>2, <2>3, <2>4, <2>5, <2>6
<1>4. TypeOK'
  <2>1. pc' \in [Jobs -> Running \cup {"idle", "done"}]
    BY <1>1 DEF TypeOK, Continue
  <2> QED
    BY <1>1, <1>2, <1>3, <2>1, ObserveType, Zenon DEF TypeOK, worldVars
<1>5. \A i \in Jobs \ {j} : Untouched(i)
  <2>1. ASSUME NEW i \in Jobs \ {j}
        PROVE  /\ clientReads'[i] = clientReads[i] /\ reply'[i] = reply[i]
               /\ cachedFrame'[i] = cachedFrame[i] /\ sourceValue'[i] = sourceValue[i]
    BY <1>1, <2>1, Zenon DEF TypeOK, Goes, Settle, readVars
  <2>2. \A i \in Jobs \ {j} : pc'[i] = pc[i]
    BY <1>1 DEF TypeOK, Continue
  <2> QED
    BY <1>2, <2>1, <2>2 DEF Untouched
<1>6. JobOK(j)'
  <2>1. p \in {"fill", "write", "deserialize", "confirm"} => sourceValue'[j] # None
    BY <1>1, ShadowValidationAssumption, Zenon DEF TypeOK, JobOK, Goes
  <2>2. reply'[j] = {}
    BY <1>1, <1>2, Zenon DEF TypeOK, JobOK, Goes, Settle, readVars, Running
  <2>3. p = "confirm" => cachedFrame'[j] # sourceValue'[j]
    BY <1>1, Zenon DEF Goes
  <2>4. p # "idle" /\ p # "yield"
    BY Zenon DEF Goes, Running
  <2> QED
    BY <1>1, <1>2, <2>1, <2>2, <2>3, <2>4, Zenon DEF JobOK
<1> QED
  BY <1>2, <1>4, <1>5, <1>6, GoesOn, Zenon

\* The caller's source call fulfils for the job that shares it.
LEMMA SharedFulfils ==
    ASSUME IInv, Observe, NEW j \in Jobs, SharedSourceFulfils(j)
    PROVE  IInv'
<1>1. TypeOK /\ JobOK(j) /\ (abandoned[j] => cachedFrame[j] = None)
  BY DEF IInv, JobInv, AbandonedRetainsNothing
<1>2. TypeOK'
  BY <1>1, ObserveType, Zenon DEF TypeOK, SharedSourceFulfils, worldVars, readVars, Running
<1>3. pc[j] = "source" /\ pc'[j] = "yield" /\ sourceValue'[j] # None
  BY <1>1, ShadowValidationAssumption DEF TypeOK, SharedSourceFulfils
<1>4. \A i \in Jobs \ {j} : Untouched(i)
  BY <1>1 DEF TypeOK, SharedSourceFulfils, readVars, Untouched
<1>5. JobOK(j)'
  BY <1>1, <1>3 DEF JobOK, SharedSourceFulfils, readVars, Running
<1> QED
  BY <1>1, <1>2, <1>3, <1>4, <1>5, GoesOn, Zenon DEF SharedSourceFulfils, Running

\* Every step of a running job is one of the shapes above.
LEMMA JobSteps ==
    ASSUME IInv, Observe, NEW j \in Jobs,
           SharedSource(j) \/ OwnSource(j) \/ Steps(j)
    PROVE  IInv'
<1>1. TypeOK /\ stored \in [Keys -> Nat \cup {None}]
  BY DEF IInv, TypeOK
<1>2. /\ {"timeout", "redis_error", "confirmation_error", "source_error", "fill_fenced",
          "fill_error", "filled", "deserialization_error", "comparison_error", "match",
          "superseded", "mismatch"} \subseteq Verdicts
      /\ {"deferred", "read", "source", "yield", "fill", "write", "deserialize",
          "confirm"} \subseteq Running
  BY DEF Verdicts, Running
<1>3. ASSUME NEW o \in Verdicts, pc[j] \in Running, UNCHANGED readVars,
             Finish(j, o, clientReads[j])
      PROVE  IInv'
  BY <1>1, <1>3, ReturnsOpen DEF Finish
<1>4. ASSUME NEW p \in Running, Continue(j, p), Goes(j, p)
      PROVE  IInv'
  BY <1>4, Continues
<1>5. CASE Run(j)
  BY <1>2, <1>3, <1>4, <1>5, Zenon DEF Run, Goes
<1>6. CASE ReadReplies(j)
  BY <1>2, <1>4, <1>6, ReturnsSettled, Zenon DEF ReadReplies, Goes
<1>7. CASE ReadRejects(j)
  BY <1>2, <1>7, ReturnsSettled DEF ReadRejects
<1>8. CASE ReadTimesOut(j)
  BY <1>2, <1>3, <1>8 DEF ReadTimesOut
<1>9. CASE SignalWins(j)
  BY <1>2, <1>3, <1>9 DEF SignalWins
<1>10. CASE Yielded(j)
  <2>1. CASE expired[j] /\ Finish(j, "timeout", clientReads[j])
    BY <1>2, <1>3, <1>10, <2>1 DEF Yielded
  <2>2. CASE Continue(j, "fill") /\ UNCHANGED <<cachedFrame, sourceValue, filling>>
    BY <1>2, <1>4, <1>10, <2>2, Zenon DEF Yielded, Goes
  <2>3. CASE Continue(j, "deserialize") /\ UNCHANGED <<cachedFrame, sourceValue, filling>>
    BY <1>2, <1>4, <1>10, <2>3, Zenon DEF Yielded, Goes
  <2> QED
    BY <1>10, <2>1, <2>2, <2>3 DEF Yielded
<1>11. CASE OwnSourceFulfils(j)
  BY <1>2, <1>3, <1>4, <1>11, Zenon DEF OwnSourceFulfils, Goes
<1>12. CASE SourceRejects(j)
  BY <1>2, <1>3, <1>12, Zenon DEF SourceRejects
<1>13. CASE FillEnds(j)
  BY <1>2, <1>3, <1>13 DEF FillEnds
<1>14. CASE DispatchFill(j)
  BY <1>2, <1>4, <1>14, Zenon DEF DispatchFill, Goes
<1>15. CASE WriteSettles(j)
  <2>1. [stored EXCEPT ![keyOf[j]] = sourceValue[j]] \in [Keys -> Nat \cup {None}]
    BY <1>1, ShadowValidationAssumption DEF TypeOK
  <2>2. stored' \in [Keys -> Nat \cup {None}]
    BY <1>1, <1>15, <2>1, Zenon DEF WriteSettles
  <2> QED
    BY <1>2, <1>15, <2>2, ReturnsOpen, Zenon DEF WriteSettles
<1>16. CASE CompareFails(j)
  BY <1>2, <1>3, <1>16, Zenon DEF CompareFails
<1>17. CASE CompareEnds(j)
  BY <1>2, <1>3, <1>17, Zenon DEF CompareEnds
<1>18. CASE BeginConfirm(j)
  BY <1>2, <1>4, <1>18, Zenon DEF BeginConfirm, Goes
<1>19. CASE ConfirmReplies(j)
  <2>1. Finish(j, "superseded", {}) \/ Finish(j, "mismatch", {})
    BY <1>19, Zenon DEF ConfirmReplies
  <2> QED
    BY <1>2, <1>19, <2>1, ReturnsSettled, Zenon DEF ConfirmReplies
<1>20. Serve(j) \/ ClientSettles(j) \/ SharedSourceFulfils(j) => IInv'
  BY Serves, Settles, SharedFulfils
<1> QED
  BY <1>5, <1>6, <1>7, <1>8, <1>9, <1>10, <1>11, <1>12, <1>13, <1>14, <1>15, <1>16,
     <1>17, <1>18, <1>19, <1>20
     DEF SharedSource, OwnSource, Steps

\* The invariant is inductive.
LEMMA NextIInv == IInv /\ [Next]_vars => IInv'
<1> SUFFICES ASSUME IInv, [Next]_vars PROVE IInv'
  OBVIOUS
<1>1. CASE Next
  <2>1. Observe
    BY <1>1 DEF Next
  <2>2. CASE Mutate \/ \E k \in Keys : StoredChanges(k)
    BY <2>1, <2>2, Surroundings
  <2>3. ASSUME NEW j \in Jobs, Drop(j) PROVE IInv'
    BY <2>1, <2>3, Drops
  <2>4. ASSUME NEW j \in Jobs, Admit(j, "redis", None) PROVE IInv'
    BY <2>1, <2>4, Admits, Zenon
  <2>5. ASSUME NEW j \in Jobs, NEW v \in 0..source, Admit(j, "retained", v) PROVE IInv'
    <3>1. v \in Nat \cup {None}
      BY DEF IInv, TypeOK
    <3> QED
      BY <2>1, <2>5, <3>1, Admits
  <2>6. ASSUME NEW j \in Jobs, DeadlinePasses(j) \/ OnTimeout(j) PROVE IInv'
    BY <2>1, <2>6, DeadlineSteps
  <2>7. ASSUME NEW j \in Jobs, SharedSource(j) \/ OwnSource(j) \/ Steps(j) PROVE IInv'
    BY <2>1, <2>7, JobSteps
  <2> QED
    BY <1>1, <2>2, <2>3, <2>4, <2>5, <2>6, <2>7 DEF Next
<1>2. CASE UNCHANGED vars
  BY <1>2, Zenon DEF vars, worldVars, jobVars, readVars, IInv, TypeOK, SlotsAreExact, Unsettled,
              SlotsBounded, InFlight, AbandonedRetainsNothing, JobInv, JobOK
<1> QED
  BY <1>1, <1>2

-----------------------------------------------------------------------------
(* The theorems *)

\* The inductive invariant holds throughout every execution.
THEOREM Invariance == Spec => []IInv
<1>1. Init => IInv
  BY InitIInv
<1>2. IInv /\ [Next]_vars => IInv'
  BY NextIInv
<1> QED
  BY <1>1, <1>2, PTL DEF Spec

\* Slots are held exactly from admission until the operation has returned and
\* its client reads have settled, for any number of jobs and keys.
THEOREM SlotsExact == Spec => []SlotsAreExact
<1>1. IInv => SlotsAreExact
  BY DEF IInv
<1> QED
  BY <1>1, Invariance, PTL

\* An abandoned or finished job retains no payload (onTimeout, finishOperation).
THEOREM RetainsNothing == Spec => []AbandonedRetainsNothing
<1>1. IInv => AbandonedRetainsNothing
  BY DEF IInv
<1> QED
  BY <1>1, Invariance, PTL

\* Unsettled shadow work is bounded by shadowMaxInFlight: the jobs that still
\* have work inject into the slots by their keys.
THEOREM CapacityBounds == Spec => []CapacityBoundsWork
<1>1. IInv => CapacityBoundsWork
  <2> SUFFICES ASSUME IInv PROVE CapacityBoundsWork
    OBVIOUS
  <2> DEFINE W == {j \in Jobs : Unsettled(j)}
             f == [j \in W |-> keyOf[j]]
  <2>1. SlotsAreExact /\ SlotsBounded
    BY DEF IInv
  <2>2. \A j \in W : shadowFlights[keyOf[j]] = j /\ keyOf[j] \in InFlight
    BY <2>1, ShadowValidationAssumption DEF SlotsAreExact, InFlight
  <2>3. f \in Injection(W, InFlight)
    BY <2>2 DEF Injection, IsInjective
  <2>4. IsFiniteSet(W) /\ Cardinality(W) <= Cardinality(InFlight)
    <3> HIDE DEF W, f
    <3> QED
      BY <2>1, <2>3, FS_Injection DEF SlotsBounded
  <2>5. Cardinality(W) \in Nat /\ Cardinality(InFlight) \in Nat
    BY <2>1, <2>4, FS_CardinalityType DEF SlotsBounded
  <2> QED
    BY <2>1, <2>4, <2>5, ShadowValidationAssumption DEF CapacityBoundsWork, SlotsBounded
<1> QED
  BY <1>1, Invariance, PTL

\* Slots are held exactly as long as the work they stand for, and bound it, for
\* any number of jobs, keys and slots (scheduleShadowValidation, maybeRelease).
THEOREM SlotsBoundTheWork == Spec => []SlotsBoundWork
<1>1. SlotsAreExact /\ CapacityBoundsWork => SlotsBoundWork
  BY DEF SlotsBoundWork
<1> QED
  BY <1>1, SlotsExact, CapacityBounds, PTL

-----------------------------------------------------------------------------
(* Action properties *)

\* What a step does to job i is allowed.
StepOK(i) ==
    /\ outcome[i] # "none" => outcome'[i] = outcome[i]
    /\ pc[i] # "write" /\ pc'[i] = "write" =>
          ~expired[i] /\ ~abandoned[i] /\ outcome[i] = "none"
    /\ outcome[i] = "none" /\ outcome'[i] = "mismatch" =>
          cachedFrame[i] # sourceValue[i] /\ held[i]

\* A return records its verdict if none is recorded.
LEMMA EndStep ==
    ASSUME IInv, NEW j \in Jobs, NEW o, NEW reads, End(j, o, reads),
           o = "mismatch" => cachedFrame[j] # sourceValue[j] /\ held[j]
    PROVE  \A i \in Jobs : StepOK(i)
<1>1. TypeOK
  BY DEF IInv
<1>2. \A i \in Jobs \ {j} : pc'[i] = pc[i] /\ outcome'[i] = outcome[i]
  BY <1>1, Zenon DEF TypeOK, End
<1>3. pc'[j] = "done" /\ outcome'[j] \in {outcome[j], "timeout", o}
      /\ (outcome[j] # "none" => outcome'[j] = outcome[j])
  BY <1>1, Zenon DEF TypeOK, End
<1> QED
  BY <1>2, <1>3, Zenon DEF StepOK

\* A step that records nothing and dispatches no fill is allowed.
LEMMA QuietStep ==
    ASSUME IInv, outcome' = outcome,
           \A i \in Jobs : pc[i] # "write" => pc'[i] # "write"
    PROVE  \A i \in Jobs : StepOK(i)
BY DEF StepOK

\* Every step is allowed for every job.
LEMMA NextStepOK == IInv /\ Next => \A i \in Jobs : StepOK(i)
<1> SUFFICES ASSUME IInv, Next PROVE \A i \in Jobs : StepOK(i)
  OBVIOUS
<1>1. TypeOK /\ JobInv
  BY DEF IInv
<1>2. CASE Mutate \/ \E k \in Keys : StoredChanges(k)
  BY <1>2, QuietStep DEF Mutate, StoredChanges, jobVars
<1>3. ASSUME NEW j \in Jobs, Drop(j) PROVE \A i \in Jobs : StepOK(i)
  <2>1. outcome[j] = "none" /\ outcome'[j] = "dropped" /\ pc'[j] = "done"
    BY <1>1, <1>3 DEF TypeOK, JobInv, JobOK, Drop
  <2>2. \A i \in Jobs \ {j} : pc'[i] = pc[i] /\ outcome'[i] = outcome[i]
    BY <1>1, <1>3 DEF TypeOK, Drop
  <2> QED
    BY <2>1, <2>2, Zenon DEF StepOK
<1>4. ASSUME NEW j \in Jobs, NEW start, NEW frame, Admit(j, start, frame)
      PROVE  \A i \in Jobs : StepOK(i)
  BY <1>1, <1>4, QuietStep DEF TypeOK, Admit
<1>5. ASSUME NEW j \in Jobs, DeadlinePasses(j) \/ Serve(j) \/ ClientSettles(j)
      PROVE  \A i \in Jobs : StepOK(i)
  BY <1>5, QuietStep, Zenon DEF DeadlinePasses, Serve, ClientSettles, jobVars
<1>6. ASSUME NEW j \in Jobs, OnTimeout(j) PROVE \A i \in Jobs : StepOK(i)
  BY <1>1, <1>6 DEF TypeOK, OnTimeout, StepOK
<1>7. ASSUME NEW j \in Jobs, SharedSourceFulfils(j) PROVE \A i \in Jobs : StepOK(i)
  BY <1>1, <1>7, QuietStep DEF TypeOK, SharedSourceFulfils
<1>8. ASSUME NEW j \in Jobs, NEW p \in {"read", "source", "fill", "deserialize", "confirm"},
             Continue(j, p)
      PROVE  \A i \in Jobs : StepOK(i)
  BY <1>1, <1>8, QuietStep DEF TypeOK, Continue
<1>9. ASSUME NEW j \in Jobs, DispatchFill(j) PROVE \A i \in Jobs : StepOK(i)
  <2>1. pc[j] = "fill" /\ ~expired[j] /\ outcome' = outcome
    BY <1>9 DEF DispatchFill, Continue
  <2>2. ~abandoned[j] /\ outcome[j] = "none"
    BY <1>1, <2>1 DEF JobInv, JobOK, Running
  <2>3. \A i \in Jobs \ {j} : pc'[i] = pc[i]
    BY <1>1, <1>9 DEF TypeOK, DispatchFill, Continue
  <2> QED
    BY <2>1, <2>2, <2>3, Zenon DEF StepOK
<1>10. ASSUME NEW j \in Jobs, NEW o, NEW reads, End(j, o, reads), o # "mismatch"
       PROVE  \A i \in Jobs : StepOK(i)
  BY <1>10, EndStep
<1>11. ASSUME NEW j \in Jobs, ConfirmReplies(j) PROVE \A i \in Jobs : StepOK(i)
  <2>1. PICK r \in reply[j] :
           End(j, IF r = None \/ r # cachedFrame[j] THEN "superseded" ELSE "mismatch", {})
    BY <1>11 DEF ConfirmReplies, Finish
  <2>2. r # None /\ r = cachedFrame[j] => cachedFrame[j] # sourceValue[j] /\ held[j]
    BY <1>1, <1>11, <2>1, Zenon DEF JobInv, JobOK, ConfirmReplies
  <2> QED
    BY <2>1, <2>2, EndStep, Zenon
<1>12. ASSUME NEW j \in Jobs, SharedSource(j) \/ OwnSource(j) \/ Steps(j)
       PROVE  \A i \in Jobs : StepOK(i)
  <2>1. CASE Run(j) \/ ReadReplies(j) \/ OwnSourceFulfils(j) \/ BeginConfirm(j)
    BY <1>8, <1>10, <2>1, Zenon DEF Run, ReadReplies, OwnSourceFulfils, BeginConfirm, Finish
  <2>2. CASE Yielded(j)
    BY <1>8, <1>10, <2>2, Zenon DEF Yielded, Finish
  <2>3. CASE ReadRejects(j) \/ ReadTimesOut(j)
    BY <1>10, <2>3, Zenon DEF ReadRejects, ReadTimesOut, Finish
  <2>4. CASE SignalWins(j) \/ SourceRejects(j) \/ FillEnds(j) \/ WriteSettles(j)
    BY <1>10, <2>4, Zenon DEF SignalWins, SourceRejects, FillEnds, WriteSettles, Finish
  <2>5. CASE CompareFails(j) \/ CompareEnds(j)
    BY <1>10, <2>5, Zenon DEF CompareFails, CompareEnds, Finish
  <2> QED
    BY <1>5, <1>7, <1>9, <1>11, <1>12, <2>1, <2>2, <2>3, <2>4, <2>5
       DEF SharedSource, OwnSource, Steps
<1> QED
  BY <1>2, <1>3, <1>4, <1>5, <1>6, <1>12 DEF Next

\* A recorded verdict never changes, whatever settles late.
THEOREM VerdictsStay == Spec => OneVerdict
<1>1. IInv /\ [Next]_vars =>
         [\A j \in Jobs : outcome[j] # "none" => outcome'[j] = outcome[j]]_vars
  BY NextStepOK DEF StepOK
<1> QED
  BY <1>1, Invariance, PTL DEF Spec, OneVerdict

\* No fill is dispatched after the job's deadline or its reported timeout.
THEOREM FillsAreTimely == Spec => NoFillAfterDeadline
<1>1. IInv /\ [Next]_vars =>
         [\A j \in Jobs : pc[j] # "write" /\ pc'[j] = "write" =>
             ~expired[j] /\ ~abandoned[j] /\ outcome[j] = "none"]_vars
  BY NextStepOK DEF StepOK
<1> QED
  BY <1>1, Invariance, PTL DEF Spec, NoFillAfterDeadline

\* A reported mismatch names a payload that differed from the source's value and
\* was in Redis after that value was known.
THEOREM MismatchesAreReal == Spec => MismatchIsConfirmed
<1>1. IInv /\ [Next]_vars =>
         [\A j \in Jobs : outcome[j] = "none" /\ outcome'[j] = "mismatch" =>
             /\ cachedFrame[j] # sourceValue[j]
             /\ held[j]]_vars
  BY NextStepOK DEF StepOK
<1> QED
  BY <1>1, Invariance, PTL DEF Spec, MismatchIsConfirmed
=============================================================================
