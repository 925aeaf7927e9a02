---------------------------- MODULE StorageProofs ----------------------------
(* What is stored comes back: a local hit is exactly a linked entry within    *)
(* its lifetime, a payload survives its envelope and frame byte for byte, and *)
(* a request's memo serves its own request only, for any keys, values, sizes, *)
(* lifetimes, nesting of regions and codec that restores what it compressed.  *)
EXTENDS PayloadEnvelope, LocalCache, Regions, FiniteSetTheorems, TLAPS

-----------------------------------------------------------------------------
(* Regions: the invariant *)

\* The types of the contexts, the memos and the calls (context.ts).
RegionsTypes ==
    /\ store \in [RegionIds -> ContextStores \cup {Nowhere}]
    /\ under \in [RegionIds -> RegionIds \cup {Nowhere}]
    /\ closedHolder \subseteq RegionIds
    /\ requestMemo \in [RegionIds -> Callers \cup {Nowhere}]
    /\ stage \in [Callers -> {"idle", "config", "load", "done"}]
    /\ madeIn \in [Callers -> RegionIds \cup {Nowhere}]
    /\ memoOf \in [Callers -> RegionIds \cup {Nowhere}]
    /\ returned \in [Callers -> Callers \cup {Nowhere}]

\* A region was opened from a context that exists, and the nesting has no cycle.
Nesting ==
    /\ \A r \in RegionIds : under[r] \in Opened \cup {Nowhere}
    /\ \A r \in RegionIds \ Opened : under[r] = Nowhere
    /\ \A r, s \in RegionIds : r \in AroundOf(s) /\ s \in AroundOf(r) => r = s

\* The holder of a context is the nearest request around it, and every request
\* that is still open around a context is its holder.
Holders ==
    /\ \A x \in Opened : store[x].holder # Nowhere => IsRequestOf(store[x].holder, x)
    /\ \A x \in Opened : \A s \in RequestsOpenAround(x) : store[x].holder = s

\* The memo a call holds is that of the request it was made in; a memoized value
\* was loaded by a call that holds the memo; a closed memo is empty.
Memos ==
    /\ \A c \in Callers :
          memoOf[c] # Nowhere =>
             /\ madeIn[c] \in Opened /\ store[madeIn[c]].enabled
             /\ store[madeIn[c]].holder = memoOf[c]
    /\ \A h \in RegionIds :
          requestMemo[h] # Nowhere =>
             memoOf[requestMemo[h]] = h /\ h \notin closedHolder

\* What a call has done by the stage it is in, and whose value it returned.
CallStages ==
    \A c \in Callers :
       /\ stage[c] \in {"idle", "config"} => memoOf[c] = Nowhere
       /\ stage[c] # "done" => returned[c] = Nowhere
       /\ stage[c] = "config" => madeIn[c] \in Opened
       /\ returned[c] \notin {Nowhere, c} =>
             memoOf[c] # Nowhere /\ memoOf[returned[c]] = memoOf[c]

RegionsInv == RegionsTypes /\ Nesting /\ Holders /\ Memos /\ CallStages

-----------------------------------------------------------------------------
(* What is around a region, for any nesting u *)

AroundIn(u, x) ==
    {r \in RegionIds :
        \A S \in SUBSET RegionIds :
            x \in S /\ (\A y \in S : u[y] \in S \cup {Nowhere}) => r \in S}

\* AroundOf reads the nesting from the state, in either state of a step.
LEMMA AroundOfIn ==
    ASSUME NEW x
    PROVE  AroundOf(x) = AroundIn(under, x) /\ AroundOf(x)' = AroundIn(under', x)
BY DEF AroundOf, AroundIn, Upward

\* A region is around itself, and what is around the region it was opened from
\* is around it.
LEMMA AroundUp ==
    ASSUME NEW u \in [RegionIds -> RegionIds \cup {Nowhere}], NEW x \in RegionIds
    PROVE  AroundIn(u, x) = {x} \cup IF u[x] = Nowhere THEN {} ELSE AroundIn(u, u[x])
<1>1. x \in AroundIn(u, x)
  BY DEF AroundIn
<1>2. ASSUME u[x] # Nowhere, NEW r \in AroundIn(u, u[x])
      PROVE  r \in AroundIn(u, x)
  BY <1>2 DEF AroundIn
<1>3. ASSUME u[x] = Nowhere, NEW r \in AroundIn(u, x)
      PROVE  r = x
  <2>1. /\ {x} \in SUBSET RegionIds /\ x \in {x}
        /\ \A y \in {x} : u[y] \in {x} \cup {Nowhere}
    BY <1>3
  <2> QED BY <2>1, <1>3, Zenon DEF AroundIn
<1>4. ASSUME u[x] # Nowhere, NEW r \in AroundIn(u, x), r # x
      PROVE  r \in AroundIn(u, u[x])
  <2>1. SUFFICES ASSUME NEW S \in SUBSET RegionIds, u[x] \in S,
                        \A y \in S : u[y] \in S \cup {Nowhere}
                 PROVE  r \in S
    BY <1>4 DEF AroundIn
  <2>2. /\ S \cup {x} \in SUBSET RegionIds /\ x \in S \cup {x}
        /\ \A y \in S \cup {x} : u[y] \in (S \cup {x}) \cup {Nowhere}
    BY <2>1
  <2> QED BY <2>2, <1>4, Zenon DEF AroundIn
<1> QED BY <1>1, <1>2, <1>3, <1>4

\* Around is transitive.
LEMMA AroundTransitive ==
    ASSUME NEW u, NEW x, NEW y \in AroundIn(u, x), NEW z \in AroundIn(u, y)
    PROVE  z \in AroundIn(u, x)
BY DEF AroundIn

\* A set of regions that the nesting does not leave holds what is around its
\* members.
LEMMA AroundWithin ==
    ASSUME NEW u, NEW S \in SUBSET RegionIds, NEW x \in S,
           \A y \in S : u[y] \in S \cup {Nowhere}
    PROVE  AroundIn(u, x) \subseteq S
BY DEF AroundIn

\* Opening a region that nothing was opened from changes what is around no other.
LEMMA AroundOthers ==
    ASSUME NEW u, NEW r \in RegionIds,
           u \in [RegionIds -> (RegionIds \ {r}) \cup {Nowhere}],
           NEW v \in [RegionIds -> RegionIds \cup {Nowhere}],
           \A z \in RegionIds \ {r} : v[z] = u[z]
    PROVE  \A y \in RegionIds \ {r} : /\ AroundIn(v, y) = AroundIn(u, y)
                                     /\ r \notin AroundIn(u, y)
<1> SUFFICES ASSUME NEW y \in RegionIds \ {r}
             PROVE  AroundIn(v, y) = AroundIn(u, y) /\ r \notin AroundIn(u, y)
  OBVIOUS
<1>1. \A z \in RegionIds \ {r} : v[z] = u[z]
  OBVIOUS
<1>2. r \notin AroundIn(u, y)
  <2>1. \A z \in RegionIds \ {r} : u[z] \in (RegionIds \ {r}) \cup {Nowhere}
    OBVIOUS
  <2> QED BY <2>1, AroundWithin, Zenon
<1>3. r \notin AroundIn(v, y)
  <2>1. \A z \in RegionIds \ {r} : v[z] \in (RegionIds \ {r}) \cup {Nowhere}
    BY <1>1
  <2> QED BY <2>1, AroundWithin, Zenon
<1>4. ASSUME NEW s \in AroundIn(u, y)
      PROVE  s \in AroundIn(v, y)
  <2>1. SUFFICES ASSUME NEW S \in SUBSET RegionIds, y \in S,
                        \A z \in S : v[z] \in S \cup {Nowhere}
                 PROVE  s \in S
    BY <1>4 DEF AroundIn
  <2>2. /\ S \ {r} \in SUBSET RegionIds /\ y \in S \ {r}
        /\ \A z \in S \ {r} : u[z] \in (S \ {r}) \cup {Nowhere}
    BY <2>1, <1>1
  <2> QED BY <2>2, <1>4, Zenon DEF AroundIn
<1>5. ASSUME NEW s \in AroundIn(v, y)
      PROVE  s \in AroundIn(u, y)
  <2>1. SUFFICES ASSUME NEW S \in SUBSET RegionIds, y \in S,
                        \A z \in S : u[z] \in S \cup {Nowhere}
                 PROVE  s \in S
    BY <1>5 DEF AroundIn
  <2>2. /\ S \ {r} \in SUBSET RegionIds /\ y \in S \ {r}
        /\ \A z \in S \ {r} : v[z] \in (S \ {r}) \cup {Nowhere}
    BY <2>1, <1>1
  <2> QED BY <2>2, <1>5, Zenon DEF AroundIn
<1> QED BY <1>2, <1>4, <1>5

-----------------------------------------------------------------------------
(* Regions: the steps *)

\* Opening region r in context x, with the live holder of x or, if there is none,
\* perhaps with a holder of its own, preserves the invariant (context.ts: enable,
\* disable, run).
LEMMA RunStep ==
    ASSUME RegionsInv, NEW x \in Contexts, NEW r \in RegionIds \ Opened,
           NEW s \in ContextStores, run(x, r, s),
           s.holder = liveHolder(x) \/ (liveHolder(x) = Nowhere /\ s.holder = r)
    PROVE  RegionsInv'
<1> USE DEF RegionsInv
<1>1. /\ Opened' = Opened \cup {r} /\ store'[r] = s
      /\ \A y \in RegionIds \ {r} : store'[y] = store[y]
  BY RegionsAssumption DEF run, Opened, RegionsTypes
<1>2. /\ \A y \in RegionIds \ {r} : AroundOf(y)' = AroundOf(y) /\ r \notin AroundOf(y)
      /\ AroundOf(r)' = {r} \cup IF x = Nowhere THEN {} ELSE AroundOf(x)
  <2>1. /\ under \in [RegionIds -> (RegionIds \ {r}) \cup {Nowhere}]
        /\ under' \in [RegionIds -> RegionIds \cup {Nowhere}]
        /\ \A z \in RegionIds \ {r} : under'[z] = under[z]
        /\ x \in (RegionIds \ {r}) \cup {Nowhere} /\ under'[r] = x
    BY RegionsAssumption DEF run, RegionsTypes, Nesting, Contexts, Opened
  <2>2. \A y \in RegionIds \ {r} :
           AroundIn(under', y) = AroundIn(under, y) /\ r \notin AroundIn(under, y)
    BY <2>1, AroundOthers
  <2>4. AroundIn(under', r) = {r} \cup IF x = Nowhere THEN {} ELSE AroundIn(under', x)
    BY <2>1, AroundUp
  <2> QED BY <2>1, <2>2, <2>4, AroundOfIn
<1>3. /\ \A y \in Opened : AroundOf(y) \subseteq RegionIds \ {r}
      /\ x # Nowhere => x \in Opened
      /\ Opened \subseteq RegionIds \ {r}
  BY <1>2, Zenon DEF AroundOf, Opened, Contexts
<1>4. liveHolder(x) # Nowhere =>
         /\ x \in Opened /\ liveHolder(x) = store[x].holder
         /\ liveHolder(x) \notin closedHolder /\ IsRequestOf(liveHolder(x), x)
         /\ liveHolder(x) # r
  BY Zenon DEF liveHolder, Holders, IsRequestOf, IsOutermost
<1>5. /\ \A y \in RegionIds \ {r} : IsOutermost(y)' <=> IsOutermost(y)
      /\ IsOutermost(r)' <=> s.holder = r
      /\ IsOutermost(r)' => liveHolder(x) = Nowhere
  BY <1>1, <1>4, RegionsAssumption, Zenon DEF IsOutermost
<1>6. RegionsTypes'
  BY <1>3 DEF run, RegionsTypes, callerVars
<1>7. Nesting'
  <2>1. \A y \in RegionIds : under'[y] \in Opened' \cup {Nowhere}
    BY <1>1, <1>3 DEF run, Nesting, RegionsTypes
  <2>2. \A y \in RegionIds \ Opened' : under'[y] = Nowhere
    BY <1>1 DEF run, Nesting, RegionsTypes
  <2>3. ASSUME NEW y \in RegionIds, NEW z \in RegionIds,
               y \in AroundOf(z)', z \in AroundOf(y)'
        PROVE  y = z
    BY <2>3, <1>2 DEF Nesting
  <2> QED BY <2>1, <2>2, <2>3 DEF Nesting
<1>8. Holders'
  <2>1. ASSUME NEW y \in Opened', store'[y].holder # Nowhere
        PROVE  IsRequestOf(store[y].holder, y)'
    <3>1. CASE y \in Opened
      <4>1. /\ store'[y].holder = store[y].holder /\ IsRequestOf(store[y].holder, y)
            /\ store[y].holder \in RegionIds \ {r}
        BY <3>1, <2>1, <1>1, <1>3, Zenon DEF Holders, IsRequestOf
      <4> QED BY <4>1, <1>2, <1>3, <1>5, <3>1, Zenon DEF IsRequestOf
    <3>2. CASE y = r /\ s.holder = r
      BY <3>2, <1>1, <1>2, <1>5, Zenon DEF IsRequestOf
    <3>3. CASE y = r /\ s.holder = liveHolder(x)
      <4>1. /\ IsRequestOf(s.holder, x) /\ x \in Opened /\ s.holder # r
            /\ store'[y].holder = s.holder /\ s.holder \in RegionIds \ {r}
        BY <3>3, <2>1, <1>1, <1>3, <1>4, Zenon DEF IsRequestOf
      <4>2. x # Nowhere /\ AroundOf(r)' = {r} \cup AroundOf(x)
        BY <4>1, <1>2, RegionsAssumption, Zenon DEF Opened
      <4> QED BY <4>1, <4>2, <1>2, <1>3, <1>5, <3>3, Zenon DEF IsRequestOf
    <3> QED BY <3>1, <3>2, <3>3, <1>1
  <2>2. ASSUME NEW y \in Opened', NEW t \in RequestsOpenAround(y)'
        PROVE  store'[y].holder = t
    <3>0. /\ t \in AroundOf(y)' /\ IsOutermost(t)' /\ t \notin closedHolder
      BY <2>2 DEF RequestsOpenAround, run
    <3>1. CASE y \in Opened
      <4>1. t \in RequestsOpenAround(y)
        BY <3>0, <3>1, <1>2, <1>3, <1>5 DEF RequestsOpenAround
      <4> QED BY <4>1, <3>1, <1>1, <1>3 DEF Holders
    <3>2. CASE y = r /\ t = r
      BY <3>0, <3>2, <1>1, <1>5, Zenon
    <3>3. CASE y = r /\ t # r
      <4>1. x \in Opened /\ t \in RequestsOpenAround(x)
        BY <3>0, <3>3, <1>2, <1>3, <1>5 DEF RequestsOpenAround
      <4>2. store[x].holder = t /\ t \in RegionIds
        BY <4>1, Zenon DEF Holders, RequestsOpenAround, AroundOf
      <4>3. liveHolder(x) = t
        BY <4>1, <4>2, <3>0, RegionsAssumption DEF liveHolder
      <4> QED BY <4>2, <4>3, <3>3, <1>1, RegionsAssumption
    <3> QED BY <3>1, <3>2, <3>3, <1>1
  <2> QED BY <2>1, <2>2 DEF Holders
<1>9. Memos' /\ CallStages'
  BY <1>1, <1>3 DEF Memos, CallStages, run, callerVars
<1> QED BY <1>6, <1>7, <1>8, <1>9

\* Closing the request r preserves the invariant (context.ts: runOutermost).
LEMMA CloseStep ==
    ASSUME RegionsInv, NEW r \in RegionIds, runOutermost(r)
    PROVE  RegionsInv'
<1> USE DEF RegionsInv
<1>1. /\ Opened' = Opened
      /\ \A y : AroundOf(y)' = AroundOf(y) /\ (IsOutermost(y)' <=> IsOutermost(y))
  BY DEF runOutermost, Opened, AroundOf, Upward, IsOutermost
<1>2. RegionsTypes'
  BY DEF runOutermost, RegionsTypes
<1>3. Nesting'
  BY <1>1, Zenon DEF Nesting, runOutermost
<1>4. Holders'
  BY <1>1, Zenon DEF Holders, IsRequestOf, RequestsOpenAround, runOutermost
<1>5. Memos' /\ CallStages'
  BY <1>1, <1>2, Zenon DEF Memos, CallStages, RegionsTypes, runOutermost
<1> QED BY <1>2, <1>3, <1>4, <1>5

\* A call's own steps change no region.
LEMMA CallerStep ==
    ASSUME RegionsInv, NEW c \in Callers,
           \/ \E x \in Contexts : Call(c, x)
           \/ \E b \in BOOLEAN : Configured(c, b)
           \/ Loaded(c)
    PROVE  RegionsInv'
<1> USE DEF RegionsInv
<1>1. UNCHANGED regionVars
  BY DEF Call, Configured, Loaded
<1>2. /\ Opened' = Opened
      /\ \A y : /\ AroundOf(y)' = AroundOf(y) /\ (IsOutermost(y)' <=> IsOutermost(y))
                /\ RequestsOpenAround(y)' = RequestsOpenAround(y)
      /\ Opened \subseteq RegionIds
  BY <1>1 DEF regionVars, Opened, AroundOf, Upward, IsOutermost, RequestsOpenAround
<1>3. Nesting' /\ Holders'
  BY <1>1, <1>2, Zenon DEF Nesting, Holders, IsRequestOf, regionVars
<1>4. CASE \E x \in Contexts : Call(c, x)
  <2>1. PICK x \in Contexts : Call(c, x)
    BY <1>4
  <2>2. x \in RegionIds \cup {Nowhere} /\ (isEnabled(x) => x \in Opened)
    BY DEF Contexts, Opened, isEnabled
  <2>3. RegionsTypes'
    BY <2>1, <2>2 DEF Call, RegionsTypes, regionVars
  <2>4. Memos'
    BY <2>1, <1>1, <1>2, Zenon DEF Call, Memos, CallStages, RegionsTypes, regionVars
  <2>5. CallStages'
    BY <2>1, <2>2, <1>1, <1>2, Zenon DEF Call, CallStages, RegionsTypes, regionVars
  <2> QED BY <1>3, <2>3, <2>4, <2>5
<1>5. CASE \E b \in BOOLEAN : Configured(c, b)
  <2>1. PICK b \in BOOLEAN : Configured(c, b)
    BY <1>5
  <2> DEFINE h == IF b /\ isEnabled(madeIn[c]) THEN liveHolder(madeIn[c]) ELSE Nowhere
             v == IF h = Nowhere THEN Nowhere ELSE requestMemo[h]
  <2>2. /\ stage[c] = "config"
        /\ memoOf' = [memoOf EXCEPT ![c] = h] /\ returned' = [returned EXCEPT ![c] = v]
        /\ stage' = [stage EXCEPT ![c] = IF v = Nowhere THEN "load" ELSE "done"]
        /\ requestMemo' = requestMemo /\ madeIn' = madeIn
    BY <2>1, Zenon DEF Configured
  <2>3. h # Nowhere => /\ madeIn[c] \in Opened /\ store[madeIn[c]].enabled
                       /\ store[madeIn[c]].holder = h /\ h \in RegionIds
    <3>1. madeIn[c] \in Opened => store[madeIn[c]] \in ContextStores
      BY DEF RegionsTypes, Opened
    <3> QED BY <3>1, Zenon DEF isEnabled, liveHolder, ContextStores
  <2>4. /\ memoOf[c] = Nowhere /\ returned[c] = Nowhere
        /\ v \in Callers \cup {Nowhere} /\ h \in RegionIds \cup {Nowhere}
        /\ \A k \in RegionIds : requestMemo[k] # c
        /\ v # Nowhere => h # Nowhere /\ memoOf[v] = h /\ v # c /\ v \in Callers
    <3>1. memoOf[c] = Nowhere /\ returned[c] = Nowhere
      BY <2>2, Zenon DEF CallStages
    <3>2. h \in RegionIds \cup {Nowhere}
      BY <2>3, Zenon
    <3>3. /\ requestMemo \in [RegionIds -> Callers \cup {Nowhere}]
          /\ RegionIds \cap {Nowhere} = {} /\ Callers \cap {Nowhere} = {}
      BY RegionsAssumption DEF RegionsTypes
    <3>4. \A k \in RegionIds : requestMemo[k] # Nowhere =>
              memoOf[requestMemo[k]] = k /\ requestMemo[k] \in Callers
      BY <3>3, Zenon DEF Memos
    <3>5. \A k \in RegionIds : requestMemo[k] # c
      BY <3>1, <3>3, <3>4
    <3> QED BY <3>1, <3>2, <3>3, <3>4, <3>5, Zenon
  <2> HIDE DEF h, v
  <2>5. RegionsTypes'
    BY <2>2, <2>4, <1>1 DEF RegionsTypes, regionVars
  <2>6. Memos'
    BY <2>2, <2>3, <2>4, <1>1, <1>2, Zenon DEF RegionsTypes, Memos, regionVars
  <2>7. CallStages'
    BY <2>2, <2>3, <2>4, <1>1, <1>2 DEF RegionsTypes, CallStages, regionVars
  <2> QED BY <1>3, <2>5, <2>6, <2>7
<1>6. CASE Loaded(c)
  <2>1. RegionsTypes'
    BY <1>6 DEF Loaded, RegionsTypes, regionVars
  <2>2. Memos'
    BY <1>6, <1>1, <1>2, RegionsAssumption, Zenon DEF Loaded, RegionsTypes, Memos, regionVars
  <2>3. CallStages'
    BY <1>6, <1>1, <1>2 DEF Loaded, RegionsTypes, CallStages, regionVars
  <2> QED BY <1>3, <2>1, <2>2, <2>3
<1> QED BY <1>4, <1>5, <1>6

\* RegionsInv is inductive.
THEOREM RegionsInvariant == RegionsSpec => []RegionsInv
<1>1. RegionsInit => RegionsInv
  <2> SUFFICES ASSUME RegionsInit PROVE RegionsInv
    OBVIOUS
  <2>1. RegionsTypes /\ Opened = {}
    BY DEF RegionsInit, RegionsTypes, Opened
  <2>2. \A r, s \in RegionIds : r \in AroundOf(s) => r = s
    <3>1. under \in [RegionIds -> RegionIds \cup {Nowhere}]
          /\ \A s \in RegionIds : under[s] = Nowhere
      BY DEF RegionsInit
    <3> QED BY <3>1, AroundUp, AroundOfIn
  <2>3. Nesting /\ Holders
    BY <2>1, <2>2 DEF RegionsInit, Nesting, Holders
  <2>4. Memos /\ CallStages
    BY DEF RegionsInit, Memos, CallStages
  <2> QED BY <2>1, <2>3, <2>4 DEF RegionsInv
<1>2. RegionsInv /\ [RegionsNext]_regionsVars => RegionsInv'
  <2> SUFFICES ASSUME RegionsInv, [RegionsNext]_regionsVars PROVE RegionsInv'
    OBVIOUS
  <2>1. ASSUME NEW r \in RegionIds, runOutermost(r)
        PROVE  RegionsInv'
    BY <2>1, CloseStep
  <2>2. ASSUME NEW r \in RegionIds, NEW x \in Contexts, enable(x, r) \/ disable(x, r)
        PROVE  RegionsInv'
    <3>1. r \in RegionIds \ Opened /\ liveHolder(x) \in RegionIds \cup {Nowhere}
      BY <2>2, Zenon DEF enable, disable, run, RegionsInv, RegionsTypes, liveHolder, Opened,
                  ContextStores
    <3>2. CASE enable(x, r)
      <4> DEFINE s == [enabled |-> TRUE,
                       holder |-> IF liveHolder(x) # Nowhere THEN liveHolder(x) ELSE r]
      <4>1. run(x, r, s)
        BY <3>2 DEF enable
      <4>2. /\ s \in ContextStores
            /\ s.holder = liveHolder(x) \/ (liveHolder(x) = Nowhere /\ s.holder = r)
        BY <3>1 DEF ContextStores
      <4> HIDE DEF s
      <4> QED BY <4>1, <4>2, <3>1, RunStep
    <3>3. CASE disable(x, r)
      <4> DEFINE s == [enabled |-> FALSE, holder |-> liveHolder(x)]
      <4>1. run(x, r, s)
        BY <3>3 DEF disable
      <4>2. s \in ContextStores /\ s.holder = liveHolder(x)
        BY <3>1 DEF ContextStores
      <4> HIDE DEF s
      <4> QED BY <4>1, <4>2, <3>1, RunStep
    <3> QED BY <2>2, <3>2, <3>3
  <2>3. ASSUME NEW c \in Callers,
               \/ \E x \in Contexts : Call(c, x)
               \/ \E b \in BOOLEAN : Configured(c, b)
               \/ Loaded(c)
        PROVE  RegionsInv'
    BY <2>3, CallerStep
  <2>4. CASE UNCHANGED regionsVars
    <3> USE <2>4 DEF regionsVars, regionVars, callerVars
    <3>1. /\ Opened' = Opened
          /\ \A y : /\ AroundOf(y)' = AroundOf(y) /\ (IsOutermost(y)' <=> IsOutermost(y))
                    /\ RequestsOpenAround(y)' = RequestsOpenAround(y)
      BY DEF Opened, AroundOf, Upward, IsOutermost, RequestsOpenAround
    <3>2. RegionsTypes' /\ Memos' /\ CallStages'
      BY <3>1, Zenon DEF RegionsInv, RegionsTypes, Memos, CallStages
    <3>3. Nesting' /\ Holders'
      BY <3>1, Zenon DEF RegionsInv, Nesting, Holders, IsRequestOf
    <3> QED BY <3>2, <3>3 DEF RegionsInv
  <2> QED BY <2>1, <2>2, <2>3, <2>4 DEF RegionsNext
<1> QED BY <1>1, <1>2, PTL DEF RegionsSpec

\* One request, one memo, for every set of regions and calls: a value from a
\* memo was loaded in the request it is served in, and no context is inside two
\* open requests (MemoStaysInItsRequest, context.ts).
THEOREM MemosStayInTheirRequests == RegionsSpec => []MemoStaysInItsRequest
<1>1. RegionsInv => MemoStaysInItsRequest
  <2> SUFFICES ASSUME RegionsInv PROVE MemoStaysInItsRequest
    OBVIOUS
  <2>1. \A x \in Opened : \A r, s \in RequestsOpenAround(x) : r = s
    BY DEF RegionsInv, Holders
  <2>2. ASSUME NEW c \in Callers, returned[c] \notin {Nowhere, c}
        PROVE  /\ madeIn[c] \in Opened /\ store[madeIn[c]].enabled
               /\ madeIn[returned[c]] \in Opened
               /\ \E r \in RegionIds : /\ IsRequestOf(r, madeIn[c])
                                       /\ IsRequestOf(r, madeIn[returned[c]])
    <3>1. /\ returned[c] \in Callers /\ memoOf[c] # Nowhere /\ memoOf[returned[c]] = memoOf[c]
          /\ memoOf[c] \in RegionIds
      BY <2>2 DEF RegionsInv, CallStages, RegionsTypes
    <3>2. /\ madeIn[c] \in Opened /\ store[madeIn[c]].enabled
          /\ store[madeIn[c]].holder = memoOf[c]
          /\ madeIn[returned[c]] \in Opened
          /\ store[madeIn[returned[c]]].holder = memoOf[c]
      BY <3>1, Zenon DEF RegionsInv, Memos
    <3> QED BY <3>1, <3>2 DEF RegionsInv, Holders
  <2>3. \A h \in closedHolder : requestMemo[h] = Nowhere
    BY DEF RegionsInv, Memos, RegionsTypes
  <2> QED BY <2>1, <2>2, <2>3, Zenon DEF MemoStaysInItsRequest
<1> QED BY <1>1, RegionsInvariant, PTL

\* The holder that a context resolves is the request still open around it by the
\* nesting of the regions alone, and none exactly when no such request is open:
\* enable() and disable() hand the request on, across any number of either, and
\* runOutermost ends it for every context inside it (context.ts: liveHolder).
THEOREM HoldersAreTheOpenRequests ==
    RegionsSpec =>
        [](\A x \in Opened :
              RequestsOpenAround(x) = IF liveHolder(x) = Nowhere THEN {} ELSE {liveHolder(x)})
<1>1. RegionsInv =>
         \A x \in Opened :
            RequestsOpenAround(x) = IF liveHolder(x) = Nowhere THEN {} ELSE {liveHolder(x)}
  <2> SUFFICES ASSUME RegionsInv, NEW x \in Opened
               PROVE  RequestsOpenAround(x)
                        = IF liveHolder(x) = Nowhere THEN {} ELSE {liveHolder(x)}
    OBVIOUS
  <2> DEFINE h == store[x].holder
  <2>1. \A s \in RequestsOpenAround(x) : s = h /\ s \in RegionIds /\ s \notin closedHolder
    BY DEF RegionsInv, Holders, RequestsOpenAround, AroundOf
  <2>2. CASE h # Nowhere /\ h \notin closedHolder
    <3>1. liveHolder(x) = h
      BY <2>2 DEF liveHolder
    <3>2. h \in RequestsOpenAround(x)
      BY <2>2 DEF RegionsInv, Holders, IsRequestOf, RequestsOpenAround
    <3> QED BY <2>1, <2>2, <3>1, <3>2
  <2>3. CASE ~(h # Nowhere /\ h \notin closedHolder)
    <3>1. liveHolder(x) = Nowhere
      BY <2>3 DEF liveHolder
    <3>2. Nowhere \notin RegionIds
      BY RegionsAssumption
    <3> QED BY <2>1, <2>3, <3>1, <3>2
  <2> QED BY <2>2, <2>3
<1> QED BY <1>1, RegionsInvariant, PTL

-----------------------------------------------------------------------------
(* The list *)

\* A list without repetitions in which every key was used after the ones before it.
Ordered(s, used) ==
    /\ s \in Seq(Keys)
    /\ \A i, j \in 1..Len(s) : s[i] = s[j] => i = j
    /\ \A i, j \in 1..Len(s) : i < j => s[j] \in used[s[i]]

\* Unlinking a key keeps the others in their order.
LEMMA Unlinked ==
    ASSUME NEW used, NEW s, Ordered(s, used), NEW k \in Keys
    PROVE  LET t == Without(s, k)
           IN  /\ Ordered(t, used) /\ ~Linked(t, k) /\ Len(t) <= Len(s)
               /\ Linked(s, k) => Len(t) = Len(s) - 1
               /\ \A x \in Keys \ {k} : Linked(t, x) <=> Linked(s, x)
<1> DEFINE t == Without(s, k)
<1>1. s \in Seq(Keys) /\ Len(s) \in Nat /\ \A i \in 1..Len(s) : s[i] \in Keys
  BY DEF Ordered
<1>2. CASE Linked(s, k)
  <2> DEFINE p == CHOOSE i \in 1..Len(s) : s[i] = k
  <2>1. p \in 1..Len(s) /\ s[p] = k
    BY <1>1, <1>2 DEF Linked
  <2>2. t = [i \in 1..(Len(s) - 1) |-> IF i < p THEN s[i] ELSE s[i + 1]]
    BY <1>2 DEF Without
  <2> HIDE DEF p
  <2>3. ASSUME NEW i \in 1..(Len(s) - 1)
        PROVE  (IF i < p THEN s[i] ELSE s[i + 1]) \in Keys
    <3>1. i \in 1..Len(s) /\ i + 1 \in 1..Len(s)
      BY <1>1
    <3> QED
      BY <1>1, <3>1
  <2>4. t \in [1..(Len(s) - 1) -> Keys] /\ Len(s) - 1 \in Nat
    BY <1>1, <2>1, <2>2, <2>3
  <2> HIDE DEF t
  <2>5. t \in Seq(Keys) /\ Len(t) = Len(s) - 1
    BY <2>4
  <2>6. \A i \in 1..(Len(s) - 1) : t[i] = IF i < p THEN s[i] ELSE s[i + 1]
    BY <2>2
  <2>7. Ordered(t, used) /\ ~Linked(t, k)
    <3> DEFINE q(i) == IF i < p THEN i ELSE i + 1
    <3>1. \A i \in 1..Len(t) : q(i) \in 1..Len(s) /\ q(i) # p /\ t[i] = s[q(i)]
      BY <1>1, <2>1, <2>5, <2>6
    <3>2. \A i, j \in 1..Len(t) :
              /\ q(i) = q(j) => i = j
              /\ i < j => q(i) < q(j)
      BY <1>1, <2>1, <2>5
    <3> HIDE DEF q
    <3> QED
      BY <2>1, <2>5, <3>1, <3>2 DEF Ordered, Linked
  <2>8. \A x \in Keys \ {k} : Linked(t, x) => Linked(s, x)
    BY <1>1, <2>1, <2>5, <2>6 DEF Linked
  <2>9. ASSUME NEW x \in Keys \ {k}, Linked(s, x) PROVE Linked(t, x)
    <3>1. PICK i \in 1..Len(s) : s[i] = x
      BY <2>9 DEF Linked
    <3>2. i # p /\ (i < p => t[i] = x) /\ (i > p => t[i - 1] = x)
      BY <1>1, <2>1, <2>6, <3>1
    <3> QED
      BY <1>1, <2>1, <2>5, <3>2 DEF Linked
  <2> QED
    BY <1>1, <1>2, <2>5, <2>7, <2>8, <2>9 DEF t
<1>3. CASE ~Linked(s, k)
  <2>1. t = s
    BY <1>1, <1>3 DEF Without, Linked
  <2> QED
    BY <1>1, <1>3, <2>1
<1> QED
  BY <1>2, <1>3

\* Who has used which key since, once k is used.
UsedNow(used, k) == [j \in Keys |-> IF j = k THEN {} ELSE used[j] \cup {k}]

\* A use moves its key to the recently used end.
LEMMA Touched ==
    ASSUME NEW used, NEW s, Ordered(s, used), NEW k \in Keys
    PROVE  LET t == Touch(s, k)
           IN  /\ Ordered(t, UsedNow(used, k)) /\ Len(t) <= Len(s) + 1
               /\ Len(t) > 0 /\ t[Len(t)] = k
               /\ Linked(s, k) => Len(t) = Len(s)
               /\ \A x \in Keys : Linked(t, x) <=> x = k \/ Linked(s, x)
<1> DEFINE u == Without(s, k)
           t == Touch(s, k)
<1>1. /\ Ordered(u, used) /\ ~Linked(u, k) /\ Len(u) <= Len(s)
      /\ Linked(s, k) => Len(u) = Len(s) - 1
      /\ \A x \in Keys \ {k} : Linked(u, x) <=> Linked(s, x)
  BY Unlinked
<1>2. t = Append(u, k)
  BY DEF Touch
<1> HIDE DEF t, u
<1>3. Len(s) \in Nat /\ u \in Seq(Keys) /\ Len(u) \in Nat
  <2>1. s \in Seq(Keys) /\ u \in Seq(Keys)
    BY <1>1, Zenon DEF Ordered
  <2> QED
    BY <2>1
<1>4. /\ t \in Seq(Keys) /\ Len(t) = Len(u) + 1 /\ t[Len(t)] = k
      /\ \A i \in 1..Len(u) : t[i] = u[i] /\ u[i] \in Keys
  BY <1>2, <1>3
<1>5. \A i, j \in 1..Len(t) : t[i] = t[j] => i = j
  BY <1>1, <1>3, <1>4 DEF Ordered, Linked
<1>6. ASSUME NEW i \in 1..Len(t), NEW j \in 1..Len(t), i < j
      PROVE  t[j] \in UsedNow(used, k)[t[i]]
  <2>1. t[i] = u[i] /\ t[i] \in Keys \ {k} /\ i \in 1..Len(u)
    BY <1>1, <1>3, <1>4, <1>6 DEF Linked
  <2>2. UsedNow(used, k)[t[i]] = used[u[i]] \cup {k}
    BY <2>1 DEF UsedNow
  <2>3. t[j] = k \/ t[j] \in used[u[i]]
    BY <1>1, <1>3, <1>4, <1>6, <2>1 DEF Ordered
  <2> QED
    BY <2>2, <2>3
<1>7. \A x \in Keys : Linked(t, x) <=> x = k \/ Linked(u, x)
  BY <1>3, <1>4 DEF Linked
<1> QED
  BY <1>1, <1>3, <1>4, <1>5, <1>6, <1>7 DEF Ordered, t

\* Dropping the least recently used keys keeps the rest in their order.
LEMMA Dropped ==
    ASSUME NEW used, NEW s, Ordered(s, used), NEW n \in 1..Len(s)
    PROVE  LET t == SubSeq(s, n, Len(s))
           IN  /\ Ordered(t, used) /\ Len(t) = Len(s) - n + 1
               /\ \A x \in Keys : Linked(t, x) <=> \E i \in n..Len(s) : s[i] = x
<1> DEFINE t == SubSeq(s, n, Len(s))
<1>1. s \in Seq(Keys) /\ Len(s) \in Nat
  BY DEF Ordered
<1> DEFINE q(i) == i + n - 1
<1>2. t \in Seq(Keys) /\ Len(t) = Len(s) - n + 1
  BY <1>1
<1>3. /\ \A i \in 1..Len(t) : q(i) \in n..Len(s) /\ q(i) \in 1..Len(s)
      /\ \A i \in 1..Len(t) : t[i] = s[q(i)]
  BY <1>1, <1>2
<1> HIDE DEF t
<1>4. \A i, j \in 1..Len(t) :
          /\ q(i) = q(j) => i = j
          /\ i < j => q(i) < q(j)
  BY <1>1, <1>2
<1>5. \A i \in n..Len(s) : i - n + 1 \in 1..Len(t) /\ q(i - n + 1) = i
  BY <1>1, <1>2
<1> HIDE DEF q
<1>6. Ordered(t, used)
  BY <1>2, <1>3, <1>4, Zenon DEF Ordered
<1>7. ASSUME NEW x \in Keys, NEW i \in n..Len(s), s[i] = x PROVE Linked(t, x)
  BY <1>3, <1>5, <1>7, Zenon DEF Linked
<1>8. ASSUME NEW x \in Keys, Linked(t, x) PROVE \E i \in n..Len(s) : s[i] = x
  BY <1>3, <1>8 DEF Linked
<1> QED
  BY <1>2, <1>6, <1>7, <1>8 DEF t

\* The keys behind a key in the list are different keys used since.
LEMMA UsedBehind ==
    ASSUME NEW used, NEW s, Ordered(s, used), NEW i \in 1..Len(s),
           IsFiniteSet(used[s[i]])
    PROVE  Len(s) - i <= Cardinality(used[s[i]])
<1> DEFINE S == (i + 1)..Len(s)
           f == [j \in S |-> s[j]]
<1>1. Len(s) \in Nat
  BY DEF Ordered
<1>2. f \in [S -> used[s[i]]]
  BY <1>1 DEF Ordered
<1>3. \A a, b \in S : f[a] = f[b] => a = b
  BY <1>1 DEF Ordered
<1>4. f \in Injection(S, used[s[i]])
  BY <1>2, <1>3 DEF Injection, IsInjective
<1>5. Cardinality(S) = Len(s) - i
  BY <1>1, FS_Interval
<1> HIDE DEF f, S
<1> QED
  BY <1>4, <1>5, FS_Injection

-----------------------------------------------------------------------------
(* The clock and the bounds *)

\* Every variable has its type.
LocalTypes ==
    /\ maxSize \in Nat /\ clock \in Nat
    /\ entries \in [Keys -> Entries \cup {None}]
    /\ puts \in [Keys -> Puts \cup {None}]
    /\ since \in [Keys -> SUBSET Keys]
    /\ \A k \in Keys : IsFiniteSet(since[k])

\* The stored entry e is the one that the put p wrote.
Wrote(p, e) ==
    /\ e.value = p.value
    /\ e.start = (p.at \div TicksPerMs) + 1
    /\ e.ttl = p.ttlMs - 1

\* A key that may have left the list: evicted by others, or too old.
MayBeGone(k) ==
    \/ maxSize <= Cardinality(since[k])
    \/ (puts[k].ttlMs - 1) * TicksPerMs < clock - puts[k].at

KeyInv(k) ==
    /\ Cached(k) <=> entries[k] # None
    /\ entries[k] # None => puts[k] # None /\ Wrote(puts[k], entries[k])
    /\ puts[k] # None => puts[k].at <= clock /\ puts[k].ttlMs > 1
    /\ puts[k] # None /\ ~Cached(k) => MayBeGone(k)

HitInv ==
    answer.op = "get" /\ answer.hit =>
        /\ answer.value = puts[answer.key].value
        /\ Age(answer.key) < puts[answer.key].ttlMs * TicksPerMs

LocalInv ==
    /\ LocalTypes
    /\ Ordered(order, since) /\ Len(order) <= maxSize
    /\ \A k \in Keys : KeyInv(k)
    /\ HitInv

\* A whole number of milliseconds and the ticks that are left.
LEMMA Floored ==
    ASSUME NEW T \in Nat, T > 0, NEW c \in Nat
    PROVE  LET q == c \div T IN q \in Nat /\ q * T <= c /\ c < q * T + T
<1> DEFINE q == c \div T
           r == c % T
<1>1. q \in Int /\ r \in 0..(T - 1) /\ c = T * q + r
  OBVIOUS
<1>2. q >= 0
  OBVIOUS
<1> HIDE DEF q, r
<1> QED
  BY <1>1, <1>2 DEF q

\* On the floored clock, an age of m milliseconds is a real age below m + 1.
LEMMA RealAge ==
    ASSUME NEW T \in Nat, T > 0, NEW a \in Nat, NEW c \in Nat, NEW m \in Nat
    PROVE  /\ (c \div T) - (a \div T) <= m => c - a < (m + 1) * T
           /\ c - a <= m * T => (c \div T) - (a \div T) <= m
<1> DEFINE p == a \div T
           q == c \div T
<1>1. /\ p \in Nat /\ p * T <= a /\ a < p * T + T
      /\ q \in Nat /\ q * T <= c /\ c < q * T + T
  BY Floored
<1> HIDE DEF p, q
<1>2. ASSUME q - p <= m PROVE c - a < (m + 1) * T
  <2>1. (q + 1) * T <= (p + m + 1) * T
    BY <1>1, <1>2
  <2>2. (q + 1) * T = q * T + T /\ (p + m + 1) * T = p * T + (m + 1) * T
    BY <1>1
  <2> QED
    BY <1>1, <2>1, <2>2
<1>3. ASSUME c - a <= m * T, q - p > m PROVE FALSE
  <2>1. (p + m + 1) * T <= q * T
    BY <1>1, <1>3
  <2>2. (p + m + 1) * T = p * T + m * T + T
    BY <1>1
  <2> QED
    BY <1>1, <1>3, <2>1, <2>2
<1> QED
  BY <1>1, <1>2, <1>3 DEF p, q

\* lru-cache's test against the age of the put that wrote the entry.
LEMMA StaleByAge ==
    ASSUME LocalTypes, NEW k \in Keys, puts[k] \in Puts, entries[k] \in Entries,
           Wrote(puts[k], entries[k]), puts[k].at <= clock, puts[k].ttlMs > 1
    PROVE  /\ ~isStale(entries[k]) => Age(k) < puts[k].ttlMs * TicksPerMs
           /\ isStale(entries[k]) =>
                  (puts[k].ttlMs - 1) * TicksPerMs < clock - puts[k].at
<1> DEFINE a == puts[k].at
           m == puts[k].ttlMs - 1
<1>1. a \in Nat /\ m \in Nat /\ m > 0 /\ clock \in Nat /\ m + 1 = puts[k].ttlMs
  BY DEF Puts, LocalTypes
<1>2. TicksPerMs \in Nat /\ TicksPerMs > 0
  BY LocalAssumption
<1>3. isStale(entries[k]) <=> (clock \div TicksPerMs) - (a \div TicksPerMs) > m
  <2>1. (a \div TicksPerMs) \in Nat /\ (clock \div TicksPerMs) \in Nat
    BY <1>1, <1>2, Floored
  <2>2. entries[k].start = (a \div TicksPerMs) + 1 /\ entries[k].ttl = m
    BY DEF Wrote
  <2> HIDE DEF a, m
  <2> QED
    BY <1>1, <2>1, <2>2 DEF isStale, now
<1>4. Age(k) = clock - a
  BY DEF Age
<1> HIDE DEF a, m
<1>5. /\ (clock \div TicksPerMs) - (a \div TicksPerMs) <= m => clock - a < (m + 1) * TicksPerMs
      /\ clock - a <= m * TicksPerMs => (clock \div TicksPerMs) - (a \div TicksPerMs) <= m
  BY <1>1, <1>2, RealAge
<1>6. (clock \div TicksPerMs) \in Nat /\ (a \div TicksPerMs) \in Nat /\ m * TicksPerMs \in Nat
  BY <1>1, <1>2, Floored
<1>7. ~isStale(entries[k]) => Age(k) < (m + 1) * TicksPerMs
  BY <1>1, <1>3, <1>4, <1>5, <1>6
<1>8. isStale(entries[k]) => m * TicksPerMs < clock - a
  BY <1>1, <1>3, <1>5, <1>6
<1> QED
  BY <1>1, <1>7, <1>8 DEF a, m

-----------------------------------------------------------------------------
(* The operations *)

\* The constructor establishes the invariant.
LEMMA LocalStart ==
    LocalInit => LocalInv
<1> SUFFICES ASSUME LocalInit PROVE LocalInv
  OBVIOUS
<1> USE DEF LocalInit
<1>1. LocalTypes
  BY FS_EmptySet, LocalAssumption DEF LocalTypes
<1>2. Ordered(order, since) /\ Len(order) <= maxSize
  BY LocalAssumption DEF Ordered
<1>3. \A k \in Keys : KeyInv(k)
  BY DEF KeyInv, Cached, Linked
<1>4. HitInv
  BY DEF HitInv, NoAnswer
<1> QED
  BY <1>1, <1>2, <1>3, <1>4 DEF LocalInv

\* Using a key resets its own users and counts as a use for every other key.
LEMMA UsedCounts ==
    ASSUME LocalTypes, NEW k \in Keys, Used(k)
    PROVE  /\ since' = UsedNow(since, k)
           /\ since' \in [Keys -> SUBSET Keys]
           /\ \A j \in Keys : IsFiniteSet(since'[j])
           /\ \A j \in Keys \ {k} : \A n \in Nat :
                  n <= Cardinality(since[j]) => n <= Cardinality(since'[j])
           /\ since'[k] = {}
<1>1. since' = UsedNow(since, k) /\ since' \in [Keys -> SUBSET Keys] /\ since'[k] = {}
  BY DEF Used, UsedNow, LocalTypes
<1>2. ASSUME NEW j \in Keys \ {k}
      PROVE  /\ IsFiniteSet(since'[j])
             /\ \A n \in Nat : n <= Cardinality(since[j]) => n <= Cardinality(since'[j])
  <2>1. since'[j] = since[j] \cup {k} /\ IsFiniteSet(since[j])
    BY DEF Used, LocalTypes
  <2>2. IsFiniteSet(since'[j])
    BY <2>1, FS_AddElement
  <2>3. Cardinality(since[j]) <= Cardinality(since'[j])
    BY <2>1, <2>2, FS_Subset
  <2>4. Cardinality(since[j]) \in Nat /\ Cardinality(since'[j]) \in Nat
    BY <2>1, <2>2, FS_CardinalityType
  <2> QED
    BY <2>2, <2>3, <2>4
<1>3. IsFiniteSet(since'[k])
  BY <1>1, FS_EmptySet
<1> QED
  BY <1>1, <1>2, <1>3

\* Time passes: entries age, and what may be gone stays so.
LEMMA TickKeeps ==
    ASSUME LocalInv, Tick PROVE LocalInv'
<1> USE DEF LocalInv
<1>1. /\ clock' = clock + 1 /\ clock \in Nat /\ answer' = NoAnswer
      /\ UNCHANGED <<maxSize, order, entries, puts, since>>
  BY DEF Tick, LocalTypes
<1>2. LocalTypes'
  BY <1>1 DEF LocalTypes
<1>3. ASSUME NEW k \in Keys PROVE KeyInv(k)'
  <2>1. KeyInv(k) /\ (Cached(k)' <=> Cached(k))
    BY <1>1 DEF Cached
  <2>2. CASE puts[k] = None
    BY <1>1, <2>1, <2>2, Zenon DEF KeyInv
  <2>3. CASE puts[k] # None
    <3>1. puts[k] \in Puts /\ puts[k].at \in Nat /\ puts[k].ttlMs \in Nat
      BY <2>3 DEF LocalTypes, Puts
    <3>2. (puts[k].ttlMs - 1) * TicksPerMs \in Int
      BY <3>1, LocalAssumption
    <3>3. MayBeGone(k) => MayBeGone(k)'
      BY <1>1, <3>1, <3>2 DEF MayBeGone
    <3>4. Wrote(puts[k], entries[k]) => Wrote(puts[k], entries[k])'
      BY <1>1 DEF Wrote
    <3>5. puts[k].at <= clock'
      BY <1>1, <2>1, <2>3, <3>1 DEF KeyInv
    <3> QED
      BY <1>1, <2>1, <3>3, <3>4, <3>5, Zenon DEF KeyInv
  <2> QED
    BY <2>2, <2>3
<1>4. HitInv'
  BY <1>1 DEF HitInv, NoAnswer
<1>5. (Ordered(order, since) /\ Len(order) <= maxSize)'
  BY <1>1, Zenon DEF Ordered
<1> QED
  BY <1>2, <1>3, <1>4, <1>5

\* A hit answers with the last put, younger than its TTL, and refreshes its key.
LEMMA GetHitKeeps ==
    ASSUME LocalInv, NEW k \in Keys, GetHit(k) PROVE LocalInv'
<1> USE DEF LocalInv
<1>1. /\ Cached(k) /\ ~isStale(entries[k])
      /\ order' = Touch(order, k) /\ Used(k)
      /\ UNCHANGED <<maxSize, clock, entries, puts>>
      /\ answer' = [op |-> "get", key |-> k, hit |-> TRUE, value |-> entries[k].value]
  BY DEF GetHit, Answer
<1>2. /\ since' = UsedNow(since, k)
      /\ since' \in [Keys -> SUBSET Keys]
      /\ \A j \in Keys : IsFiniteSet(since'[j])
      /\ \A j \in Keys \ {k} : \A n \in Nat :
             n <= Cardinality(since[j]) => n <= Cardinality(since'[j])
  BY <1>1, UsedCounts, Zenon
<1>3. LocalTypes'
  BY <1>1, <1>2 DEF LocalTypes
<1>4. /\ Ordered(order', since') /\ Len(order') = Len(order)
      /\ \A x \in Keys : Linked(order', x) <=> x = k \/ Linked(order, x)
  BY <1>1, <1>2, Touched, Zenon DEF Cached
<1>5. ASSUME NEW j \in Keys PROVE KeyInv(j)'
  <2>1. KeyInv(j) /\ (Cached(j)' <=> Cached(j))
    BY <1>1, <1>4 DEF Cached
  <2>2. ASSUME ~Cached(j), MayBeGone(j) PROVE MayBeGone(j)'
    BY <1>1, <1>2, <2>2 DEF MayBeGone, LocalTypes
  <2>3. Wrote(puts[j], entries[j]) => Wrote(puts[j], entries[j])'
    BY <1>1, Zenon DEF Wrote
  <2> QED
    BY <1>1, <2>1, <2>2, <2>3, Zenon DEF KeyInv
<1>6. /\ puts[k] \in Puts /\ entries[k] \in Entries /\ Wrote(puts[k], entries[k])
      /\ puts[k].at <= clock /\ puts[k].ttlMs > 1
  BY <1>1 DEF KeyInv, LocalTypes
<1>7. Age(k) < puts[k].ttlMs * TicksPerMs
  BY <1>1, <1>6, StaleByAge, Zenon
<1>8. HitInv'
  BY <1>1, <1>6, <1>7, Zenon DEF HitInv, Age, Wrote
<1> QED
  BY <1>1, <1>3, <1>4, <1>5, <1>8

\* A get that finds a stale entry removes only what is too old to be kept.
LEMMA GetStaleKeeps ==
    ASSUME LocalInv, NEW k \in Keys, GetStale(k) PROVE LocalInv'
<1> USE DEF LocalInv
<1>1. /\ Cached(k) /\ isStale(entries[k])
      /\ order' = Without(order, k) /\ entries' = [entries EXCEPT ![k] = None]
      /\ UNCHANGED <<maxSize, clock, puts, since>>
      /\ answer' = [op |-> "get", key |-> k, hit |-> FALSE, value |-> None]
  BY DEF GetStale, Answer
<1>2. LocalTypes'
  BY <1>1 DEF LocalTypes
<1>3. /\ Ordered(order', since) /\ Len(order') <= Len(order) /\ ~Linked(order', k)
      /\ \A x \in Keys \ {k} : Linked(order', x) <=> Linked(order, x)
  BY <1>1, Unlinked, Zenon
<1>4. /\ puts[k] \in Puts /\ entries[k] \in Entries /\ Wrote(puts[k], entries[k])
      /\ puts[k].at <= clock /\ puts[k].ttlMs > 1
  BY <1>1 DEF KeyInv, LocalTypes
<1>5. MayBeGone(k)'
  BY <1>1, <1>4, StaleByAge, Zenon DEF MayBeGone
<1>6. ASSUME NEW j \in Keys PROVE KeyInv(j)'
  <2>1. CASE j = k
    <3>1. ~Cached(j)' /\ entries'[j] = None
      BY <1>1, <1>3, <2>1 DEF Cached, LocalTypes
    <3> QED
      BY <1>1, <1>4, <1>5, <2>1, <3>1, Zenon DEF KeyInv
  <2>2. CASE j # k
    <3>1. KeyInv(j) /\ (Cached(j)' <=> Cached(j)) /\ entries'[j] = entries[j]
      BY <1>1, <1>3, <2>2 DEF Cached, LocalTypes
    <3>2. MayBeGone(j)' <=> MayBeGone(j)
      BY <1>1, Zenon DEF MayBeGone
    <3>3. Wrote(puts[j], entries[j]) => Wrote(puts[j], entries[j])'
      BY <1>1, <3>1, Zenon DEF Wrote
    <3> QED
      BY <1>1, <3>1, <3>2, <3>3, Zenon DEF KeyInv
  <2> QED
    BY <2>1, <2>2
<1>7. HitInv'
  BY <1>1, Zenon DEF HitInv
<1>8. Len(order) \in Nat /\ Len(order') \in Nat /\ maxSize \in Nat
  <2>1. order \in Seq(Keys) /\ order' \in Seq(Keys) /\ maxSize \in Nat
    BY <1>3, Zenon DEF Ordered, LocalTypes
  <2> QED
    BY <2>1
<1> QED
  BY <1>1, <1>2, <1>3, <1>6, <1>7, <1>8

\* A miss on an absent key changes nothing.
LEMMA GetAbsentKeeps ==
    ASSUME LocalInv, NEW k \in Keys, GetAbsent(k) PROVE LocalInv'
<1>1. /\ UNCHANGED <<maxSize, clock, order, entries, puts, since>>
      /\ answer' = [op |-> "get", key |-> k, hit |-> FALSE, value |-> None]
  BY DEF GetAbsent, Answer
<1>2. LocalTypes' /\ (Ordered(order, since) /\ Len(order) <= maxSize)'
  BY <1>1, Zenon DEF LocalInv, LocalTypes, Ordered
<1>3. \A j \in Keys : KeyInv(j)'
  BY <1>1, Zenon DEF LocalInv, KeyInv, MayBeGone, Wrote, Cached
<1>4. HitInv'
  BY <1>1, Zenon DEF HitInv
<1> QED
  BY <1>2, <1>3, <1>4 DEF LocalInv

\* lru-cache's set keeps the list within maxSize and drops at most the oldest key,
\* which maxSize other keys were used after.
LEMMA SetKeeps ==
    ASSUME LocalInv, NEW k \in Keys, NEW e, lruSet(k, e), Used(k),
           maxSize > 0
    PROVE  /\ Ordered(order', since') /\ Len(order') <= maxSize /\ Linked(order', k)
           /\ \A j \in Keys \ {k} :
                  /\ Linked(order', j) => Linked(order, j)
                  /\ Linked(order, j) /\ ~Linked(order', j) =>
                         maxSize <= Cardinality(since'[j])
<1> DEFINE t == Touch(order, k)
<1>1. maxSize \in Nat /\ Len(order) \in Nat /\ Len(order) <= maxSize /\ Ordered(order, since)
  <2>1. LocalTypes /\ Ordered(order, since) /\ Len(order) <= maxSize
    BY Zenon DEF LocalInv
  <2>2. maxSize \in Nat
    BY <2>1, Zenon DEF LocalTypes
  <2>3. order \in Seq(Keys)
    BY <2>1, Zenon DEF Ordered
  <2> QED
    BY <2>1, <2>2, <2>3
<1>2. since' = UsedNow(since, k) /\ \A j \in Keys : IsFiniteSet(since'[j])
  BY UsedCounts, Zenon DEF LocalInv
<1>3. /\ Ordered(t, since') /\ Len(t) <= Len(order) + 1 /\ Len(t) > 0 /\ t[Len(t)] = k
      /\ \A x \in Keys : Linked(t, x) <=> x = k \/ Linked(order, x)
  BY <1>1, <1>2, Touched, Zenon
<1>4. order' = IF Len(t) > maxSize THEN SubSeq(t, Len(t) - maxSize + 1, Len(t)) ELSE t
  BY DEF lruSet, Evicted
<1> HIDE DEF t
<1>5. Len(t) \in Nat /\ \A i \in 1..Len(t) : t[i] \in Keys
  BY <1>3 DEF Ordered
<1>6. CASE ~(Len(t) > maxSize)
  <2>1. Len(t) <= maxSize
    BY <1>1, <1>5, <1>6
  <2>2. order' = t
    BY <1>4, <1>6, Zenon
  <2> QED  BY <1>3, <2>1, <2>2, Zenon
<1>7. CASE Len(t) > maxSize
  <2>1. Len(t) = maxSize + 1 /\ 2 \in 1..Len(t) /\ 1 \in 1..Len(t)
    BY <1>1, <1>3, <1>5, <1>7
  <2>2. order' = SubSeq(t, 2, Len(t))
    BY <1>1, <1>4, <1>7, <2>1
  <2>3. /\ Ordered(order', since') /\ Len(order') = Len(t) - 2 + 1
        /\ \A x \in Keys : Linked(order', x) <=> \E i \in 2..Len(t) : t[i] = x
    BY <1>3, <2>1, <2>2, Dropped
  <2>4. Len(order') <= maxSize
    BY <1>1, <2>1, <2>3
  <2>5. Linked(order', k)
    <3>1. Len(t) \in 2..Len(t)
      BY <1>5, <2>1
    <3> QED
      BY <1>3, <2>3, <3>1
  <2>6. maxSize <= Cardinality(since'[t[1]])
    <3>1. Len(t) - 1 <= Cardinality(since'[t[1]])
      BY <1>2, <1>3, <1>5, <2>1, UsedBehind, Zenon
    <3> QED
      BY <1>1, <2>1, <3>1
  <2>7. ASSUME NEW j \in Keys \ {k}
        PROVE  /\ Linked(order', j) => Linked(order, j)
               /\ Linked(order, j) /\ ~Linked(order', j) =>
                      maxSize <= Cardinality(since'[j])
    <3>1. 2..Len(t) \subseteq 1..Len(t) /\ \A i \in 1..Len(t) : i = 1 \/ i \in 2..Len(t)
      BY <1>5
    <3>2. Linked(order', j) => Linked(t, j)
      BY <2>3, <3>1 DEF Linked
    <3>3. Linked(t, j) /\ ~Linked(order', j) => j = t[1]
      <4> SUFFICES ASSUME Linked(t, j), ~Linked(order', j) PROVE j = t[1]
        OBVIOUS
      <4>1. PICK i \in 1..Len(t) : t[i] = j
        BY DEF Linked
      <4> QED
        BY <2>3, <3>1, <4>1
    <3> QED
      BY <1>3, <2>6, <3>2, <3>3, Zenon
  <2> QED
    BY <2>3, <2>4, <2>5, <2>7
<1> QED
  BY <1>6, <1>7, Zenon

\* A put stores its own entry and never loses a key that should be kept.
LEMMA PutKeeps ==
    ASSUME LocalInv, NEW k \in Keys, NEW v \in Values, NEW ttlSec \in TtlSecs,
           put(k, v, ttlSec)
    PROVE  LocalInv'
<1> DEFINE ms == ttlSec * MsPerSec
           p == [value |-> v, at |-> clock, ttlMs |-> ms]
           e == [value |-> v, start |-> now, ttl |-> ms - 1]
<1>1. /\ answer' = NoAnswer /\ Used(k) /\ UNCHANGED <<maxSize, clock>>
      /\ puts' = [puts EXCEPT ![k] = p]
      /\ IF maxSize = 0 THEN UNCHANGED <<order, entries>> ELSE lruSet(k, e)
  BY DEF put, Stored, cacheTtlSecToMs
<1>2. ms \in Nat /\ ms > 1
  <2>1. ttlSec \in Nat /\ ttlSec > 0 /\ MsPerSec \in Nat /\ MsPerSec > 1
    BY LocalAssumption
  <2>2. ttlSec * MsPerSec >= MsPerSec /\ ttlSec * MsPerSec \in Nat
    BY <2>1
  <2> QED
    BY <2>1, <2>2
<1>3. clock \in Nat /\ maxSize \in Nat /\ TicksPerMs \in Nat /\ TicksPerMs > 0
  BY LocalAssumption DEF LocalInv, LocalTypes
<1>4. now = (clock \div TicksPerMs) + 1 /\ now \in Nat
  BY <1>3, Floored DEF now
<1> HIDE DEF ms
<1>5. p \in Puts /\ e \in Entries /\ Wrote(p, e) /\ p.at = clock /\ p.ttlMs = ms
  BY <1>2, <1>3, <1>4 DEF Puts, Entries, Wrote
<1> HIDE DEF p, e
<1>6. /\ since' \in [Keys -> SUBSET Keys] /\ since'[k] = {}
      /\ since' = UsedNow(since, k)
      /\ \A j \in Keys : IsFiniteSet(since'[j])
      /\ \A j \in Keys \ {k} : \A n \in Nat :
             n <= Cardinality(since[j]) => n <= Cardinality(since'[j])
  BY <1>1, UsedCounts, Zenon DEF LocalInv
<1>7. puts' \in [Keys -> Puts \cup {None}] /\ puts'[k] = p /\ \A j \in Keys \ {k} : puts'[j] = puts[j]
  BY <1>1, <1>5 DEF LocalInv, LocalTypes
<1>8. HitInv'
  BY <1>1 DEF HitInv, NoAnswer
<1>9. ASSUME NEW j \in Keys \ {k}, ~Cached(j), MayBeGone(j) PROVE MayBeGone(j)'
  BY <1>1, <1>3, <1>6, <1>7, <1>9, Zenon DEF MayBeGone
<1>10. p # None /\ e # None
  BY <1>5, LocalAssumption
<1>11. puts'[k] # None /\ puts'[k].at <= clock' /\ puts'[k].ttlMs > 1
  BY <1>1, <1>2, <1>3, <1>5, <1>7, <1>10
<1>12. CASE maxSize = 0
  <2>1. UNCHANGED <<order, entries>> /\ Len(order) = 0
    <3>1. UNCHANGED <<order, entries>>
      BY <1>1, <1>12, Zenon
    <3>2. Ordered(order, since) /\ Len(order) <= maxSize
      BY Zenon DEF LocalInv
    <3>3. Len(order) \in Nat
      BY <3>2 DEF Ordered
    <3> QED
      BY <1>12, <3>1, <3>2, <3>3
  <2>2. Ordered(order', since') /\ Len(order') <= maxSize'
    BY <1>1, <1>3, <1>12, <2>1 DEF Ordered, LocalInv
  <2>3. \A j \in Keys : ~Cached(j) /\ ~Cached(j)' /\ entries[j] = None
    BY <2>1 DEF Cached, Linked, LocalInv, KeyInv
  <2>4. LocalTypes'
    <3>1. /\ maxSize \in Nat /\ clock \in Nat
          /\ entries \in [Keys -> Entries \cup {None}]
      BY Zenon DEF LocalInv, LocalTypes
    <3>2. maxSize' = maxSize /\ clock' = clock /\ entries' = entries
      BY <1>1, <2>1, Zenon
    <3> QED
      BY <1>6, <1>7, <3>1, <3>2, Zenon DEF LocalTypes
  <2>5. MayBeGone(k)'
    <3>1. Cardinality(since'[k]) = 0
      BY <1>6, FS_EmptySet, Zenon
    <3>2. maxSize' = 0
      BY <1>1, <1>12, Zenon
    <3>3. maxSize' <= Cardinality(since'[k])
      BY <3>1, <3>2
    <3> QED
      BY <3>3, Zenon DEF MayBeGone
  <2>6. KeyInv(k)'
    BY <1>11, <2>1, <2>3, <2>5, Zenon DEF KeyInv
  <2>7. ASSUME NEW j \in Keys \ {k} PROVE KeyInv(j)'
    <3>1. KeyInv(j) /\ puts'[j] = puts[j] /\ entries'[j] = None /\ clock' = clock
      BY <1>1, <1>7, <2>1, <2>3, Zenon DEF LocalInv
    <3>2. ~Cached(j) /\ ~Cached(j)'
      BY <2>3
    <3> QED
      BY <1>9, <3>1, <3>2, Zenon DEF KeyInv
  <2> QED
    BY <1>8, <2>2, <2>4, <2>6, <2>7 DEF LocalInv
<1>13. CASE maxSize # 0
  <2>1. lruSet(k, e) /\ maxSize > 0
    BY <1>1, <1>3, <1>13
  <2>2. /\ Ordered(order', since') /\ Len(order') <= maxSize /\ Linked(order', k)
        /\ \A j \in Keys \ {k} :
               /\ Linked(order', j) => Linked(order, j)
               /\ Linked(order, j) /\ ~Linked(order', j) => maxSize <= Cardinality(since'[j])
    BY <1>1, <2>1, SetKeeps
  <2>3. entries' = [j \in Keys |-> IF ~Linked(order', j) THEN None
                                   ELSE IF j = k THEN e ELSE entries[j]]
    BY <2>1 DEF lruSet
  <2>4. LocalTypes'
    BY <1>1, <1>5, <1>6, <1>7, <2>3 DEF LocalInv, LocalTypes
  <2>5. KeyInv(k)'
    <3>1. entries'[k] = e /\ Cached(k)'
      BY <2>2, <2>3, Zenon DEF Cached
    <3>2. Wrote(puts[k], entries[k])'
      BY <1>5, <1>7, <3>1, Zenon DEF Wrote
    <3> QED
      BY <1>10, <1>11, <3>1, <3>2, Zenon DEF KeyInv
  <2>6. ASSUME NEW j \in Keys \ {k} PROVE KeyInv(j)'
    <3>1. KeyInv(j) /\ (Cached(j)' => Cached(j)) /\ puts'[j] = puts[j]
      BY <1>7, <2>2, Zenon DEF Cached, LocalInv
    <3>2. entries'[j] = IF Cached(j)' THEN entries[j] ELSE None
      BY <2>3 DEF Cached
    <3>3. Cached(j) /\ ~Cached(j)' => MayBeGone(j)'
      BY <1>1, <2>2 DEF Cached, MayBeGone
    <3>4. Wrote(puts[j], entries[j]) /\ Cached(j)' => Wrote(puts[j], entries[j])'
      BY <3>1, <3>2, Zenon DEF Wrote
    <3> QED
      BY <1>1, <1>9, <3>1, <3>2, <3>3, <3>4, Zenon DEF KeyInv
  <2> QED
    BY <1>1, <1>8, <2>2, <2>4, <2>5, <2>6 DEF LocalInv
<1> QED
  BY <1>12, <1>13

\* Every operation of the layer preserves the invariant.
LEMMA LocalStep ==
    LocalInv /\ [LocalNext]_(localVars) => LocalInv'
<1> SUFFICES ASSUME LocalInv, [LocalNext]_(localVars) PROVE LocalInv'
  OBVIOUS
<1>1. CASE Tick
  BY <1>1, TickKeeps
<1>2. ASSUME NEW k \in Keys, GetHit(k) PROVE LocalInv'
  BY <1>2, GetHitKeeps
<1>3. ASSUME NEW k \in Keys, GetStale(k) PROVE LocalInv'
  BY <1>3, GetStaleKeeps
<1>4. ASSUME NEW k \in Keys, GetAbsent(k) PROVE LocalInv'
  BY <1>4, GetAbsentKeeps
<1>5. ASSUME NEW k \in Keys, NEW v \in Values, NEW ttlSec \in TtlSecs, put(k, v, ttlSec)
      PROVE  LocalInv'
  BY <1>5, PutKeeps
<1>6. CASE UNCHANGED localVars
  <2>1. UNCHANGED <<maxSize, clock, order, entries, answer, puts, since>>
    BY <1>6 DEF localVars
  <2> QED
    BY <2>1, Zenon DEF LocalInv, LocalTypes, Ordered, KeyInv, MayBeGone, Wrote, HitInv, Cached, Age
<1> QED
  BY <1>1, <1>2, <1>3, <1>4, <1>5, <1>6 DEF LocalNext

\* The layer's promise: a hit is the last put and younger than its TTL in real
\* time, the list stays within localMaxSize, and a key that was put, has more than
\* a millisecond to live and was followed by fewer than localMaxSize other keys
\* is not missed.
THEOREM LocalHitsExact ==
    LocalSpec => []HitsAreExact
<1>1. LocalInv => HitsAreExact
  <2> SUFFICES ASSUME LocalInv PROVE HitsAreExact
    OBVIOUS
  <2>1. ASSUME NEW k \in Keys, puts[k] # None,
               Age(k) <= (puts[k].ttlMs - 1) * TicksPerMs, Cardinality(since[k]) < maxSize
        PROVE  Cached(k) /\ ~isStale(entries[k])
    <3>1. puts[k] \in Puts /\ puts[k].at \in Nat /\ puts[k].ttlMs \in Nat
      BY <2>1 DEF LocalInv, LocalTypes, Puts
    <3>2. clock \in Nat /\ maxSize \in Nat /\ Cardinality(since[k]) \in Nat
      BY FS_CardinalityType DEF LocalInv, LocalTypes
    <3>3. (puts[k].ttlMs - 1) * TicksPerMs \in Int
      BY <3>1, LocalAssumption
    <3>4. ~MayBeGone(k)
      BY <2>1, <3>1, <3>2, <3>3 DEF MayBeGone, Age
    <3>5. /\ Cached(k) /\ entries[k] # None /\ Wrote(puts[k], entries[k])
          /\ puts[k].at <= clock /\ puts[k].ttlMs > 1
      BY <2>1, <3>4 DEF LocalInv, KeyInv
    <3>6. entries[k] \in Entries /\ LocalTypes
      BY <3>5 DEF LocalInv, LocalTypes
    <3>7. isStale(entries[k]) => (puts[k].ttlMs - 1) * TicksPerMs < clock - puts[k].at
      BY <3>1, <3>5, <3>6, StaleByAge, Zenon
    <3> QED
      BY <3>2, <3>4, <3>5, <3>7, Zenon DEF MayBeGone
  <2>2. HitInv /\ Len(order) <= maxSize
    BY DEF LocalInv
  <2>3. answer.op = "get" /\ answer.hit =>
            /\ answer.value = puts[answer.key].value
            /\ Age(answer.key) < puts[answer.key].ttlMs * TicksPerMs
    BY <2>2 DEF HitInv
  <2>4. \A k \in Keys :
            /\ puts[k] # None
            /\ Age(k) <= (puts[k].ttlMs - 1) * TicksPerMs
            /\ Cardinality(since[k]) < maxSize
            => Cached(k) /\ ~isStale(entries[k])
    BY <2>1
  <2> QED
    BY <2>2, <2>3, <2>4, Zenon DEF HitsAreExact
<1> QED
  BY <1>1, LocalStart, LocalStep, PTL DEF LocalSpec

-----------------------------------------------------------------------------
(* The payload envelope *)

\* What a writer stores inside the frame under policy c.
Enveloped(p, c) == IF c = Null THEN escapeRawPayload(p) ELSE compressPayload(p, c)

\* A prefixed byte string: its first byte, and the rest (subarray(1)).
LEMMA Prefixed ==
    ASSUME NEW b \in Nat, NEW s \in Seq(Nat)
    PROVE  /\ <<b>> \o s \in Seq(Nat)
           /\ <<b>> \o s # <<>>
           /\ Len(<<b>> \o s) = Len(s) + 1
           /\ (<<b>> \o s)[1] = b
           /\ s # <<>> => (<<b>> \o s)[2] = s[1]
           /\ Rest(<<b>> \o s) = s
<1> DEFINE t == <<b>> \o s
<1>1. t \in Seq(Nat) /\ Len(t) = Len(s) + 1
  OBVIOUS
<1>2. t[1] = b /\ \A i \in 1 .. Len(s) : t[i + 1] = s[i]
  BY SMTT(20)
<1>3. t # <<>>
  BY <1>1
<1>4. s # <<>> => t[2] = s[1]
  BY <1>2
<1>5. Rest(t) = s
  <2>1. Rest(t) \in Seq(Nat) /\ Len(Rest(t)) = Len(s)
    BY <1>1 DEF Rest
  <2>2. \A i \in 1 .. Len(s) : Rest(t)[i] = s[i]
    BY <1>1, <1>2 DEF Rest
  <2> QED
    BY <2>1, <2>2, SMTT(20)
<1> QED
  BY <1>1, <1>2, <1>3, <1>4, <1>5

\* Byte strings are sequences of numbers.
LEMMA ByteStringsAreNumbers ==
    ASSUME NEW s \in Seq(Bytes)
    PROVE  s \in Seq(Nat)
<1>1. /\ Len(s) \in Nat /\ s = [i \in 1 .. Len(s) |-> s[i]]
      /\ \A i \in 1 .. Len(s) : s[i] \in Nat
  BY PayloadAssumption
<1> QED
  BY <1>1

\* The escape is undone: decompressPayload strips exactly the prefixes that
\* escapeRawPayload adds, and leaves a payload it did not prefix alone.
LEMMA EscapeRestores ==
    ASSUME NEW p \in Payloads
    PROVE  /\ escapeRawPayload(p) \in AnyPayload
           /\ decompressPayload(escapeRawPayload(p)) = p
<1>1. p \in AnyPayload
  BY PayloadAssumption, ByteStringsAreNumbers DEF AnyPayload
<1>2. CASE p.kind = "buffer" /\ p.bytes # <<>> /\ p.bytes[1] <= 2
  <2> DEFINE t == <<0>> \o p.bytes
  <2>1. escapeRawPayload(p) = Buffer(t)
    BY <1>2 DEF escapeRawPayload, MARKER_ZSTD_BINARY, MARKER_ESCAPED_RAW
  <2>2. /\ t \in Seq(Nat) /\ t # <<>> /\ Len(t) = Len(p.bytes) + 1
        /\ t[1] = 0 /\ t[2] = p.bytes[1] /\ Rest(t) = p.bytes
    BY <1>1, <1>2, Prefixed DEF AnyPayload
  <2>3. Len(p.bytes) > 0
    BY <1>1, <1>2 DEF AnyPayload
  <2> HIDE DEF t
  <2>4. decompressPayload(Buffer(t)) = Buffer(p.bytes)
    BY <1>2, <2>2, <2>3 DEF decompressPayload, Buffer, MARKER_ESCAPED_RAW, MARKER_ZSTD_BINARY
  <2>5. Buffer(p.bytes) = p
    BY <1>1, <1>2 DEF Buffer, AnyPayload
  <2>6. Buffer(t) \in AnyPayload
    BY <2>2 DEF Buffer, AnyPayload
  <2> QED
    BY <2>1, <2>4, <2>5, <2>6
<1>3. CASE ~(p.kind = "buffer" /\ p.bytes # <<>> /\ p.bytes[1] <= 2)
  <2>1. escapeRawPayload(p) = p
    BY <1>3 DEF escapeRawPayload, MARKER_ZSTD_BINARY
  <2>2. CASE p.kind # "buffer" \/ p.bytes = <<>>
    BY <2>1, <2>2, <1>1 DEF decompressPayload
  <2>3. CASE p.kind = "buffer" /\ p.bytes # <<>>
    <3>1. p.bytes[1] \in Nat /\ p.bytes[1] > 2
      BY <1>1, <1>3, <2>3 DEF AnyPayload
    <3> QED
      BY <1>1, <2>1, <2>3, <3>1
      DEF decompressPayload, MARKER_ESCAPED_RAW, MARKER_ZSTD_UTF8, MARKER_ZSTD_BINARY
  <2> QED
    BY <2>2, <2>3
<1> QED
  BY <1>2, <1>3

\* Whichever policy wrote a payload, decompressPayload restores it.
LEMMA EnvelopeRestores ==
    ASSUME NEW p \in Payloads, NEW c
    PROVE  /\ Enveloped(p, c) \in AnyPayload
           /\ decompressPayload(Enveloped(p, c)) = p
<1> DEFINE marker == IF p.kind = "buffer" THEN 2 ELSE 1
           z == zstdCompressSync(p.bytes)
           marked == <<marker>> \o z
           raw == \/ Len(p.bytes) < c
                  \/ Len(p.bytes) > MAX_DECOMPRESSED_BYTES
                  \/ Len(marked) >= Len(escapeRawPayload(p).bytes)
<1>1. p \in AnyPayload
  BY PayloadAssumption, ByteStringsAreNumbers DEF AnyPayload
<1>2. CASE c = Null \/ raw
  <2>1. Enveloped(p, c) = escapeRawPayload(p)
    BY <1>2 DEF Enveloped, compressPayload, MARKER_ZSTD_BINARY, MARKER_ZSTD_UTF8
  <2> QED
    BY <2>1, EscapeRestores
<1>3. CASE c # Null /\ ~raw
  <2>1. Enveloped(p, c) = Buffer(marked)
    BY <1>3 DEF Enveloped, compressPayload, MARKER_ZSTD_BINARY, MARKER_ZSTD_UTF8
  <2>2. z \in Seq(Nat) /\ zstdDecompressSync(z) = p.bytes
    BY ZstdAssumption, ByteStringsAreNumbers
  <2>3. Len(p.bytes) <= MAX_DECOMPRESSED_BYTES
    BY <1>1, <1>3, PayloadAssumption DEF AnyPayload
  <2>4. marker \in {1, 2} /\ marker \in Nat
    OBVIOUS
  <2> HIDE DEF z
  <2>5. /\ marked \in Seq(Nat) /\ marked # <<>>
        /\ marked[1] = marker /\ Rest(marked) = z
    BY <2>2, <2>4, Prefixed
  <2> HIDE DEF marked
  <2>6. p.bytes # Failure
    BY <1>1, NullAssumption DEF AnyPayload
  <2>7. Decompressed(Buffer(marked)) = IF marker = 1 THEN String(p.bytes) ELSE Buffer(p.bytes)
    BY <1>1, <2>2, <2>3, <2>5, <2>6, PayloadAssumption
    DEF Decompressed, Buffer, MARKER_ZSTD_UTF8, AnyPayload
  <2>8. decompressPayload(Buffer(marked)) = Decompressed(Buffer(marked))
    BY <2>4, <2>5
    DEF decompressPayload, Buffer, MARKER_ESCAPED_RAW, MARKER_ZSTD_UTF8, MARKER_ZSTD_BINARY
  <2>9. (IF marker = 1 THEN String(p.bytes) ELSE Buffer(p.bytes)) = p
    BY <1>1 DEF String, Buffer, AnyPayload
  <2>10. Buffer(marked) \in AnyPayload
    BY <2>5 DEF Buffer, AnyPayload
  <2> QED
    BY <2>1, <2>7, <2>8, <2>9, <2>10
<1> QED
  BY <1>2, <1>3

\* A frame holds what was put into it: encodeRedisFrame's result is supported,
\* carries the stamp, and decodes to the payload with its kind.
LEMMA FrameRestores ==
    ASSUME NEW q \in AnyPayload, NEW t \in Nat
    PROVE  /\ encodeRedisFrame(q, t) \in Seq(Nat)
           /\ isSupportedRedisFrame(encodeRedisFrame(q, t))
           /\ encodeRedisFrame(q, t)[REDIS_FRAME_HEADER] = t
           /\ decodeRedisPayload(encodeRedisFrame(q, t)) = q
<1> DEFINE e == IF q.kind = "buffer" THEN 1 ELSE 0
           f == <<1, t, e>> \o q.bytes
<1>1. q.bytes \in Seq(Nat) /\ e \in Nat
  BY DEF AnyPayload
<1>2. encodeRedisFrame(q, t) = f
  BY DEF encodeRedisFrame, REDIS_FRAME_VERSION, REDIS_ENCODING_UTF8, REDIS_ENCODING_BINARY
<1>3. f \in Seq(Nat) /\ Len(f) = Len(q.bytes) + 3
  BY <1>1
<1>4. f[1] = 1 /\ f[2] = t /\ f[3] = e
  BY <1>1
<1>5. \A i \in 1 .. Len(q.bytes) : f[i + 3] = q.bytes[i]
  BY <1>1
<1> DEFINE r == SubSeq(f, 4, Len(f))
<1>6. r = q.bytes
  <2>1. r \in Seq(Nat) /\ Len(r) = Len(q.bytes)
    BY <1>1, <1>3
  <2>2. \A i \in 1 .. Len(q.bytes) : r[i] = q.bytes[i]
    BY <1>1, <1>3, <1>5
  <2> QED
    BY <1>1, <2>1, <2>2
<1>7. isSupportedRedisFrame(f)
  BY <1>1, <1>3, <1>4 DEF isSupportedRedisFrame, REDIS_FRAME_MIN, REDIS_FRAME_VERSION
<1> HIDE DEF f
<1>8. decodeRedisPayload(f) = IF e = 0 THEN String(q.bytes) ELSE Buffer(q.bytes)
  <2>1. f[REDIS_FRAME_HEADER + 1] = e
    BY <1>4 DEF REDIS_FRAME_HEADER
  <2>2. SubSeq(f, REDIS_FRAME_MIN + 1, Len(f)) = q.bytes
    BY <1>6 DEF REDIS_FRAME_MIN
  <2>3. e \in {REDIS_ENCODING_UTF8, REDIS_ENCODING_BINARY} /\ REDIS_ENCODING_UTF8 = 0
    BY DEF REDIS_ENCODING_UTF8, REDIS_ENCODING_BINARY
  <2> QED
    BY <2>1, <2>2, <2>3, Zenon DEF decodeRedisPayload
<1>9. decodeRedisPayload(f) = q
  BY <1>8 DEF String, Buffer, AnyPayload
<1> QED
  <2>1. f[REDIS_FRAME_HEADER] = t
    BY <1>4 DEF REDIS_FRAME_HEADER
  <2> QED
    BY <1>2, <1>3, <1>7, <1>9, <2>1

-----------------------------------------------------------------------------
\* The inductive invariant: a frame of DialCache's own is the frame of its
\* payload's envelope under one of the policies, and reads of it were exact.
IInv ==
    /\ EnvelopeTypes
    /\ written # Null =>
          \E c \in Thresholds \cup {Null} :
             stored = encodeRedisFrame(Enveloped(written.payload, c), written.createdAtMs)
    /\ ReadsAreExact

\* Nothing is stored at first.
LEMMA InitIInv == EnvelopeInit => IInv
BY DEF EnvelopeInit, IInv, EnvelopeTypes, ReadsAreExact

\* A read of an own frame undoes the frame, then the envelope.
LEMMA ReadIInv ==
    ASSUME IInv, Read
    PROVE  IInv'
<1>1. EnvelopeTypes' /\ written' = written /\ stored' = stored
  BY Zenon DEF IInv, EnvelopeTypes, Read
<1>2. ReadsAreExact'
  <2> SUFFICES ASSUME written # Null
               PROVE  reply' = [status |-> "frame", createdAtMs |-> written.createdAtMs,
                                payload |-> written.payload]
    BY <1>1 DEF ReadsAreExact
  <2>1. written.payload \in Payloads /\ written.createdAtMs \in Nat
    BY PayloadAssumption, Zenon DEF IInv, EnvelopeTypes
  <2>2. PICK c \in Thresholds \cup {Null} :
           stored = encodeRedisFrame(Enveloped(written.payload, c), written.createdAtMs)
    BY DEF IInv
  <2> DEFINE q == Enveloped(written.payload, c)
  <2>3. q \in AnyPayload /\ decompressPayload(q) = written.payload
    BY <2>1, EnvelopeRestores
  <2> HIDE DEF q
  <2>4. /\ stored \in Seq(Nat) /\ isSupportedRedisFrame(stored)
        /\ stored[REDIS_FRAME_HEADER] = written.createdAtMs
        /\ decodeRedisPayload(stored) = q
    BY <2>1, <2>2, <2>3, FrameRestores, Zenon DEF q
  <2>5. stored # Null /\ q # Failure
    BY <2>3, <2>4, NullAssumption
  <2> QED
    BY <2>3, <2>4, <2>5, Zenon DEF Read
<1> QED
  BY <1>1, <1>2 DEF IInv

\* Every step keeps the invariant: a write stores an envelope under the policy
\* in force and forgets the last reply, a foreign write forgets the payload.
LEMMA NextIInv == IInv /\ [EnvelopeNext]_envelopeVars => IInv'
<1> SUFFICES ASSUME IInv, [EnvelopeNext]_envelopeVars
             PROVE  IInv'
  OBVIOUS
<1>1. CASE Read
  BY <1>1, ReadIInv
<1>2. ASSUME NEW c \in Thresholds \cup {Null}, Reconfigure(c)
      PROVE  IInv'
  BY <1>2, Zenon DEF IInv, EnvelopeTypes, ReadsAreExact, Reconfigure
<1>3. ASSUME NEW p \in Payloads, NEW createdAtMs \in Stamps, Write(p, createdAtMs)
      PROVE  IInv'
  <2>1. stored' = encodeRedisFrame(Enveloped(p, compression), createdAtMs)
    BY <1>3 DEF Write, Enveloped
  <2>2. written' = [payload |-> p, createdAtMs |-> createdAtMs] /\ reply' = Null
    BY <1>3 DEF Write
  <2>3. compression' = compression /\ compression \in Thresholds \cup {Null}
    BY <1>3, Zenon DEF Write, IInv, EnvelopeTypes
  <2>4. EnvelopeTypes'
    BY <2>2, <2>3 DEF EnvelopeTypes
  <2> QED
    BY <2>1, <2>2, <2>3, <2>4, Zenon DEF IInv, ReadsAreExact
<1>4. ASSUME NEW frame \in ForeignFrames \cup {Null}, ForeignWrite(frame)
      PROVE  IInv'
  BY <1>4 DEF IInv, EnvelopeTypes, ReadsAreExact, ForeignWrite
<1>5. CASE UNCHANGED envelopeVars
  BY <1>5, Zenon DEF envelopeVars, IInv, EnvelopeTypes, ReadsAreExact
<1> QED
  BY <1>1, <1>2, <1>3, <1>4, <1>5 DEF EnvelopeNext

\* What DialCache writes it reads back exactly: payload, kind and stamp survive
\* the envelope and the frame for every payload, every compression policy of
\* the writer and every codec that restores what it compressed.
THEOREM Exactness == EnvelopeSpec => []ReadsAreExact
<1>1. IInv => ReadsAreExact
  BY DEF IInv
<1> QED
  BY <1>1, InitIInv, NextIInv, PTL DEF EnvelopeSpec
=============================================================================
