-------------------------- MODULE ServingChainProofs --------------------------
(* Proofs about the serving chain for any number of calls, scopes, configs and  *)
(* versions: typing, the process flight and its followers; and about the        *)
(* metrics adapters that count what it does.                                    *)
EXTENDS ServingChain, MetricsAdapters, FiniteSetTheorems, TLAPS

-----------------------------------------------------------------------------
(* Metrics: the tables *)

\* Both adapters pass on exactly the labels an event carries (prometheus.ts,
\* datadog.ts: the label and tag tables).
LEMMA LabelsOfEvents ==
    ASSUME NEW m \in Methods
    PROVE  labels(m) = eventLabels(m) /\ tags(m) = eventLabels(m)
BY DEF labels, tags, eventLabels, cacheLabels, keyLabels, outcomeLabels, Shadowed,
       cacheTags, outcomeTags

\* Every method has a collector, and no two methods share a collector or a
\* Datadog metric.
LEMMA NamesOfMethods ==
    ASSUME NEW m \in Methods
    PROVE  /\ collectorOf[m] \in CollectorNames
           /\ \A n \in Methods : collectorOf[m] = collectorOf[n] => m = n
           /\ \A n \in Methods : METRIC_SUFFIXES[m] = METRIC_SUFFIXES[n] => m = n
<1> USE DEF Methods, Counters, Observations
<1>1. collectorOf[m] \in CollectorNames
  <2> DEFINE Names == {"disabled_counter", "miss_counter", "request_counter", "error_counter",
                 "invalidation_counter", "coalesced_counter", "shadow_validation_counter",
                 "shadow_value_age_histogram", "shadow_mismatch_logging_counter",
                 "future_timestamp_offset_histogram", "stale_recovery_counter",
                 "stale_recovery_value_age_histogram", "compression_counter", "get_timer",
                 "fallback_timer", "serialization_timer", "size_histogram",
                 "stored_size_histogram", "compression_ratio_histogram", "compression_timer"}
  <2>1. CollectorNames = Names
    BY Zenon DEF CollectorNames, collectorConfigs
  <2>2. collectorOf[m] \in Names
    BY DEF collectorOf
  <2> QED BY <2>1, <2>2, Zenon
<1>2. ASSUME NEW n \in Methods, collectorOf[m] = collectorOf[n]
      PROVE  m = n
  BY <1>2 DEF collectorOf
<1>3. ASSUME NEW n \in Methods, METRIC_SUFFIXES[m] = METRIC_SUFFIXES[n]
      PROVE  m = n
  BY <1>3 DEF METRIC_SUFFIXES
<1> QED BY <1>1, <1>2, <1>3

\* The collector of a method declares every label the method passes on, and is
\* of the kind the method uses (prometheus.ts: collectorConfigs).
LEMMA CollectorsOfMethods ==
    ASSUME NEW m \in Methods
    PROVE  /\ labels(m) \subseteq collectorConfigs[collectorOf[m]].labelNames
           /\ collectorConfigs[collectorOf[m]].type =
                 IF m \in Counters THEN "counter" ELSE "histogram"
<1> USE DEF collectorOf, collectorConfigs, Counter, Histogram, labels, Counters, Shadowed
<1>1. CASE m \in {"request", "miss", "disabled", "error", "invalidation"}
  BY <1>1
<1>2. CASE m \in {"coalesced", "shadowValidation", "shadowMismatchLogging",
                  "staleRecovery", "compression"}
  BY <1>2
<1>3. CASE m \in {"observeShadowValueAge", "observeFutureTimestampOffset",
                  "observeStaleRecoveryValueAge", "observeGet", "observeFallback"}
  BY <1>3
<1>4. CASE m \in {"observeSerialization", "observeSize", "observeStoredSize",
                  "observeCompressionRatio", "observeCompression"}
  BY <1>4
<1> QED BY <1>1, <1>2, <1>3, <1>4, Zenon DEF Methods, Observations

-----------------------------------------------------------------------------
(* Metrics: the invariant *)

Adapters == {"prometheus", "datadog"} \X Prefixes
Events == {"prometheus", "datadog"} \X Prefixes \X Methods

\* The types of the shared registry and of the counts.
MetricsTypes ==
    /\ adapters \subseteq Adapters
    /\ DOMAIN sent \subseteq Events
    /\ \A e \in DOMAIN sent : sent[e] \in Nat
    /\ \A s \in DOMAIN counts : counts[s] \in Nat
    /\ DOMAIN registry \subseteq Prefixes \X CollectorNames

\* An accepted Prometheus adapter finds each of its collectors in the registry,
\* with the schema it asked for.
Collectors ==
    \A a \in adapters :
       a[1] = "prometheus" =>
          \A n \in CollectorNames : /\ <<a[2], n>> \in DOMAIN registry
                                    /\ registry[<<a[2], n>>] = collectorConfigs[n]

MetricsInv == MetricsTypes /\ Collectors /\ RegistryIsExact

\* The sample of an event determines the event.
LEMMA SamplesOfEvents ==
    ASSUME NEW e \in Events, NEW f \in Events, SampleOf(e) = SampleOf(f)
    PROVE  e = f
<1>1. /\ e = <<e[1], e[2], e[3]>> /\ f = <<f[1], f[2], f[3]>>
      /\ e[3] \in Methods /\ f[3] \in Methods
  BY DEF Events
<1>2. e[1] = f[1] /\ e[2] = f[2]
  BY DEF SampleOf
<1>3. CASE e[1] = "datadog"
  <2>1. METRIC_SUFFIXES[e[3]] = METRIC_SUFFIXES[f[3]]
    BY <1>2, <1>3 DEF SampleOf
  <2> QED BY <2>1, <1>1, <1>2, NamesOfMethods
<1>4. CASE e[1] # "datadog"
  <2>1. collectorOf[e[3]] = collectorOf[f[3]]
    BY <1>2, <1>4 DEF SampleOf
  <2> QED BY <2>1, <1>1, <1>2, NamesOfMethods
<1> QED BY <1>3, <1>4

\* An event through an accepted adapter preserves the invariant (safeMetrics,
\* callObserver, and the methods of both adapters).
LEMMA RecordStep ==
    ASSUME MetricsInv, NEW a \in adapters, NEW m \in Methods, NEW positive \in BOOLEAN,
           Record(a, m, positive)
    PROVE  MetricsInv'
<1> DEFINE e == <<a[1], a[2], m>>
<1>1. /\ a \in Adapters /\ a = <<a[1], a[2]>> /\ a[1] \in {"prometheus", "datadog"}
      /\ e \in Events
  BY DEF MetricsInv, MetricsTypes, Adapters, Events
<1>2. a[1] = "prometheus" => CounterAccepts(a[2], m)
  <2> SUFFICES ASSUME a[1] = "prometheus" PROVE CounterAccepts(a[2], m)
    OBVIOUS
  <2>1. registry[<<a[2], collectorOf[m]>>] = collectorConfigs[collectorOf[m]]
    BY NamesOfMethods DEF MetricsInv, Collectors
  <2> QED BY <2>1, CollectorsOfMethods DEF CounterAccepts
<1>3. SampleOf(e) =
        <<a[1], a[2], IF a[1] = "datadog" THEN <<METRIC_SUFFIXES[m], tags(m)>>
                      ELSE <<collectorOf[m], labels(m)>>>>
  BY LabelsOfEvents DEF SampleOf
<1>4. \/ sent' = sent /\ counts' = counts
      \/ sent' = Bump(sent, e) /\ counts' = Bump(counts, SampleOf(e))
  BY <1>1, <1>2, <1>3 DEF Record
<1>5. registry' = registry /\ foreign' = foreign /\ adapters' = adapters
  BY Zenon DEF Record
<1>6. CASE sent' = sent /\ counts' = counts
  BY <1>5, <1>6 DEF MetricsInv, MetricsTypes, Collectors, RegistryIsExact
<1>7. CASE sent' = Bump(sent, e) /\ counts' = Bump(counts, SampleOf(e))
  <2>0. /\ \A x \in DOMAIN sent : sent[x] \in Nat
        /\ \A x \in DOMAIN counts : counts[x] \in Nat
    BY DEF MetricsInv, MetricsTypes
  <2> HIDE DEF e
  <2>1. /\ DOMAIN sent' = DOMAIN sent \cup {e}
        /\ \A x \in DOMAIN sent' : sent'[x] \in Nat
        /\ \A x \in DOMAIN sent \ {e} : sent'[x] = sent[x]
        /\ sent'[e] = (IF e \in DOMAIN sent THEN sent[e] ELSE 0) + 1
    BY <1>7, <2>0 DEF Bump
  <2>2. /\ DOMAIN counts' = DOMAIN counts \cup {SampleOf(e)}
        /\ \A x \in DOMAIN counts' : counts'[x] \in Nat
        /\ \A x \in DOMAIN counts \ {SampleOf(e)} : counts'[x] = counts[x]
        /\ counts'[SampleOf(e)] =
              (IF SampleOf(e) \in DOMAIN counts THEN counts[SampleOf(e)] ELSE 0) + 1
    BY <1>7, <2>0 DEF Bump
  <2>3. /\ DOMAIN sent' \subseteq Events
        /\ DOMAIN counts = {SampleOf(f) : f \in DOMAIN sent}
        /\ \A f \in DOMAIN sent : counts[SampleOf(f)] = sent[f]
    BY <1>1, <2>1 DEF MetricsInv, MetricsTypes, RegistryIsExact
  <2>4. \A f, g \in DOMAIN sent' : SampleOf(f) = SampleOf(g) => f = g
    BY <2>3, SamplesOfEvents, Zenon
  <2>5. e \in DOMAIN sent <=> SampleOf(e) \in DOMAIN counts
    BY <2>1, <2>3, <2>4
  <2>6. DOMAIN counts' = {SampleOf(f) : f \in DOMAIN sent'}
    BY <2>1, <2>2, <2>3
  <2>7. ASSUME NEW f \in DOMAIN sent'
        PROVE  counts'[SampleOf(f)] = sent'[f]
    <3>1. CASE f = e
      BY <3>1, <2>1, <2>2, <2>3, <2>5
    <3>2. CASE f # e
      <4>1. f \in DOMAIN sent \ {e} /\ SampleOf(f) \in DOMAIN counts \ {SampleOf(e)}
        BY <3>2, <2>1, <2>3, <2>4
      <4> QED BY <4>1, <2>1, <2>2, <2>3
    <3> QED BY <3>1, <3>2
  <2>8. MetricsTypes'
    BY <2>1, <2>2, <2>3, <1>5, Zenon DEF MetricsInv, MetricsTypes
  <2>9. Collectors'
    BY <1>5, Zenon DEF MetricsInv, Collectors
  <2>10. RegistryIsExact'
    <3>1. \A f : SampleOf(f)' = SampleOf(f)
      BY Zenon DEF SampleOf
    <3> QED BY <3>1, <2>4, <2>6, <2>7, <1>5, Zenon DEF MetricsInv, RegistryIsExact
  <2> QED BY <2>8, <2>9, <2>10 DEF MetricsInv
<1> QED BY <1>4, <1>6, <1>7

\* Constructing a Prometheus adapter preserves the invariant (prometheus.ts:
\* validateExistingCollectors before the first collector is created).
LEMMA ConstructorStep ==
    ASSUME MetricsInv, NEW p \in Prefixes, constructor(p)
    PROVE  MetricsInv'
<1>1. UNCHANGED <<counts, foreign, sent>>
  BY DEF constructor
<1>2. CASE \A n \in CollectorNames : Compatible(p, n)
  <2>1. /\ registry' = WithCollectors(p, CollectorNames)
        /\ adapters' = adapters \cup {<<"prometheus", p>>}
    BY <1>2 DEF constructor
  <2>2. /\ DOMAIN registry' = DOMAIN registry \cup ({p} \X CollectorNames)
        /\ \A n \in DOMAIN registry : registry'[n] = registry[n]
        /\ \A n \in CollectorNames : registry'[<<p, n>>] = collectorConfigs[n]
    <3>1. DOMAIN registry' = DOMAIN registry \cup ({p} \X CollectorNames)
      BY <2>1 DEF WithCollectors
    <3>2. \A n \in DOMAIN registry : registry'[n] = registry[n]
      BY <2>1 DEF WithCollectors
    <3>3. ASSUME NEW n \in CollectorNames
          PROVE  registry'[<<p, n>>] = collectorConfigs[n]
      BY <2>1, <1>2 DEF WithCollectors, Compatible
    <3> QED BY <3>1, <3>2, <3>3
  <2>3. MetricsTypes'
    BY <2>1, <2>2, <1>1 DEF MetricsInv, MetricsTypes, Adapters
  <2>4. Collectors'
    <3> SUFFICES ASSUME NEW a \in adapters', a[1] = "prometheus", NEW n \in CollectorNames
                 PROVE  /\ <<a[2], n>> \in DOMAIN registry'
                        /\ registry'[<<a[2], n>>] = collectorConfigs[n]
      BY DEF Collectors
    <3>1. CASE a \in adapters
      BY <3>1, <2>2 DEF MetricsInv, Collectors
    <3>2. CASE a = <<"prometheus", p>>
      BY <3>2, <2>2
    <3> QED BY <3>1, <3>2, <2>1
  <2>5. RegistryIsExact'
    <3>1. \A f : SampleOf(f)' = SampleOf(f)
      BY DEF SampleOf
    <3>2. ASSUME NEW n \in DOMAIN registry'
          PROVE  n \in foreign' \/ <<"prometheus", n[1]>> \in adapters'
      BY <2>1, <2>2, <1>1, Zenon DEF MetricsInv, RegistryIsExact
    <3> QED BY <3>1, <3>2, <1>1, Zenon DEF MetricsInv, RegistryIsExact
  <2> QED BY <2>3, <2>4, <2>5 DEF MetricsInv
<1>3. CASE ~ \A n \in CollectorNames : Compatible(p, n)
  <2>1. UNCHANGED <<registry, adapters>>
    BY <1>3 DEF constructor
  <2> QED BY <2>1, <1>1, Zenon DEF MetricsInv, MetricsTypes, Collectors, RegistryIsExact, SampleOf
<1> QED BY <1>2, <1>3

\* A collector of the application preserves the invariant: it is registered only
\* under a name that is free, so that no adapter's collector changes.
LEMMA ForeignStep ==
    ASSUME MetricsInv, NEW p \in Prefixes, NEW n \in CollectorNames, NEW schema,
           ForeignCollector(p, n, schema)
    PROVE  MetricsInv'
<1>1. /\ <<p, n>> \notin DOMAIN registry
      /\ DOMAIN registry' = DOMAIN registry \cup {<<p, n>>}
      /\ \A k \in DOMAIN registry : registry'[k] = registry[k]
      /\ foreign' = foreign \cup {<<p, n>>} /\ UNCHANGED <<counts, adapters, sent>>
  <2> DEFINE key == <<p, n>>
  <2>1. /\ key \notin DOMAIN registry
        /\ registry' = [k \in DOMAIN registry \cup {key} |->
                           IF k = key THEN schema ELSE registry[k]]
        /\ foreign' = foreign \cup {key} /\ UNCHANGED <<counts, adapters, sent>>
    BY Zenon DEF ForeignCollector
  <2> HIDE DEF key
  <2>2. /\ DOMAIN registry' = DOMAIN registry \cup {key}
        /\ \A k \in DOMAIN registry : registry'[k] = registry[k]
    BY <2>1
  <2> QED BY <2>1, <2>2, Zenon DEF key
<1>2. MetricsTypes' /\ Collectors'
  BY <1>1 DEF MetricsInv, MetricsTypes, Collectors
<1>3. RegistryIsExact'
  <2>1. \A f : SampleOf(f)' = SampleOf(f)
    BY DEF SampleOf
  <2> QED BY <1>1, <2>1 DEF MetricsInv, RegistryIsExact
<1> QED BY <1>2, <1>3 DEF MetricsInv

\* MetricsInv is inductive.
THEOREM MetricsInvariant == MetricsSpec => []MetricsInv
<1>1. MetricsInit => MetricsInv
  BY Zenon DEF MetricsInit, MetricsInv, MetricsTypes, Collectors, RegistryIsExact, SampleOf
<1>2. MetricsInv /\ [MetricsNext]_metricsVars => MetricsInv'
  <2> SUFFICES ASSUME MetricsInv, [MetricsNext]_metricsVars PROVE MetricsInv'
    OBVIOUS
  <2>1. ASSUME NEW p \in Prefixes, NEW n \in CollectorNames, NEW schema,
               ForeignCollector(p, n, schema)
        PROVE  MetricsInv'
    BY <2>1, ForeignStep
  <2>2. ASSUME NEW p \in Prefixes, constructor(p)
        PROVE  MetricsInv'
    BY <2>2, ConstructorStep
  <2>3. ASSUME NEW p \in Prefixes, NEW o \in DatadogOptions, constructDatadog(p, o)
        PROVE  MetricsInv'
    <3>1. /\ UNCHANGED <<registry, counts, foreign, sent>>
          /\ adapters' \in {adapters, adapters \cup {<<"datadog", p>>}}
      BY <2>3 DEF constructDatadog
    <3>2. MetricsTypes' /\ Collectors'
      BY <3>1 DEF MetricsInv, MetricsTypes, Collectors, Adapters
    <3>3. RegistryIsExact'
      <4>1. \A f : SampleOf(f)' = SampleOf(f)
        BY DEF SampleOf
      <4> QED BY <3>1, <4>1 DEF MetricsInv, RegistryIsExact
    <3> QED BY <3>2, <3>3 DEF MetricsInv
  <2>4. ASSUME NEW a \in adapters, NEW m \in Methods, NEW positive \in BOOLEAN,
               Record(a, m, positive)
        PROVE  MetricsInv'
    BY <2>4, RecordStep
  <2>5. CASE UNCHANGED metricsVars
    BY <2>5, Zenon DEF metricsVars, MetricsInv, MetricsTypes, Collectors, RegistryIsExact, SampleOf
  <2> QED BY <2>1, <2>2, <2>3, <2>4, <2>5 DEF MetricsNext
<1> QED BY <1>1, <1>2, PTL DEF MetricsSpec

\* Every event that reaches a constructed adapter is recorded once, under a
\* metric of its own and with the labels it carries, and a refused adapter leaves
\* no collector behind (RegistryIsExact, prometheus.ts and datadog.ts).
THEOREM RegistryStaysExact == MetricsSpec => []RegistryIsExact
<1>1. MetricsInv => RegistryIsExact
  BY DEF MetricsInv
<1> QED BY <1>1, MetricsInvariant, PTL

-----------------------------------------------------------------------------
(* Typing *)

\* A call has no config before its provider has answered, a waiting call waits for
\* a call, a loader that has fulfilled has loaded a version, and the instance's
\* gauge is the flight's count, zero without a flight.
Shape ==
    /\ \A c \in Calls :
          /\ pc[c] \in {"idle", "config"} => config[c] = NoConfig
          /\ pc[c] \in {"wait", "rlwait"} => joined[c] \in Calls
          /\ pc[c] = "loaded" => result[c] \in Versions
    /\ activeProcessFollowers = followers
    /\ flight = None => followers = 0

\* The initial state of the instance is typed.
LEMMA TypingInit == Init => TypeOK /\ Shape
BY ServingChainAssumption
DEF Init, TypeOK, Shape, NoConfig, KeyConfigs, RemoteStates, Plans, Values, Versions

\* Every step between two awaits keeps the types.
LEMMA TypingStep == TypeOK /\ Shape /\ [Next]_vars => TypeOK' /\ Shape'
<1>. SUFFICES ASSUME TypeOK, Shape, [Next]_vars PROVE TypeOK' /\ Shape'
  OBVIOUS
<1>. USE ServingChainAssumption DEF TypeOK, Shape, Values, Versions, scopeVars,
   chainVars,
                                   callVars
<1>1. CASE Mutate
  BY <1>1 DEF Mutate
<1>2. CASE RedisChanges
  BY <1>2 DEF RedisChanges
<1>3. CASE LocalExpires
  BY <1>3 DEF LocalExpires
<1>4. ASSUME NEW s \in Scopes, CloseScope(s) PROVE TypeOK' /\ Shape'
  BY <1>4 DEF CloseScope
<1>5. ASSUME NEW c \in Calls, NEW s \in Scopes \cup {None}, Start(c, s)
       PROVE TypeOK' /\ Shape'
  BY <1>5 DEF Start
<1>6. ASSUME NEW c \in Calls, ConfigFails(c) PROVE TypeOK' /\ Shape'
  BY <1>6 DEF ConfigFails
<1>7. ASSUME NEW c \in Calls, PassThrough(c) PROVE TypeOK' /\ Shape'
  BY <1>7 DEF PassThrough
<1>8. ASSUME NEW c \in Calls, NEW k \in Configs, ResolveShared(c, k)
       PROVE TypeOK' /\ Shape'
  BY <1>8 DEF ResolveShared
<1>9. ASSUME NEW c \in Calls, NEW k \in Configs, JoinRequestFlight(c, k)
       PROVE TypeOK' /\ Shape'
  <2>1. scope[c] \in Scopes /\ k \in KeyConfigs
    BY <1>9 DEF JoinRequestFlight, isEnabled
  <2>. QED
    BY <1>9, <2>1 DEF JoinRequestFlight
<1>10. ASSUME NEW c \in Calls, NEW k \in Configs, RunRequestLocal(c, k)
       PROVE TypeOK' /\ Shape'
  <2>1. scope[c] \in Scopes /\ k \in KeyConfigs
    BY <1>10 DEF RunRequestLocal, isEnabled
  <2>. QED
    BY <1>10, <2>1 DEF RunRequestLocal
<1>11. ASSUME NEW c \in Calls, SkipShared(c) PROVE TypeOK' /\ Shape'
  BY <1>11 DEF SkipShared
<1>12. ASSUME NEW c \in Calls, JoinFlight(c) PROVE TypeOK' /\ Shape'
  BY <1>12 DEF JoinFlight
<1>13. ASSUME NEW c \in Calls, RunShared(c) PROVE TypeOK' /\ Shape'
  <2>1. localPlan(c) \in Plans
    BY DEF localPlan, Plans
  <2>. QED
    BY <1>13, <2>1 DEF RunShared
<1>14. ASSUME NEW c \in Calls, ReadHit(c) PROVE TypeOK' /\ Shape'
  BY <1>14 DEF ReadHit
<1>15. ASSUME NEW c \in Calls, ReadMiss(c) PROVE TypeOK' /\ Shape'
  BY <1>15 DEF ReadMiss, Plans
<1>16. ASSUME NEW c \in Calls, ReadFails(c) PROVE TypeOK' /\ Shape'
  BY <1>16 DEF ReadFails, Plans
<1>17. ASSUME NEW c \in Calls, LoadSource(c) PROVE TypeOK' /\ Shape'
  BY <1>17 DEF LoadSource
<1>18. ASSUME NEW c \in Calls, LoadFails(c) PROVE TypeOK' /\ Shape'
  BY <1>18 DEF LoadFails
<1>19. ASSUME NEW c \in Calls, FulfilWithoutWrite(c) PROVE TypeOK' /\ Shape'
  BY <1>19 DEF FulfilWithoutWrite
<1>20. ASSUME NEW c \in Calls, FulfilWithWrite(c) PROVE TypeOK' /\ Shape'
  BY <1>20 DEF FulfilWithWrite
<1>21. ASSUME NEW c \in Calls, ClearFlight(c) PROVE TypeOK' /\ Shape'
  BY <1>21 DEF ClearFlight
<1>22. ASSUME NEW c \in Calls, WakeFollower(c) PROVE TypeOK' /\ Shape'
  BY <1>22 DEF WakeFollower
<1>23. ASSUME NEW c \in Calls, ReturnInner(c) PROVE TypeOK' /\ Shape'
  BY <1>23, Zenon DEF ReturnInner
<1>24. ASSUME NEW c \in Calls, ClearRequestFlight(c) PROVE TypeOK' /\ Shape'
  BY <1>24, Zenon DEF ClearRequestFlight
<1>25. ASSUME NEW c \in Calls, WakeRequestFollower(c) PROVE TypeOK' /\ Shape'
  BY <1>25 DEF WakeRequestFollower
<1>26. ASSUME NEW c \in Calls, ReturnOuter(c) PROVE TypeOK' /\ Shape'
  BY <1>26 DEF ReturnOuter
<1>27. CASE UNCHANGED vars
  BY <1>27 DEF vars
<1>. QED
  BY <1>1, <1>2, <1>3, <1>4, <1>5, <1>6, <1>7, <1>8, <1>9, <1>10, <1>11, <1>12, <1>13,
     <1>14, <1>15, <1>16, <1>17, <1>18, <1>19, <1>20, <1>21, <1>22, <1>23, <1>24,
     <1>25, <1>26, <1>27, Zenon
  DEF Next, CallNext

\* Every variable of the serving chain keeps its type.
THEOREM ServingTyping == Spec => [](TypeOK /\ Shape)
BY TypingInit, TypingStep, PTL DEF Spec

-----------------------------------------------------------------------------
(* Closed scopes *)

\* Once a scope's callback has settled, work it left behind neither finds nor leaves
\* anything in its request-local cache (context.ts, RequestLocalCache.close).
THEOREM ClosedScopes == Spec => []ClosedScopeStaysEmpty
<1>a. Init => ClosedScopeStaysEmpty
  BY DEF Init, ClosedScopeStaysEmpty
<1>b. ASSUME TypeOK, ClosedScopeStaysEmpty, [Next]_vars PROVE ClosedScopeStaysEmpty'
  <2>1. ASSUME NEW s \in Scopes, CloseScope(s) PROVE ClosedScopeStaysEmpty'
    BY <2>1, <1>b DEF CloseScope, ClosedScopeStaysEmpty, TypeOK
  <2>2. ASSUME NEW c \in Calls, NEW k \in Configs, RunRequestLocal(c, k)
        PROVE ClosedScopeStaysEmpty'
    BY <2>2, <1>b DEF RunRequestLocal, isEnabled, ClosedScopeStaysEmpty, TypeOK
  <2>3. ASSUME NEW c \in Calls, ReturnInner(c) PROVE ClosedScopeStaysEmpty'
    BY <2>3, <1>b DEF ReturnInner, ClosedScopeStaysEmpty, TypeOK
  <2>4. ASSUME NEW c \in Calls, ClearRequestFlight(c) PROVE ClosedScopeStaysEmpty'
    BY <2>4, <1>b DEF ClearRequestFlight, ClosedScopeStaysEmpty, TypeOK
  <2>5. ASSUME NEW c \in Calls, CallNext(c), ~ReturnInner(c), ~ClearRequestFlight(c),
               \A k \in Configs : ~RunRequestLocal(c, k)
        PROVE  UNCHANGED scopeVars
    BY <2>5, Zenon
    DEF CallNext, ConfigFails, PassThrough, ResolveShared, JoinRequestFlight,
        SkipShared, JoinFlight, RunShared, ReadHit, ReadMiss, ReadFails, LoadSource,
        LoadFails, FulfilWithoutWrite, FulfilWithWrite, ClearFlight, WakeFollower,
        WakeRequestFollower, ReturnOuter
  <2>6. ASSUME \/ Mutate \/ RedisChanges \/ LocalExpires \/ UNCHANGED vars
               \/ \E c \in Calls, s \in Scopes \cup {None} : Start(c, s)
        PROVE  UNCHANGED scopeVars
    BY <2>6 DEF Mutate, RedisChanges, LocalExpires, Start, vars
  <2>7. CASE UNCHANGED scopeVars
    BY <2>7, <1>b DEF scopeVars, ClosedScopeStaysEmpty
  <2>. QED
    BY <2>1, <2>2, <2>3, <2>4, <2>5, <2>6, <2>7, <1>b DEF Next
<1>. QED
  BY <1>a, <1>b, ServingTyping, PTL DEF Spec

-----------------------------------------------------------------------------
(* The process flight *)

\* Where a call may be.
Places == {"idle", "config", "rlwait", "shared", "wait", "read", "load", "loaded",
           "inner", "outer", "done"}

\* The flight's leader is in the chain; a follower's leader has run; and a coalescing
\* call in the chain leads the flight.
Flights ==
    /\ flight # None => pc[flight] \in {"read", "load", "loaded", "inner"}
    /\ \A c \in Calls :
          /\ pc[c] = "wait" =>
                pc[joined[c]] \in {"read", "load", "loaded", "inner", "outer", "done"}
          /\ /\ config[c].coalesce /\ hasActiveLayer(c)
             /\ pc[c] \in {"read", "load", "loaded"}
             => flight = c

\* No call is in the chain at first, and no flight exists.
LEMMA FlightsInit == Init => Flights
BY DEF Init, Flights

\* Every step keeps the flight with its leader.
LEMMA FlightsStep ==
    TypeOK /\ Shape /\ Flights /\ [Next]_vars => Flights'
<1>. SUFFICES ASSUME TypeOK, Shape, Flights, [Next]_vars PROVE Flights'
  OBVIOUS
<1>. USE ServingChainAssumption
<1>t. /\ flight \in Calls \cup {None} /\ pc \in [Calls -> Places]
      /\ joined \in [Calls -> Calls \cup {None}] /\ config \in [Calls -> KeyConfigs]
  BY DEF TypeOK, Places
<1>1. CASE Mutate
  BY <1>t, <1>1
  DEF Mutate, hasActiveLayer, readsRemote, Shape, Flights, scopeVars,
      chainVars, callVars
<1>2. CASE RedisChanges
  BY <1>t, <1>2
  DEF RedisChanges, hasActiveLayer, readsRemote, Shape, Flights, scopeVars,
      chainVars, callVars
<1>3. CASE LocalExpires
  BY <1>t, <1>3
  DEF LocalExpires, hasActiveLayer, readsRemote, Shape, Flights, scopeVars,
      chainVars, callVars
<1>4. ASSUME NEW s \in Scopes, CloseScope(s) PROVE Flights'
  BY <1>t, <1>4
  DEF CloseScope, hasActiveLayer, readsRemote, Shape, Flights, scopeVars,
      chainVars, callVars
<1>5. ASSUME NEW c \in Calls, NEW s \in Scopes \cup {None}, Start(c, s)
       PROVE Flights'
  BY <1>t, <1>5
  DEF Start, NoConfig, hasActiveLayer, readsRemote, Shape, Flights, scopeVars,
      chainVars, callVars
<1>6. ASSUME NEW c \in Calls, ConfigFails(c) PROVE Flights'
  BY <1>t, <1>6
  DEF ConfigFails, NoConfig, hasActiveLayer, readsRemote, Shape, Flights,
      scopeVars, chainVars, callVars
<1>7. ASSUME NEW c \in Calls, PassThrough(c) PROVE Flights'
  BY <1>t, <1>7
  DEF PassThrough, NoConfig, hasActiveLayer, readsRemote, Shape, Flights,
      scopeVars, chainVars, callVars
<1>8. ASSUME NEW c \in Calls, NEW k \in Configs, ResolveShared(c, k)
       PROVE Flights'
  BY <1>t, <1>8
  DEF ResolveShared, hasActiveLayer, readsRemote, Shape, Flights, scopeVars,
      chainVars, callVars
<1>9. ASSUME NEW c \in Calls, NEW k \in Configs, JoinRequestFlight(c, k)
       PROVE Flights'
  BY <1>t, <1>9
  DEF JoinRequestFlight, hasActiveLayer, readsRemote, Shape, Flights,
      scopeVars, chainVars, callVars
<1>10. ASSUME NEW c \in Calls, NEW k \in Configs, RunRequestLocal(c, k)
       PROVE Flights'
  BY <1>t, <1>10, Zenon
  DEF RunRequestLocal, hasActiveLayer, readsRemote, Shape, Flights, scopeVars,
      chainVars, callVars
<1>11. ASSUME NEW c \in Calls, SkipShared(c) PROVE Flights'
  BY <1>t, <1>11
  DEF SkipShared, hasActiveLayer, readsRemote, Shape, Flights, scopeVars,
      chainVars, callVars
<1>12. ASSUME NEW c \in Calls, JoinFlight(c) PROVE Flights'
  BY <1>t, <1>12
  DEF JoinFlight, hasActiveLayer, readsRemote, Shape, Flights, scopeVars,
      chainVars, callVars
<1>13. ASSUME NEW c \in Calls, RunShared(c) PROVE Flights'
  BY <1>t, <1>13
  DEF RunShared, hasActiveLayer, readsRemote, Shape, Flights, scopeVars,
      chainVars, callVars
<1>14. ASSUME NEW c \in Calls, ReadHit(c) PROVE Flights'
  BY <1>t, <1>14
  DEF ReadHit, hasActiveLayer, readsRemote, Shape, Flights, scopeVars,
      chainVars, callVars
<1>15. ASSUME NEW c \in Calls, ReadMiss(c) PROVE Flights'
  BY <1>t, <1>15
  DEF ReadMiss, hasActiveLayer, readsRemote, Shape, Flights, scopeVars,
      chainVars, callVars
<1>16. ASSUME NEW c \in Calls, ReadFails(c) PROVE Flights'
  BY <1>t, <1>16
  DEF ReadFails, hasActiveLayer, readsRemote, Shape, Flights, scopeVars,
      chainVars, callVars
<1>17. ASSUME NEW c \in Calls, LoadSource(c) PROVE Flights'
  BY <1>t, <1>17
  DEF LoadSource, hasActiveLayer, readsRemote, Shape, Flights, scopeVars,
      chainVars, callVars
<1>18. ASSUME NEW c \in Calls, LoadFails(c) PROVE Flights'
  BY <1>t, <1>18
  DEF LoadFails, hasActiveLayer, readsRemote, Shape, Flights, scopeVars,
      chainVars, callVars
<1>19. ASSUME NEW c \in Calls, FulfilWithoutWrite(c) PROVE Flights'
  BY <1>t, <1>19
  DEF FulfilWithoutWrite, hasActiveLayer, readsRemote, Shape, Flights,
      scopeVars, chainVars, callVars
<1>20. ASSUME NEW c \in Calls, FulfilWithWrite(c) PROVE Flights'
  BY <1>t, <1>20
  DEF FulfilWithWrite, hasActiveLayer, readsRemote, Shape, Flights, scopeVars,
      chainVars, callVars
<1>21. ASSUME NEW c \in Calls, ClearFlight(c) PROVE Flights'
  BY <1>t, <1>21
  DEF ClearFlight, hasActiveLayer, readsRemote, Shape, Flights, scopeVars,
      chainVars, callVars
<1>22. ASSUME NEW c \in Calls, WakeFollower(c) PROVE Flights'
  BY <1>t, <1>22
  DEF WakeFollower, hasActiveLayer, readsRemote, Shape, Flights, scopeVars,
      chainVars, callVars
<1>23. ASSUME NEW c \in Calls, ReturnInner(c) PROVE Flights'
  BY <1>t, <1>23
  DEF ReturnInner, hasActiveLayer, readsRemote, Shape, Flights, scopeVars,
      chainVars, callVars
<1>24. ASSUME NEW c \in Calls, ClearRequestFlight(c) PROVE Flights'
  BY <1>t, <1>24
  DEF ClearRequestFlight, hasActiveLayer, readsRemote, Shape, Flights,
      scopeVars, chainVars, callVars
<1>25. ASSUME NEW c \in Calls, WakeRequestFollower(c) PROVE Flights'
  BY <1>t, <1>25
  DEF WakeRequestFollower, hasActiveLayer, readsRemote, Shape, Flights,
      scopeVars, chainVars, callVars
<1>26. ASSUME NEW c \in Calls, ReturnOuter(c) PROVE Flights'
  BY <1>t, <1>26
  DEF ReturnOuter, hasActiveLayer, readsRemote, Shape, Flights, scopeVars,
      chainVars, callVars
<1>27. CASE UNCHANGED vars
  BY <1>t, <1>27
  DEF vars, hasActiveLayer, readsRemote, Shape, Flights, scopeVars, chainVars,
      callVars
<1>. QED
  BY <1>1, <1>2, <1>3, <1>4, <1>5, <1>6, <1>7, <1>8, <1>9, <1>10, <1>11, <1>12, <1>13,
     <1>14, <1>15, <1>16, <1>17, <1>18, <1>19, <1>20, <1>21, <1>22, <1>23, <1>24,
     <1>25, <1>26, <1>27
  DEF Next, CallNext

\* The flight's invariant holds throughout.
LEMMA FlightsHold == Spec => []Flights
BY FlightsInit, FlightsStep, ServingTyping, PTL DEF Spec

\* Calls that coalesce through an active shared layer share one execution
\* (dialcache.ts, singleFlightProcess): no two are in the chain at once.
THEOREM SharedRuns == Spec => []CoalescedRunIsShared
<1>1. Flights => CoalescedRunIsShared
  BY DEF Flights, CoalescedRunIsShared
<1>. QED
  BY <1>1, FlightsHold, PTL

-----------------------------------------------------------------------------
(* Followers *)

\* The calls that await the current flight.
Waiting == {c \in Calls : pc[c] = "wait" /\ joined[c] = flight}
Counted == followers = Cardinality(Waiting)

\* The waiting calls can be counted, as the calls are finitely many.
LEMMA WaitingIsFinite == IsFiniteSet(Waiting)
BY ServingChainAssumption, FS_Subset DEF Waiting

\* Every step keeps the follower count equal to the number of waiting calls.
LEMMA CountStep ==
    TypeOK /\ Shape /\ Flights /\ Counted /\ [Next]_vars => Counted'
<1>. SUFFICES ASSUME TypeOK, Shape, Flights, followers = Cardinality(Waiting), [Next]_vars
              PROVE  followers' = Cardinality(Waiting')
  BY DEF Counted
<1>. USE ServingChainAssumption
<1>t. /\ flight \in Calls \cup {None} /\ followers \in Nat
      /\ pc \in [Calls -> Places] /\ joined \in [Calls -> Calls \cup {None}]
  BY DEF TypeOK, Places
<1>1. ASSUME Mutate \/ RedisChanges \/ LocalExpires \/ UNCHANGED vars
       PROVE Waiting' = Waiting /\ followers' = followers
  <2>1. UNCHANGED <<pc, joined, flight, followers>>
    BY <1>1, Zenon DEF Mutate, RedisChanges, LocalExpires, vars, scopeVars, chainVars, callVars
  <2> QED
    BY <2>1, Zenon DEF Waiting
<1>2. ASSUME NEW s \in Scopes, CloseScope(s)
       PROVE Waiting' = Waiting /\ followers' = followers
  BY <1>t, <1>2, Zenon
  DEF CloseScope, Waiting, scopeVars, chainVars, callVars
<1>3. ASSUME NEW c \in Calls, NEW s \in Scopes \cup {None}, Start(c, s)
       PROVE Waiting' = Waiting /\ followers' = followers
  BY <1>t, <1>3 DEF Start, Waiting, scopeVars, chainVars, callVars
<1>4. ASSUME NEW c \in Calls, ConfigFails(c) \/ PassThrough(c)
       PROVE Waiting' = Waiting /\ followers' = followers
  BY <1>t, <1>4
  DEF ConfigFails, PassThrough, Waiting, scopeVars, chainVars,
      callVars
<1>5. ASSUME NEW c \in Calls, NEW k \in Configs, ResolveShared(c, k)
       PROVE Waiting' = Waiting /\ followers' = followers
  BY <1>t, <1>5
  DEF ResolveShared, Waiting, scopeVars, chainVars, callVars
<1>6. ASSUME NEW c \in Calls, NEW k \in Configs, JoinRequestFlight(c, k)
       PROVE Waiting' = Waiting /\ followers' = followers
  BY <1>t, <1>6
  DEF JoinRequestFlight, Waiting, scopeVars, chainVars,
      callVars
<1>7. ASSUME NEW c \in Calls, NEW k \in Configs, RunRequestLocal(c, k)
       PROVE Waiting' = Waiting /\ followers' = followers
  BY <1>t, <1>7
  DEF RunRequestLocal, Waiting, scopeVars, chainVars, callVars
<1>8. ASSUME NEW c \in Calls, SkipShared(c)
       PROVE Waiting' = Waiting /\ followers' = followers
  BY <1>t, <1>8, Zenon
  DEF SkipShared, Waiting, scopeVars, chainVars, callVars
<1>9. ASSUME NEW c \in Calls, JoinFlight(c) PROVE followers' = Cardinality(Waiting')
  <2>1. Waiting' = Waiting \cup {c} /\ c \notin Waiting
    BY <1>t, <1>9
    DEF JoinFlight, Waiting, Shape, Flights, scopeVars, chainVars, callVars
  <2>. QED
    BY <1>t, <1>9, <2>1, WaitingIsFinite, FS_AddElement, FS_CardinalityType, Zenon DEF JoinFlight
<1>10. ASSUME NEW c \in Calls, RunShared(c) PROVE followers' = Cardinality(Waiting')
  <2>1. CASE config[c].coalesce
    <3>1. Waiting' = {} /\ followers' = 0
      BY <1>t, <1>10, <2>1
      DEF RunShared, Waiting, Shape, Flights, scopeVars, chainVars,
          callVars
    <3>. QED
      BY <3>1, FS_EmptySet
  <2>2. CASE ~config[c].coalesce
    <3>1. Waiting' = Waiting /\ followers' = followers
      BY <1>t, <1>10, <2>2
      DEF RunShared, Waiting, Shape, Flights, scopeVars, chainVars,
          callVars
    <3>. QED
      BY <3>1
  <2>. QED
    BY <2>1, <2>2
<1>11. ASSUME NEW c \in Calls, ReadHit(c)
       PROVE Waiting' = Waiting /\ followers' = followers
  BY <1>t, <1>11, Zenon DEF ReadHit, Waiting, scopeVars, chainVars, callVars
<1>12. ASSUME NEW c \in Calls, ReadMiss(c)
       PROVE Waiting' = Waiting /\ followers' = followers
  BY <1>t, <1>12, Zenon DEF ReadMiss, Waiting, scopeVars, chainVars, callVars
<1>13. ASSUME NEW c \in Calls, ReadFails(c)
       PROVE Waiting' = Waiting /\ followers' = followers
  BY <1>t, <1>13, Zenon
  DEF ReadFails, Waiting, scopeVars, chainVars, callVars
<1>14. ASSUME NEW c \in Calls, LoadSource(c)
       PROVE Waiting' = Waiting /\ followers' = followers
  BY <1>t, <1>14, Zenon
  DEF LoadSource, Waiting, scopeVars, chainVars, callVars
<1>15. ASSUME NEW c \in Calls, LoadFails(c)
       PROVE Waiting' = Waiting /\ followers' = followers
  BY <1>t, <1>15, Zenon
  DEF LoadFails, Waiting, scopeVars, chainVars, callVars
<1>16. ASSUME NEW c \in Calls, FulfilWithoutWrite(c) \/ FulfilWithWrite(c)
       PROVE Waiting' = Waiting /\ followers' = followers
  BY <1>t, <1>16
  DEF FulfilWithoutWrite, FulfilWithWrite, Waiting, scopeVars,
      chainVars, callVars
<1>17. ASSUME NEW c \in Calls, ClearFlight(c) PROVE followers' = Cardinality(Waiting')
  <2>1. Waiting' = {} /\ followers' = 0
    BY <1>t, <1>17
    DEF ClearFlight, Waiting, Shape, Flights, scopeVars, chainVars, callVars
  <2>. QED
    BY <2>1, FS_EmptySet
<1>18. ASSUME NEW c \in Calls, WakeFollower(c)
       PROVE Waiting' = Waiting /\ followers' = followers
  BY <1>t, <1>18
  DEF WakeFollower, Waiting, Shape, Flights, scopeVars, chainVars, callVars
<1>19. ASSUME NEW c \in Calls, ReturnInner(c)
       PROVE Waiting' = Waiting /\ followers' = followers
  BY <1>t, <1>19, Zenon
  DEF ReturnInner, Waiting, scopeVars, chainVars, callVars
<1>20. ASSUME NEW c \in Calls, ClearRequestFlight(c)
       PROVE Waiting' = Waiting /\ followers' = followers
  BY <1>t, <1>20
  DEF ClearRequestFlight, Waiting, scopeVars, chainVars,
      callVars
<1>21. ASSUME NEW c \in Calls, WakeRequestFollower(c)
       PROVE Waiting' = Waiting /\ followers' = followers
  BY <1>t, <1>21
  DEF WakeRequestFollower, Waiting, scopeVars, chainVars,
      callVars
<1>22. ASSUME NEW c \in Calls, ReturnOuter(c)
       PROVE Waiting' = Waiting /\ followers' = followers
  BY <1>t, <1>22
  DEF ReturnOuter, Waiting, scopeVars, chainVars, callVars
<1>. QED
  BY <1>1, <1>2, <1>3, <1>4, <1>5, <1>6, <1>7, <1>8, <1>9, <1>10, <1>11, <1>12, <1>13,
     <1>14, <1>15, <1>16, <1>17, <1>18, <1>19, <1>20, <1>21, <1>22
  DEF Next, CallNext

\* getCoalescingState is exact (dialcache.ts): the flight's follower count is the
\* number of calls awaiting it, and so is the instance's gauge.
THEOREM FollowersExact == Spec => []FollowersAreCounted
<1>1. Init => Counted
  <2>. SUFFICES ASSUME Init PROVE followers = Cardinality(Waiting)
    BY DEF Counted
  <2>1. Waiting = {} /\ followers = 0
    BY DEF Init, Waiting
  <2>. QED
    BY <2>1, FS_EmptySet
<1>2. Shape /\ Counted => FollowersAreCounted
  BY DEF Shape, Counted, Waiting, FollowersAreCounted
<1>. QED
  BY <1>1, <1>2, CountStep, FlightsHold, ServingTyping, PTL DEF Spec


-----------------------------------------------------------------------------
(* The request-local memo *)

\* Where every config coalesces, a call that will memoize its value leads its open
\* scope's flight, and nothing has been memoized there yet.
Memoized ==
    /\ \A c \in Calls : config[c].requestLocal => scope[c] \in Scopes
    /\ (\A k \in Configs : k.coalesce) =>
          \A c \in Calls :
             /\ config[c].requestLocal /\ scope[c] \notin closed
             /\ pc[c] \in {"shared", "wait", "read", "load", "loaded", "inner"}
             => inFlight[scope[c]] = c /\ memo[scope[c]] = None

\* At first no call has a config, and so none memoizes.
LEMMA MemoizedInit == Init => Memoized
BY DEF Init, Memoized, NoConfig

\* Every step keeps the memo with the request's leader.
LEMMA MemoizedStep == TypeOK /\ Shape /\ Memoized /\ [Next]_vars => Memoized'
<1>. SUFFICES ASSUME TypeOK, Shape, Memoized, [Next]_vars PROVE Memoized'
  OBVIOUS
<1>. USE ServingChainAssumption
<1>t. /\ closed \subseteq Scopes /\ memo \in [Scopes -> Values]
      /\ inFlight \in [Scopes -> Calls \cup {None}]
      /\ pc \in [Calls -> Places] /\ scope \in [Calls -> Scopes \cup {None}]
      /\ config \in [Calls -> KeyConfigs]
  BY Zenon DEF TypeOK, Places
<1>1. ASSUME Mutate \/ RedisChanges \/ LocalExpires \/ UNCHANGED vars PROVE Memoized'
  BY <1>t, <1>1, Zenon
  DEF Mutate, RedisChanges, LocalExpires, vars, Memoized, scopeVars,
      chainVars, callVars
<1>2. ASSUME NEW s \in Scopes, CloseScope(s) PROVE Memoized'
  BY <1>t, <1>2, Zenon DEF CloseScope, Memoized, scopeVars, chainVars, callVars
<1>3. ASSUME NEW c \in Calls, NEW s \in Scopes \cup {None}, Start(c, s)
       PROVE Memoized'
  <2>1. ~config[c].requestLocal
    BY <1>t, <1>3 DEF Start, Shape, NoConfig
  <2>2. /\ \A d \in Calls \ {c} : pc'[d] = pc[d] /\ scope'[d] = scope[d]
        /\ UNCHANGED <<closed, memo, inFlight, config>>
    BY <1>t, <1>3, Zenon DEF Start, scopeVars
  <2>. QED  BY <2>1, <2>2, Zenon DEF Memoized
<1>4. ASSUME NEW c \in Calls, ConfigFails(c) \/ PassThrough(c) PROVE Memoized'
  <2>1. ~config[c].requestLocal
    BY <1>t, <1>4 DEF ConfigFails, PassThrough, Shape, NoConfig
  <2>2. /\ \A d \in Calls \ {c} : pc'[d] = pc[d]
        /\ UNCHANGED <<closed, memo, inFlight, config, scope>>
    BY <1>t, <1>4, Zenon DEF ConfigFails, PassThrough, scopeVars
  <2>. QED  BY <2>1, <2>2, Zenon DEF Memoized
<1>5. ASSUME NEW c \in Calls, NEW k \in Configs, ResolveShared(c, k) PROVE Memoized'
  <2>1. scope[c] \in Scopes /\ scope[c] \notin closed /\ k \in KeyConfigs
    BY <1>t, <1>5, Zenon DEF ResolveShared, isEnabled, TypeOK
  <2>. QED
    BY <1>t, <1>5, <2>1, Zenon
    DEF ResolveShared, Memoized, scopeVars, chainVars, callVars
<1>6. ASSUME NEW c \in Calls, NEW k \in Configs, JoinRequestFlight(c, k)
       PROVE Memoized'
  <2>1. scope[c] \in Scopes /\ scope[c] \notin closed /\ k \in KeyConfigs
    BY <1>t, <1>6, Zenon DEF JoinRequestFlight, isEnabled, TypeOK
  <2>. QED
    BY <1>t, <1>6, <2>1, Zenon
    DEF JoinRequestFlight, Memoized, scopeVars, chainVars, callVars
<1>7. ASSUME NEW c \in Calls, NEW k \in Configs, RunRequestLocal(c, k) PROVE Memoized'
  <2>1. scope[c] \in Scopes /\ scope[c] \notin closed /\ k \in KeyConfigs
    BY <1>t, <1>7, Zenon DEF RunRequestLocal, isEnabled, TypeOK
  <2>2. /\ \A d \in Calls : config'[d] = IF d = c THEN k ELSE config[d]
        /\ \A d \in Calls \ {c} : pc'[d] = pc[d]
        /\ pc'[c] = "shared" => memo[scope[c]] = None
        /\ \A e \in Scopes : inFlight'[e] = IF k.coalesce /\ e = scope[c] THEN c ELSE inFlight[e]
        /\ k.coalesce => inFlight[scope[c]] = None
        /\ pc'[c] \in {"shared", "outer"} /\ UNCHANGED <<closed, memo, scope>>
    BY <1>t, <1>7, <2>1, Zenon DEF RunRequestLocal
  <2>3. ASSUME NEW d \in Calls, config'[d].requestLocal PROVE scope'[d] \in Scopes
    BY <2>1, <2>2, <2>3, Zenon DEF Memoized
  <2>4. ASSUME \A q \in Configs : q.coalesce, NEW d \in Calls,
               config'[d].requestLocal, scope'[d] \notin closed',
               pc'[d] \in {"shared", "wait", "read", "load", "loaded", "inner"}
        PROVE  inFlight'[scope'[d]] = d /\ memo'[scope'[d]] = None
    <3>1. CASE d = c
      <4>1. pc'[c] = "shared" /\ k.coalesce
        BY <2>2, <2>4, <3>1, Zenon
      <4>. QED  BY <2>1, <2>2, <3>1, <4>1, Zenon
    <3>2. CASE d # c
      <4>1. inFlight[scope[d]] = d /\ memo[scope[d]] = None /\ scope[d] \in Scopes
        BY <2>2, <2>4, <3>2, Zenon DEF Memoized
      <4>2. scope[d] # scope[c]
        <5>1. inFlight[scope[c]] = None /\ d # None
          BY <2>2, <2>4, Zenon
        <5>. QED  BY <4>1, <5>1, Zenon
      <4>. QED  BY <2>2, <4>1, <4>2, Zenon
    <3>. QED  BY <3>1, <3>2, Zenon
  <2>. QED
    BY <2>3, <2>4, Zenon DEF Memoized
<1>8. ASSUME NEW c \in Calls, SkipShared(c) PROVE Memoized'
  BY <1>t, <1>8, Zenon DEF SkipShared, Memoized, scopeVars, chainVars, callVars
<1>9. ASSUME NEW c \in Calls, JoinFlight(c) PROVE Memoized'
  BY <1>t, <1>9, Zenon DEF JoinFlight, Memoized, scopeVars, chainVars, callVars
<1>10. ASSUME NEW c \in Calls, RunShared(c) PROVE Memoized'
  BY <1>t, <1>10, Zenon DEF RunShared, Memoized, scopeVars, chainVars, callVars
<1>11. ASSUME NEW c \in Calls, ReadHit(c) PROVE Memoized'
  BY <1>t, <1>11, Zenon DEF ReadHit, Memoized, scopeVars, chainVars, callVars
<1>12. ASSUME NEW c \in Calls, ReadMiss(c) PROVE Memoized'
  BY <1>t, <1>12, Zenon DEF ReadMiss, Memoized, scopeVars, chainVars, callVars
<1>13. ASSUME NEW c \in Calls, ReadFails(c) PROVE Memoized'
  BY <1>t, <1>13, Zenon DEF ReadFails, Memoized, scopeVars, chainVars, callVars
<1>14. ASSUME NEW c \in Calls, LoadSource(c) PROVE Memoized'
  BY <1>t, <1>14, Zenon DEF LoadSource, Memoized, scopeVars, chainVars, callVars
<1>15. ASSUME NEW c \in Calls, LoadFails(c) PROVE Memoized'
  BY <1>t, <1>15, Zenon DEF LoadFails, Memoized, scopeVars, chainVars, callVars
<1>16. ASSUME NEW c \in Calls, FulfilWithoutWrite(c) \/ FulfilWithWrite(c)
       PROVE Memoized'
  BY <1>t, <1>16, Zenon
  DEF FulfilWithoutWrite, FulfilWithWrite, Memoized, scopeVars,
      chainVars, callVars
<1>17. ASSUME NEW c \in Calls, ClearFlight(c) PROVE Memoized'
  BY <1>t, <1>17, Zenon DEF ClearFlight, Memoized, scopeVars, chainVars, callVars
<1>18. ASSUME NEW c \in Calls, WakeFollower(c) PROVE Memoized'
  BY <1>t, <1>18 DEF WakeFollower, Memoized, scopeVars, chainVars, callVars
<1>19. ASSUME NEW c \in Calls, ReturnInner(c) PROVE Memoized'
  <2>1. /\ \A d \in Calls \ {c} : pc'[d] = pc[d]
        /\ pc[c] = "inner" /\ pc'[c] \in {"outer", "done"}
        /\ UNCHANGED <<closed, inFlight, scope, config>>
        /\ memo' # memo => config[c].requestLocal /\ scope[c] \notin closed
        /\ \A e \in Scopes \ {scope[c]} : memo'[e] = memo[e]
    BY <1>t, <1>19, Zenon DEF ReturnInner
  <2>2. ASSUME \A q \in Configs : q.coalesce, NEW d \in Calls,
               config'[d].requestLocal, scope'[d] \notin closed',
               pc'[d] \in {"shared", "wait", "read", "load", "loaded", "inner"}
        PROVE  inFlight'[scope'[d]] = d /\ memo'[scope'[d]] = None
    <3>1. d # c /\ pc[d] \in {"shared", "wait", "read", "load", "loaded", "inner"}
      BY <2>1, <2>2, Zenon
    <3>2. inFlight[scope[d]] = d /\ memo[scope[d]] = None /\ scope[d] \in Scopes
      BY <2>1, <2>2, <3>1, Zenon DEF Memoized
    <3>3. CASE memo' = memo
      BY <2>1, <3>2, <3>3, Zenon
    <3>4. CASE memo' # memo
      <4>1. inFlight[scope[c]] = c
        BY <2>1, <2>2, <3>4, Zenon DEF Memoized
      <4>. QED  BY <2>1, <3>1, <3>2, <4>1, Zenon
    <3>. QED  BY <3>3, <3>4, Zenon
  <2>. QED
    BY <2>1, <2>2, Zenon DEF Memoized
<1>20. ASSUME NEW c \in Calls, ClearRequestFlight(c) PROVE Memoized'
  BY <1>t, <1>20, Zenon
  DEF ClearRequestFlight, Memoized, scopeVars, chainVars, callVars
<1>21. ASSUME NEW c \in Calls, WakeRequestFollower(c) PROVE Memoized'
  BY <1>t, <1>21
  DEF WakeRequestFollower, Memoized, scopeVars, chainVars, callVars
<1>22. ASSUME NEW c \in Calls, ReturnOuter(c) PROVE Memoized'
  BY <1>t, <1>22, Zenon DEF ReturnOuter, Memoized, scopeVars, chainVars, callVars
<1>. QED
  BY <1>1, <1>2, <1>3, <1>4, <1>5, <1>6, <1>7, <1>8, <1>9, <1>10, <1>11, <1>12, <1>13,
     <1>14, <1>15, <1>16, <1>17, <1>18, <1>19, <1>20, <1>21, <1>22
  DEF Next, CallNext

\* With coalescing on, a request sees one value (request-local-cache.ts): a scope's
\* memo is set once and stays until the scope closes.
THEOREM MemoStable == Spec => MemoIsStable
<1>1. TypeOK /\ Memoized /\ [Next]_vars =>
         [(\A k \in Configs : k.coalesce) =>
             \A s \in Scopes :
                memo[s] # None /\ memo'[s] # memo[s] => s \in closed']_vars
  <2>. SUFFICES ASSUME TypeOK, Memoized, Next, \A k \in Configs : k.coalesce,
                       NEW t \in Scopes, memo[t] # None, memo'[t] # memo[t]
                PROVE  t \in closed'
    BY Zenon
  <2>1. ASSUME NEW s \in Scopes, CloseScope(s) PROVE t \in closed'
    BY <2>1 DEF CloseScope, TypeOK
  <2>2. ASSUME NEW c \in Calls, ReturnInner(c) PROVE t \in closed'
    BY <2>2 DEF ReturnInner, TypeOK, Memoized
  <2>3. ASSUME NEW c \in Calls, CallNext(c), ~ReturnInner(c) PROVE memo' = memo
    BY <2>3, Zenon
    DEF CallNext, ConfigFails, PassThrough, ResolveShared, JoinRequestFlight,
        RunRequestLocal, SkipShared, JoinFlight, RunShared, ReadHit, ReadMiss,
        ReadFails, LoadSource, LoadFails, FulfilWithoutWrite, FulfilWithWrite,
        ClearFlight, WakeFollower, ClearRequestFlight, WakeRequestFollower,
        ReturnOuter, scopeVars
  <2>4. ASSUME \/ Mutate \/ RedisChanges \/ LocalExpires
               \/ \E c \in Calls, s \in Scopes \cup {None} : Start(c, s)
        PROVE  memo' = memo
    BY <2>4 DEF Mutate, RedisChanges, LocalExpires, Start, scopeVars
  <2>. QED
    BY <2>1, <2>2, <2>3, <2>4, Zenon DEF Next
<1>2. Spec => []Memoized
  BY MemoizedInit, MemoizedStep, ServingTyping, PTL DEF Spec
<1>. QED
  BY <1>1, <1>2, ServingTyping, PTL DEF Spec, MemoIsStable

-----------------------------------------------------------------------------
(* Tracked values *)

\* A tracked call that will publish what it loads has resolved its remote layer off.
Planned ==
    \A c \in Calls :
       /\ pc[c] \in {"idle", "config", "rlwait", "shared", "wait"} => plan[c] = "return"
       /\ /\ Tracked /\ HasRedis /\ pc[c] \in {"load", "loaded"}
          /\ plan[c] \in {"publish", "write_publish"}
          => config[c].remote \in {"disabled", "ramped_down"}

\* At first no call plans to publish anything.
LEMMA PlannedInit == Init => Planned
BY DEF Init, Planned

\* Every step keeps the plans.
LEMMA PlannedStep == TypeOK /\ Shape /\ Planned /\ [Next]_vars => Planned'
<1>. SUFFICES ASSUME TypeOK, Shape, Planned, [Next]_vars PROVE Planned'
  OBVIOUS
<1>t. /\ pc \in [Calls -> Places] /\ plan \in [Calls -> Plans]
      /\ config \in [Calls -> KeyConfigs]
  BY DEF TypeOK, Places
<1>1. ASSUME Mutate \/ RedisChanges \/ LocalExpires \/ UNCHANGED vars PROVE Planned'
  BY <1>t, <1>1, Zenon
  DEF Mutate, RedisChanges, LocalExpires, vars, Planned, scopeVars,
      chainVars, callVars
<1>2. ASSUME NEW s \in Scopes, CloseScope(s) PROVE Planned'
  BY <1>t, <1>2 DEF CloseScope, Planned, scopeVars, chainVars, callVars
<1>3. ASSUME NEW c \in Calls, NEW s \in Scopes \cup {None}, Start(c, s) PROVE Planned'
  BY <1>t, <1>3, Zenon DEF Start, Planned, scopeVars, chainVars, callVars
<1>4. ASSUME NEW c \in Calls, ConfigFails(c) \/ PassThrough(c) PROVE Planned'
  BY <1>t, <1>4
  DEF ConfigFails, PassThrough, Planned, scopeVars, chainVars, callVars
<1>5. ASSUME NEW c \in Calls, NEW k \in Configs, ResolveShared(c, k) PROVE Planned'
  BY <1>t, <1>5 DEF ResolveShared, Planned, scopeVars, chainVars, callVars
<1>6. ASSUME NEW c \in Calls, NEW k \in Configs, JoinRequestFlight(c, k)
       PROVE Planned'
  BY <1>t, <1>6, Zenon DEF JoinRequestFlight, Planned, scopeVars, chainVars, callVars
<1>7. ASSUME NEW c \in Calls, NEW k \in Configs, RunRequestLocal(c, k) PROVE Planned'
  BY <1>t, <1>7, Zenon DEF RunRequestLocal, Planned, scopeVars, chainVars, callVars
<1>8. ASSUME NEW c \in Calls, SkipShared(c) PROVE Planned'
  BY <1>t, <1>8 DEF SkipShared, Planned, scopeVars, chainVars, callVars
<1>9. ASSUME NEW c \in Calls, JoinFlight(c) PROVE Planned'
  BY <1>t, <1>9 DEF JoinFlight, Planned, scopeVars, chainVars, callVars
<1>10. ASSUME NEW c \in Calls, RunShared(c) PROVE Planned'
  <2>1. localPlan(c) = "publish" /\ Tracked /\ HasRedis =>
           config[c].remote # "config_error"
    BY DEF localPlan
  <2>2. config[c].remote \in RemoteStates
    BY DEF TypeOK, KeyConfigs
  <2>3. localPlan(c) \in {"publish", "return"}
    BY DEF localPlan
  <2>. QED
    BY <1>t, <1>10, <2>1, <2>2, <2>3
    DEF RunShared, readsRemote, RemoteStates, Planned, scopeVars,
        chainVars, callVars
<1>11. ASSUME NEW c \in Calls, ReadHit(c) PROVE Planned'
  BY <1>t, <1>11 DEF ReadHit, Planned, scopeVars, chainVars, callVars
<1>12. ASSUME NEW c \in Calls, ReadMiss(c) PROVE Planned'
  BY <1>t, <1>12 DEF ReadMiss, Planned, scopeVars, chainVars, callVars
<1>13. ASSUME NEW c \in Calls, ReadFails(c) PROVE Planned'
  BY <1>t, <1>13 DEF ReadFails, Planned, scopeVars, chainVars, callVars
<1>14. ASSUME NEW c \in Calls, LoadSource(c) PROVE Planned'
  BY <1>t, <1>14, Zenon DEF LoadSource, Planned, scopeVars, chainVars, callVars
<1>15. ASSUME NEW c \in Calls, LoadFails(c) PROVE Planned'
  BY <1>t, <1>15 DEF LoadFails, Planned, scopeVars, chainVars, callVars
<1>16. ASSUME NEW c \in Calls, FulfilWithoutWrite(c) \/ FulfilWithWrite(c)
       PROVE Planned'
  BY <1>t, <1>16
  DEF FulfilWithoutWrite, FulfilWithWrite, Planned, scopeVars,
      chainVars, callVars
<1>17. ASSUME NEW c \in Calls, ClearFlight(c) PROVE Planned'
  BY <1>t, <1>17 DEF ClearFlight, Planned, scopeVars, chainVars, callVars
<1>18. ASSUME NEW c \in Calls, WakeFollower(c) PROVE Planned'
  BY <1>t, <1>18 DEF WakeFollower, Planned, scopeVars, chainVars, callVars
<1>19. ASSUME NEW c \in Calls, ReturnInner(c) PROVE Planned'
  BY <1>t, <1>19, Zenon DEF ReturnInner, Planned, scopeVars, chainVars, callVars
<1>20. ASSUME NEW c \in Calls, ClearRequestFlight(c) PROVE Planned'
  BY <1>t, <1>20
  DEF ClearRequestFlight, Planned, scopeVars, chainVars, callVars
<1>21. ASSUME NEW c \in Calls, WakeRequestFollower(c) PROVE Planned'
  BY <1>t, <1>21
  DEF WakeRequestFollower, Planned, scopeVars, chainVars, callVars
<1>22. ASSUME NEW c \in Calls, ReturnOuter(c) PROVE Planned'
  BY <1>t, <1>22 DEF ReturnOuter, Planned, scopeVars, chainVars, callVars
<1>. QED
  BY <1>1, <1>2, <1>3, <1>4, <1>5, <1>6, <1>7, <1>8, <1>9, <1>10, <1>11, <1>12, <1>13,
     <1>14, <1>15, <1>16, <1>17, <1>18, <1>19, <1>20, <1>21, <1>22, Zenon
  DEF Next, CallNext

\* A tracked value enters the local layer only after a Redis read validated it
\* (dialcache.ts, skipCacheWrite), unless the publishing call itself resolved its
\* remote layer as off.
THEOREM LocalValidated == Spec => TrackedLocalIsValidated
<1>1. TypeOK /\ Planned /\ [Next]_vars =>
         [Tracked /\ HasRedis /\ local' \notin {local, None} =>
             \/ local' \in validated'
             \/ \E c \in Calls : /\ pc'[c] # pc[c]
                                  /\ config[c].remote \in {"disabled", "ramped_down"}]_vars
  <2>. SUFFICES ASSUME TypeOK, Planned, Next, Tracked, HasRedis, local' \notin {local, None}
                PROVE  \/ local' \in validated'
                       \/ \E c \in Calls :
                             /\ pc'[c] # pc[c]
                             /\ config[c].remote \in {"disabled", "ramped_down"}
    OBVIOUS
  <2>1. ASSUME NEW c \in Calls, ReadHit(c) PROVE local' \in validated'
    BY <2>1, Zenon DEF ReadHit
  <2>2. ASSUME NEW c \in Calls, FulfilWithoutWrite(c) \/ FulfilWithWrite(c)
        PROVE  pc'[c] # pc[c] /\ config[c].remote \in {"disabled", "ramped_down"}
    BY <2>2, Zenon DEF FulfilWithoutWrite, FulfilWithWrite, TypeOK, Planned
  <2>3. ASSUME NEW c \in Calls, CallNext(c),
               ~ReadHit(c), ~FulfilWithoutWrite(c), ~FulfilWithWrite(c)
        PROVE  local' = local
    BY <2>3, Zenon
    DEF CallNext, ConfigFails, PassThrough, ResolveShared, JoinRequestFlight,
        RunRequestLocal, SkipShared, JoinFlight, RunShared, ReadMiss, ReadFails,
        LoadSource, LoadFails, ClearFlight, WakeFollower, ReturnInner,
        ClearRequestFlight, WakeRequestFollower, ReturnOuter
  <2>4. ASSUME \/ Mutate \/ RedisChanges \/ LocalExpires \/ \E s \in Scopes : CloseScope(s)
               \/ \E c \in Calls, s \in Scopes \cup {None} : Start(c, s)
        PROVE  local' \in {local, None}
    BY <2>4, Zenon DEF Mutate, RedisChanges, LocalExpires, CloseScope, Start
  <2>. QED
    BY <2>1, <2>2, <2>3, <2>4, Zenon DEF Next
<1>2. Spec => []Planned
  BY PlannedInit, PlannedStep, ServingTyping, PTL DEF Spec
<1>. QED
  BY <1>1, <1>2, ServingTyping, PTL DEF Spec, TrackedLocalIsValidated
=============================================================================
