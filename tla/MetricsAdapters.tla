---------------------------- MODULE MetricsAdapters ----------------------------
(* The Prometheus and Datadog metrics adapters (prometheus.ts, datadog.ts)       *)
(* behind the core's observer isolation (safeMetrics in dialcache.ts).           *)
(* Several adapters and the application may share one Prometheus registry.       *)
EXTENDS Naturals, Sequences, FiniteSets, FiniteSetsExt

CONSTANTS Prefixes,       \* Prometheus prefixes, Datadog namespaces
          MaxEvents,      \* bound: metric events in one behaviour
          MaxForeign      \* bound: collectors the application registers

VARIABLES registry,       \* collector name -> schema, as getSingleMetric sees it
          counts,         \* metric name and labels -> samples recorded
          foreign,        \* collector names the application registered
          adapters,       \* constructed adapters: <<kind, prefix>>
          sent            \* <<kind, prefix, method>> -> events reported to it

metricsVars == <<registry, counts, foreign, adapters, sent>>

-----------------------------------------------------------------------------
(* Labels and collectors *)

keyLabels == {"cache_namespace", "use_case", "key_type"}
cacheLabels == keyLabels \cup {"layer"}
outcomeLabels == keyLabels \cup {"outcome"}

Counters == {"request", "miss", "disabled", "error", "invalidation", "coalesced",
             "shadowValidation", "shadowMismatchLogging", "staleRecovery",
             "compression"}
Observations == {"observeShadowValueAge", "observeFutureTimestampOffset",
                 "observeStaleRecoveryValueAge", "observeGet", "observeFallback",
                 "observeSerialization", "observeSize", "observeStoredSize",
                 "observeCompressionRatio", "observeCompression"}
Methods == Counters \cup Observations

Shadowed == {"shadowValidation", "observeShadowValueAge", "shadowMismatchLogging",
             "staleRecovery", "observeStaleRecoveryValueAge"}

\* What an event carries: the fields of the label interface of its method.
eventLabels(method) ==
    CASE method = "invalidation" -> {"cache_namespace", "key_type", "layer"}
      [] method = "coalesced" -> keyLabels \cup {"scope"}
      [] method \in Shadowed -> keyLabels \cup {"outcome"}
      [] OTHER -> keyLabels \cup {"layer"} \cup
            (CASE method \in {"miss", "disabled"} -> {"reason"}
               [] method = "error" -> {"error", "in_fallback"}
               [] method = "compression" -> {"outcome"}
               [] method \in {"observeSerialization", "observeCompression"} -> {"operation"}
               [] OTHER -> {})

\* The labels a method of PrometheusDialCacheMetrics passes on.
labels(method) ==
    CASE method \in {"miss", "disabled"} -> cacheLabels \cup {"reason"}
      [] method = "error" -> cacheLabels \cup {"error", "in_fallback"}
      [] method = "invalidation" -> {"cache_namespace", "key_type", "layer"}
      [] method = "coalesced" -> keyLabels \cup {"scope"}
      [] method \in Shadowed -> outcomeLabels
      [] method = "compression" -> cacheLabels \cup {"outcome"}
      [] method \in {"observeSerialization", "observeCompression"} ->
             cacheLabels \cup {"operation"}
      [] OTHER -> cacheLabels

\* The collector field each method of PrometheusDialCacheMetrics uses.
collectorOf ==
    [disabled |-> "disabled_counter", miss |-> "miss_counter",
     request |-> "request_counter", error |-> "error_counter",
     invalidation |-> "invalidation_counter", coalesced |-> "coalesced_counter",
     shadowValidation |-> "shadow_validation_counter",
     observeShadowValueAge |-> "shadow_value_age_histogram",
     shadowMismatchLogging |-> "shadow_mismatch_logging_counter",
     observeFutureTimestampOffset |-> "future_timestamp_offset_histogram",
     staleRecovery |-> "stale_recovery_counter",
     observeStaleRecoveryValueAge |-> "stale_recovery_value_age_histogram",
     compression |-> "compression_counter",
     observeGet |-> "get_timer", observeFallback |-> "fallback_timer",
     observeSerialization |-> "serialization_timer",
     observeSize |-> "size_histogram",
     observeStoredSize |-> "stored_size_histogram",
     observeCompressionRatio |-> "compression_ratio_histogram",
     observeCompression |-> "compression_timer"]

Counter(names) == [type |-> "counter", labelNames |-> names, buckets |-> "none"]
Histogram(names, buckets) ==
    [type |-> "histogram", labelNames |-> names, buckets |-> buckets]

collectorConfigs ==
    [disabled_counter |-> Counter(cacheLabels \cup {"reason"}),
     miss_counter |-> Counter(cacheLabels \cup {"reason"}),
     request_counter |-> Counter(cacheLabels),
     error_counter |-> Counter(cacheLabels \cup {"error", "in_fallback"}),
     invalidation_counter |-> Counter({"cache_namespace", "key_type", "layer"}),
     coalesced_counter |-> Counter(keyLabels \cup {"scope"}),
     shadow_validation_counter |-> Counter(outcomeLabels),
     shadow_value_age_histogram |-> Histogram(outcomeLabels, "age"),
     shadow_mismatch_logging_counter |-> Counter(outcomeLabels),
     future_timestamp_offset_histogram |-> Histogram(cacheLabels, "offset"),
     stale_recovery_counter |-> Counter(outcomeLabels),
     stale_recovery_value_age_histogram |-> Histogram(outcomeLabels, "age"),
     compression_counter |-> Counter(cacheLabels \cup {"outcome"}),
     get_timer |-> Histogram(cacheLabels, "timer"),
     fallback_timer |-> Histogram(cacheLabels, "timer"),
     serialization_timer |-> Histogram(cacheLabels \cup {"operation"}, "timer"),
     size_histogram |-> Histogram(cacheLabels, "size"),
     stored_size_histogram |-> Histogram(cacheLabels, "size"),
     compression_ratio_histogram |-> Histogram(cacheLabels, "ratio"),
     compression_timer |-> Histogram(cacheLabels \cup {"operation"}, "timer")]

CollectorNames == DOMAIN collectorConfigs

\* cacheTags, outcomeTags.
cacheTags == {"cache_namespace", "use_case", "key_type", "layer"}
outcomeTags == {"cache_namespace", "use_case", "key_type", "outcome"}

\* The tags a method of DatadogDialCacheMetrics passes on.
tags(method) ==
    CASE method \in {"miss", "disabled"} -> cacheTags \cup {"reason"}
      [] method = "error" -> cacheTags \cup {"error", "in_fallback"}
      [] method = "invalidation" -> cacheTags \ {"use_case"}
      [] method = "coalesced" -> (cacheTags \ {"layer"}) \cup {"scope"}
      [] method \in Shadowed -> outcomeTags
      [] method = "compression" -> cacheTags \cup {"outcome"}
      [] method \in {"observeSerialization", "observeCompression"} ->
             cacheTags \cup {"operation"}
      [] OTHER -> cacheTags

\* METRIC_SUFFIXES.
METRIC_SUFFIXES ==
    [request |-> "request.count", miss |-> "miss.count",
     disabled |-> "disabled.count", error |-> "error.count",
     invalidation |-> "invalidation.count", coalesced |-> "coalesced.count",
     shadowValidation |-> "shadow.count",
     observeShadowValueAge |-> "shadow.value_age",
     shadowMismatchLogging |-> "shadow_mismatch_logging.count",
     observeFutureTimestampOffset |-> "future_timestamp_offset",
     staleRecovery |-> "stale_recovery.count",
     observeStaleRecoveryValueAge |-> "stale_recovery.value_age",
     compression |-> "compression.count", observeGet |-> "get.duration",
     observeFallback |-> "fallback.duration",
     observeSerialization |-> "serialization.duration",
     observeSize |-> "serialization.size", observeStoredSize |-> "stored.size",
     observeCompressionRatio |-> "compression.ratio",
     observeCompression |-> "compression.duration"]

-----------------------------------------------------------------------------
MetricsInit ==
    /\ registry = [n \in {} |-> {}] /\ counts = [n \in {} |-> 0]
    /\ foreign = {} /\ adapters = {}
    /\ sent = [e \in {} |-> 0]

Bump(f, e) == [x \in DOMAIN f \cup {e} |-> (IF x \in DOMAIN f THEN f[x] ELSE 0)
                                           + (IF x = e THEN 1 ELSE 0)]
Total(f) == MapThenSumSet(LAMBDA e : f[e], DOMAIN f)

\* The application registers a collector of its own under any name.
ForeignCollector(prefix, name, schema) ==
    /\ Cardinality(foreign) < MaxForeign
    /\ <<prefix, name>> \notin DOMAIN registry
    /\ foreign' = foreign \cup {<<prefix, name>>}
    /\ registry' = [n \in DOMAIN registry \cup {<<prefix, name>>} |->
           IF n = <<prefix, name>> THEN schema ELSE registry[n]]
    /\ UNCHANGED <<counts, adapters, sent>>

Compatible(prefix, name) ==
    <<prefix, name>> \in DOMAIN registry =>
        registry[<<prefix, name>>] = collectorConfigs[name]

\* counter(), histogram(): the existing collector, or a new one.
WithCollectors(prefix, names) ==
    [n \in DOMAIN registry \cup ({prefix} \X names) |->
        IF n \in DOMAIN registry THEN registry[n] ELSE collectorConfigs[n[2]]]

\* A constructor that checks each collector as it comes to it.
constructor_ChecksAsItGoes(prefix) ==
    LET good == {n \in CollectorNames : Compatible(prefix, n)}
    IN  /\ registry' = WithCollectors(prefix, good)
        /\ IF good = CollectorNames
           THEN adapters' = adapters \cup {<<"prometheus", prefix>>}
           ELSE UNCHANGED adapters
        /\ UNCHANGED <<counts, foreign, sent>>

\* new PrometheusDialCacheMetrics: every existing collector is validated before
\* the first one is created.
constructor(prefix) ==
    /\ IF \A n \in CollectorNames : Compatible(prefix, n)
       THEN /\ registry' = WithCollectors(prefix, CollectorNames)
            /\ adapters' = adapters \cup {<<"prometheus", prefix>>}
       ELSE UNCHANGED <<registry, adapters>>
    /\ UNCHANGED <<counts, foreign, sent>>

DATADOG_METRIC_NAME_MAX_LENGTH == 200
validateClient(methods) == {"increment", "histogram", "distribution"} \subseteq methods
validateObservationMetricType(type) == type \in {"histogram", "distribution"}

\* Every name, a suffix behind the namespace and a dot, fits the limit.
metricNames(length) ==
    \A m \in Methods :
        length + 1 + Len(METRIC_SUFFIXES[m]) <= DATADOG_METRIC_NAME_MAX_LENGTH

\* new DatadogDialCacheMetrics: o tells whether the namespace fits its pattern and
\* how long it is; nothing is registered anywhere.
constructDatadog(namespace, o) ==
    /\ adapters' = IF /\ validateClient(o.methods) /\ o.pattern
                      /\ validateObservationMetricType(o.type)
                      /\ metricNames(o.length)
                   THEN adapters \cup {<<"datadog", namespace>>}
                   ELSE adapters
    /\ UNCHANGED <<registry, counts, foreign, sent>>

\* prom-client throws for a label the collector does not declare.
CounterAccepts(prefix, method) ==
    LET schema == registry[<<prefix, collectorOf[method]>>]
    IN  /\ labels(method) \subseteq schema.labelNames
        /\ schema.type = IF method \in Counters THEN "counter" ELSE "histogram"

\* One event through safeMetrics: callObserver swallows what the backend
\* throws.  Prometheus drops an offset that is not positive.
Record(adapter, method, positive) ==
    /\ adapter \in adapters
    /\ Total(sent) < MaxEvents
    /\ LET dropped == /\ adapter[1] = "prometheus" /\ ~positive
                      /\ method = "observeFutureTimestampOffset"
           stored == adapter[1] = "datadog" \/ CounterAccepts(adapter[2], method)
           sample == IF adapter[1] = "datadog"
                     THEN <<METRIC_SUFFIXES[method], tags(method)>>
                     ELSE <<collectorOf[method], labels(method)>>
       IN  IF dropped THEN UNCHANGED <<sent, counts>>
           ELSE /\ sent' = Bump(sent, <<adapter[1], adapter[2], method>>)
                /\ counts' = IF stored
                             THEN Bump(counts, <<adapter[1], adapter[2], sample>>)
                             ELSE counts
    /\ UNCHANGED <<registry, foreign, adapters>>

\* The longest suffix has 29 characters.
DatadogOptions ==
    [methods : {{"increment", "histogram"}, {"increment", "histogram", "distribution"}},
     pattern : BOOLEAN, type : {"histogram", "gauge"}, length : {170, 171}]

MetricsNext ==
    \/ \E p \in Prefixes, n \in CollectorNames,
          schema \in {Counter(cacheLabels), Histogram(outcomeLabels, "age")} :
              ForeignCollector(p, n, schema)
    \/ \E p \in Prefixes : constructor(p)
    \/ \E p \in Prefixes, o \in DatadogOptions : constructDatadog(p, o)
    \/ \E a \in adapters, m \in Methods, positive \in BOOLEAN : Record(a, m, positive)

MetricsSpec == MetricsInit /\ [][MetricsNext]_metricsVars

-----------------------------------------------------------------------------
(* Properties *)

\* The sample that is due to an event: the metric of its method, with every
\* label the event carries.
SampleOf(e) ==
    <<e[1], e[2], <<IF e[1] = "datadog" THEN METRIC_SUFFIXES[e[3]]
                    ELSE collectorOf[e[3]],
                    eventLabels(e[3])>>>>

\* Every event reported to a constructed adapter is recorded, once, with every
\* label it carries and under a metric of its own, although callObserver would
\* swallow a rejected sample unseen: the label tables and the collectors agree,
\* also when the application registered some of the collectors first.  Nothing
\* else is recorded.  And a Prometheus adapter that was refused leaves nothing in
\* the shared registry: what is there is the application's or an accepted
\* adapter's (validateExistingCollectors runs first).
RegistryIsExact ==
    /\ DOMAIN counts = {SampleOf(e) : e \in DOMAIN sent}
    /\ \A e \in DOMAIN sent : counts[SampleOf(e)] = sent[e]
    /\ \A e, f \in DOMAIN sent : SampleOf(e) = SampleOf(f) => e = f
    /\ \A n \in DOMAIN registry :
           n \in foreign \/ <<"prometheus", n[1]>> \in adapters
=============================================================================
