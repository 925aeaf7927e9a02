----------------------------- MODULE MCAdapters -----------------------------
(* A TLC instance of what surrounds the serving chain: the Redis client       *)
(* adapters, the metrics adapters and the nested enable() and disable()       *)
(* regions.  A behaviour exercises one of them.                               *)
EXTENDS RedisAdapter, MetricsAdapters, Regions, TLC

VARIABLE component

\* Invocations of a Redis adapter are interchangeable.
Symmetry == Permutations(Calls)

Init ==
    /\ component \in {"redis", "metrics", "regions"}
    /\ AdapterInit /\ (component # "redis" => adapter = "glide")
    /\ MetricsInit /\ RegionsInit

\* Only the component of the behaviour moves.
Rests(c) ==
    /\ component = c /\ UNCHANGED component
    /\ c # "redis" => UNCHANGED adapterVars
    /\ c # "metrics" => UNCHANGED metricsVars
    /\ c # "regions" => UNCHANGED regionsVars

Next ==
    \/ Rests("redis") /\ AdapterNext
    \/ Rests("metrics") /\ MetricsNext
    \/ Rests("regions") /\ RegionsNext

Spec == Init /\ [][Next]_<<component, adapterVars, metricsVars, regionsVars>>
=============================================================================
