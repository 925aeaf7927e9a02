--------------------------- MODULE RuntimeConfig ----------------------------
(* Runtime policy (config.ts, internal/runtime-config.ts): a use case        *)
(* registers a validated default; the config provider answers every          *)
(* invocation with null or with an unvalidated overlay; the two are merged   *)
(* leaf by leaf and resolved into the policy the invocation follows.  A leaf *)
(* that is not written is Undefined, one with a value of a wrong type is     *)
(* Malformed; null is Absent.                                                *)
EXTENDS Integers

CONSTANTS Defaults,     \* configs an application tries to register
          Overlays,     \* answers of the config provider
          MaxCacheTtlSec, MaxTimerDelayMs,
          Sample,       \* the key's stable rollout percentage in each cohort
          Undefined, Malformed, Absent, ConfigError

Layers == {"local", "remote"}

DIFF_LEVELS == {"off", "paths", "values"}

\* What a leaf may hold: nothing, a value of a wrong type, or one of the right
\* type, whose range is checked where the leaf is read.
Written(values) == values \cup {Undefined, Malformed}

MismatchLoggings == [value : Written(BOOLEAN), diff : Written(DIFF_LEVELS)]

\* A group of leaves may be missing or no object at all.
ShadowConfigs ==
    [ramp : Written(Int), logMismatches : Written(BOOLEAN),
     mismatchLogging : Written(MismatchLoggings)]

LayerConfigs == [Layers -> Written(Int)] \cup {Malformed}

KeyConfigs ==
    [ttlSec : LayerConfigs, ramp : LayerConfigs,
     requestLocal : Written(BOOLEAN), coalesce : Written(BOOLEAN),
     staleOnErrorMaxAgeSec : Written(Int), remoteReadTimeoutMs : Written(Int),
     shadow : Written(ShadowConfigs)]

\* What an invocation resolves.
LayerResults ==
    [status : {"enabled", "disabled"},
     reason : {Absent, "policy_disabled", "invalid_ttl", "invalid_ramp", "ramped_down"},
     ttlSec : 1 .. MaxCacheTtlSec \cup {Absent}]

Policies ==
    [requestLocal : BOOLEAN, coalesce : BOOLEAN,
     local : LayerResults, remote : LayerResults,
     stale : [maxAgeSec : 1 .. MaxCacheTtlSec \cup {Absent}, error : BOOLEAN],
     shadow : [admits : BOOLEAN, error : BOOLEAN],
     logging : [value : BOOLEAN, diff : DIFF_LEVELS, invalid : BOOLEAN]]

ASSUME ConfigAssumption ==
    /\ Defaults \subseteq KeyConfigs \cup {Malformed}
    /\ Overlays \subseteq KeyConfigs \cup {Malformed}
    /\ MaxCacheTtlSec \in Nat
    /\ Sample \in [Layers \cup {"shadow"} -> Int]
    /\ \A v \in {Undefined, Malformed} :
          /\ v \notin Int \cup BOOLEAN \cup DIFF_LEVELS
          /\ v \notin [Layers -> Written(Int)] \cup MismatchLoggings
          /\ v \notin ShadowConfigs \cup KeyConfigs
    /\ Undefined # Malformed
    /\ Absent \notin KeyConfigs \cup Policies \cup Int
    /\ ConfigError \notin Policies \cup {Absent}

VARIABLES
    defaultConfig,  \* the registered default, Absent without one
    overlay,        \* the provider's answer to the running invocation
    policy          \* what the running invocation resolved, Absent without one

configVars == <<defaultConfig, overlay, policy>>

isSupportedCacheTtlSec(v) == v \in 1 .. MaxCacheTtlSec

isPercentage(v) == v \in 0 .. 100

\* An optional leaf: unwritten, or one of the valid values.
Optional(v, valid) == v = Undefined \/ v \in valid

-----------------------------------------------------------------------------
(* Configs *)

NoLeaves == [layer \in Layers |-> Undefined]

\* Every leaf unwritten.
EmptyConfig ==
    [ttlSec |-> NoLeaves, ramp |-> NoLeaves, requestLocal |-> Undefined,
     coalesce |-> Undefined, staleOnErrorMaxAgeSec |-> Undefined,
     remoteReadTimeoutMs |-> Undefined, shadow |-> Undefined]

\* DialCacheKeyConfig.disabled(): the kill switch.
disabled ==
    [ttlSec |-> NoLeaves, ramp |-> [layer \in Layers |-> 0], requestLocal |-> FALSE,
     coalesce |-> Undefined, staleOnErrorMaxAgeSec |-> 0,
     remoteReadTimeoutMs |-> Undefined,
     shadow |-> [ramp |-> 0, logMismatches |-> Undefined,
                 mismatchLogging |-> [value |-> FALSE, diff |-> "off"]]]

\* The groups of a config must be objects.
assertLayerConfig(layers) == layers # Malformed

assertShadowConfig(shadow) ==
    /\ shadow # Malformed
    /\ shadow # Undefined => shadow.mismatchLogging # Malformed

assertKeyConfig(c) ==
    /\ c # Malformed
    /\ assertLayerConfig(c.ttlSec) /\ assertLayerConfig(c.ramp)
    /\ assertShadowConfig(c.shadow)

\* The leaves that the DialCacheKeyConfig constructor validates.
constructorAccepts(c) ==
    /\ Optional(c.requestLocal, BOOLEAN)
    /\ Optional(c.coalesce, BOOLEAN)
    /\ Optional(c.remoteReadTimeoutMs, 1 .. MaxTimerDelayMs)

-----------------------------------------------------------------------------
(* Shadow mismatch logging *)

NoLogging == [value |-> Undefined, diff |-> Undefined, invalid |-> FALSE]

\* The overlay's leaf if it is written, else the inherited one.
Leaf(written, inherited) == IF written # Undefined THEN written ELSE inherited

\* What logMismatches stands for.
expandShorthand(shorthand) ==
    IF shorthand = Undefined THEN NoLogging
    ELSE IF shorthand = TRUE
         THEN [value |-> TRUE, diff |-> "values", invalid |-> FALSE]
    ELSE [value |-> FALSE, diff |-> "off", invalid |-> shorthand # FALSE]

\* The shorthand's leaves, overridden by those written beside it.
expandMismatchLogging(shadow) ==
    LET expanded == expandShorthand(shadow.logMismatches)
        written == shadow.mismatchLogging
    IN  IF written = Undefined THEN expanded
        ELSE [expanded EXCEPT !.value = Leaf(written.value, @),
                              !.diff = Leaf(written.diff, @)]

\* The effective leaves: an omitted or invalid leaf is off.
resolveMismatchLogging(shadow) ==
    LET leaves == expandMismatchLogging(shadow)
    IN  [value |-> leaves.value = TRUE,
         diff |-> IF leaves.diff \in DIFF_LEVELS THEN leaves.diff ELSE "off",
         invalid |-> \/ leaves.invalid
                     \/ ~Optional(leaves.value, BOOLEAN)
                     \/ ~Optional(leaves.diff, DIFF_LEVELS)]

-----------------------------------------------------------------------------
(* Merging the overlay into the default *)

LeavesOf(shadow) ==
    IF shadow = Undefined THEN NoLogging ELSE expandMismatchLogging(shadow)

RampOf(shadow) == IF shadow = Undefined THEN Undefined ELSE shadow.ramp

\* Faulty variant: the groups merge as they are written, the shorthand as a
\* leaf of its own, and expand only afterwards.
mergeShadowConfig_Unexpanded(defaults, o) ==
    LET group(s) == IF s = Undefined \/ s.mismatchLogging = Undefined
                    THEN [value |-> Undefined, diff |-> Undefined]
                    ELSE s.mismatchLogging
        short(s) == IF s = Undefined THEN Undefined ELSE s.logMismatches
    IN  IF defaults = Undefined /\ o = Undefined THEN Undefined
        ELSE [ramp |-> Leaf(RampOf(o), RampOf(defaults)),
              logMismatches |-> Leaf(short(o), short(defaults)),
              mismatchLogging |->
                 [value |-> Leaf(group(o).value, group(defaults).value),
                  diff |-> Leaf(group(o).diff, group(defaults).diff)]]

\* Each side's shorthand expands before the leaves merge; a malformed one of
\* the overlay stays, so that resolution reports it.
mergeShadowConfig(defaults, o) ==
    IF defaults = Undefined /\ o = Undefined THEN Undefined
    ELSE LET inherited == LeavesOf(defaults)
             written == LeavesOf(o)
             value == Leaf(written.value, inherited.value)
             diff == Leaf(written.diff, inherited.diff)
         IN  [ramp |-> Leaf(RampOf(o), RampOf(defaults)),
              logMismatches |-> IF written.invalid THEN o.logMismatches
                                ELSE Undefined,
              mismatchLogging |->
                 IF value = Undefined /\ diff = Undefined THEN Undefined
                 ELSE [value |-> value, diff |-> diff]]

mergeLayerConfig(defaults, o) ==
    [layer \in Layers |-> Leaf(o[layer], defaults[layer])]

mergeKeyConfig(defaults, o) ==
    LET d == IF defaults = Absent THEN EmptyConfig ELSE defaults
    IN  [ttlSec |-> mergeLayerConfig(d.ttlSec, o.ttlSec),
         ramp |-> mergeLayerConfig(d.ramp, o.ramp),
         requestLocal |-> Leaf(o.requestLocal, d.requestLocal),
         coalesce |-> Leaf(o.coalesce, d.coalesce),
         staleOnErrorMaxAgeSec |->
            Leaf(o.staleOnErrorMaxAgeSec, d.staleOnErrorMaxAgeSec),
         remoteReadTimeoutMs |-> Leaf(o.remoteReadTimeoutMs, d.remoteReadTimeoutMs),
         shadow |-> mergeShadowConfig(d.shadow, o.shadow)]

\* An overlay that is no config, or that does not merge into one the
\* constructor accepts, fails the resolution as a whole.
throws(defaults, o) ==
    /\ o # Absent
    /\ ~assertKeyConfig(o) \/ ~constructorAccepts(mergeKeyConfig(defaults, o))

\* The default itself when the provider has no overlay.
fetchKeyConfig(defaults, o) ==
    IF o = Absent THEN defaults ELSE mergeKeyConfig(defaults, o)

-----------------------------------------------------------------------------
(* Resolving a policy *)

\* A layer that is off without a usable config.
Off(reason) == [status |-> "disabled", reason |-> reason, ttlSec |-> Absent]

\* A layer with a usable config: on for the keys whose sample is below the ramp.
Ramped(layer, ttlSec, ramp) ==
    LET on == ramp > 0 /\ (ramp >= 100 \/ Sample[layer] < ramp)
    IN  [status |-> IF on THEN "enabled" ELSE "disabled",
         reason |-> IF on THEN Absent ELSE "ramped_down",
         ttlSec |-> ttlSec]

resolveLayerConfigResult(config, layer) ==
    IF config = Absent \/ config.ttlSec[layer] = Undefined
    THEN Off("policy_disabled")
    ELSE IF ~isSupportedCacheTtlSec(config.ttlSec[layer]) THEN Off("invalid_ttl")
    ELSE LET ramp == Leaf(config.ramp[layer], 100)
         IN  IF ~isPercentage(ramp) THEN Off("invalid_ramp")
             ELSE Ramped(layer, config.ttlSec[layer], ramp)

\* How long after the TTL a retained value may serve a failed load, or Absent,
\* and whether the policy for it is reported as an error.
resolveStaleOnError(config) ==
    LET remote == resolveLayerConfigResult(config, "remote")
        maxAge == IF config = Absent THEN Undefined ELSE config.staleOnErrorMaxAgeSec
        asked == maxAge \notin {Undefined, 0}
    IN  IF remote.ttlSec = Absent
        THEN [maxAgeSec |-> Absent,
              error |-> asked /\ remote.reason = "policy_disabled"]
        ELSE IF asked /\ isSupportedCacheTtlSec(maxAge) /\ maxAge > remote.ttlSec
        THEN [maxAgeSec |-> maxAge, error |-> FALSE]
        ELSE [maxAgeSec |-> Absent, error |-> asked]

\* scheduleShadowValidation's guards on the policy: whether the key is in the
\* cohort, and whether the percentage is reported as an error.
resolveShadow(config) ==
    LET ramp == IF config = Absent THEN Undefined ELSE RampOf(config.shadow)
    IN  IF ramp \in {Undefined, 0} THEN [admits |-> FALSE, error |-> FALSE]
        ELSE IF ~isPercentage(ramp) THEN [admits |-> FALSE, error |-> TRUE]
        ELSE [admits |-> ramp >= 100 \/ Sample["shadow"] < ramp, error |-> FALSE]

LoggingOf(config) ==
    IF config = Absent \/ config.shadow = Undefined
    THEN [value |-> FALSE, diff |-> "off", invalid |-> FALSE]
    ELSE resolveMismatchLogging(config.shadow)

Resolve(config) ==
    [requestLocal |-> config # Absent /\ config.requestLocal = TRUE,
     coalesce |-> config = Absent \/ config.coalesce # FALSE,
     local |-> resolveLayerConfigResult(config, "local"),
     remote |-> resolveLayerConfigResult(config, "remote"),
     stale |-> resolveStaleOnError(config),
     shadow |-> resolveShadow(config),
     logging |-> LoggingOf(config)]

-----------------------------------------------------------------------------
(* The system *)

\* What registration accepts as a default.
snapshotDefaultConfig(c) ==
    /\ assertKeyConfig(c)
    /\ constructorAccepts(c)
    /\ \A layer \in Layers :
          /\ Optional(c.ttlSec[layer], 1 .. MaxCacheTtlSec)
          /\ Optional(c.ramp[layer], 0 .. 100)
    /\ \/ Optional(c.staleOnErrorMaxAgeSec, {0})
       \/ /\ isSupportedCacheTtlSec(c.staleOnErrorMaxAgeSec)
          /\ c.ttlSec["remote"] # Undefined
          /\ c.staleOnErrorMaxAgeSec > c.ttlSec["remote"]
    /\ c.shadow # Undefined =>
          /\ Optional(c.shadow.ramp, 0 .. 100)
          /\ Optional(c.shadow.logMismatches, BOOLEAN)
          /\ c.shadow.mismatchLogging # Undefined =>
                /\ Optional(c.shadow.mismatchLogging.value, BOOLEAN)
                /\ Optional(c.shadow.mismatchLogging.diff, DIFF_LEVELS)

ConfigInit ==
    /\ defaultConfig = Absent
    /\ overlay = Absent
    /\ policy = Absent

\* registerUseCase: a use case is registered once.
Register ==
    /\ defaultConfig = Absent /\ policy = Absent
    /\ \E c \in Defaults : snapshotDefaultConfig(c) /\ defaultConfig' = c
    /\ UNCHANGED <<overlay, policy>>

\* An invocation asks the provider and resolves its policy from the answer.
Invoke ==
    /\ policy = Absent
    /\ overlay' \in Overlays \cup {Absent, disabled}
    /\ policy' = IF throws(defaultConfig, overlay') THEN ConfigError
                 ELSE Resolve(fetchKeyConfig(defaultConfig, overlay'))
    /\ UNCHANGED defaultConfig

\* The invocation is over; the next one asks again.
Settle ==
    /\ policy # Absent
    /\ overlay' = Absent
    /\ policy' = Absent
    /\ UNCHANGED defaultConfig

ConfigNext == Register \/ Invoke \/ Settle

ConfigSpec == ConfigInit /\ [][ConfigNext]_configVars

-----------------------------------------------------------------------------
(* Properties *)

\* The places where a logging leaf may be written, strongest first.
LeafOf(shadow, leaf) ==
    IF shadow = Undefined \/ shadow.mismatchLogging = Undefined THEN Undefined
    ELSE shadow.mismatchLogging[leaf]

ShorthandOf(shadow, leaf) ==
    IF shadow = Undefined \/ shadow.logMismatches = Undefined THEN Undefined
    ELSE IF leaf = "value" THEN shadow.logMismatches = TRUE
    ELSE IF shadow.logMismatches = TRUE THEN "values" ELSE "off"

Precedence(leaf) ==
    LET o == IF overlay = Absent THEN Undefined ELSE overlay.shadow
        d == IF defaultConfig = Absent THEN Undefined ELSE defaultConfig.shadow
    IN  <<LeafOf(o, leaf), ShorthandOf(o, leaf), LeafOf(d, leaf), ShorthandOf(d, leaf)>>

\* The overlay prevails.  The kill switch works on every default that
\* registration accepts: an overlay of DialCacheKeyConfig.disabled() turns off
\* the request-local memo, both shared layers, stale recovery, shadow work and
\* its logging, and nothing of it is reported as a configuration error.  And the
\* effective logging leaf is the first written one of: the overlay's leaf, the
\* overlay's shorthand, the default's leaf, the default's shorthand; an invalid
\* winner and no winner are both off.  So a runtime logMismatches replaces both
\* inherited leaves and loses to a leaf written beside it.
OverlayPrevails ==
    /\ overlay = disabled =>
          /\ policy # ConfigError
          /\ ~policy.requestLocal
          /\ policy.local.status = "disabled" /\ policy.remote.status = "disabled"
          /\ policy.stale = [maxAgeSec |-> Absent, error |-> FALSE]
          /\ policy.shadow = [admits |-> FALSE, error |-> FALSE]
          /\ policy.logging = [value |-> FALSE, diff |-> "off", invalid |-> FALSE]
    /\ policy \notin {Absent, ConfigError} =>
          \A leaf \in {"value", "diff"} :
             LET written == Precedence(leaf)
                 off == IF leaf = "value" THEN FALSE ELSE "off"
                 valid == IF leaf = "value" THEN BOOLEAN ELSE DIFF_LEVELS
                 wins(i) == /\ written[i] # Undefined
                            /\ \A j \in 1 .. i - 1 : written[j] = Undefined
             IN  policy.logging[leaf] =
                    IF \E i \in 1 .. 4 : wins(i) /\ written[i] \in valid
                    THEN written[CHOOSE i \in 1 .. 4 : wins(i)]
                    ELSE off
=============================================================================
