---------------------------- MODULE Registration ----------------------------
(* The public surface of one DialCache instance: the constructor, the         *)
(* registration of wrapped functions, inline loads, and the keys their calls  *)
(* build (dialcache.ts, key.ts, redis-cache.ts).                              *)
(* Text is a sequence of characters, because the properties are about which   *)
(* texts can meet; only the characters that delimit keys are told apart.      *)
EXTENDS Integers, Sequences, SequencesExt, FiniteSets

CONSTANTS CodeUnits,     \* the code unit of every character, a function
          Configs,       \* constructor arguments
          Options,       \* option records of cached() and getOrLoad()
          CacheKeys,     \* what a key selector returns
          NoInstance,    \* no instance constructed yet
          NullValue, UndefinedValue, \* JavaScript's null, and an omitted field
          MAX_TIMER_DELAY_MS, \* the longest deadline a timer takes
          MaxKeys        \* bound: keys built in one behaviour

VARIABLES instance,      \* the constructed instance's namespace
          useCases,      \* DialCache.useCases
          wrapped,       \* use cases for which cached() returned a function
          keys           \* keys built by calls so far

Characters == DOMAIN CodeUnits
Texts == Seq(Characters)

\* An arguments object: no name twice.
Arguments == {args \in Seq(Texts \X (Texts \cup {UndefinedValue})) :
                 \A i, j \in DOMAIN args : args[i][1] = args[j][1] => i = j}

ASSUME RegistrationAssumption ==
    /\ CodeUnits \in [Characters -> Nat]
    /\ \A c, d \in Characters : CodeUnits[c] = CodeUnits[d] => c = d
    /\ \A config \in Configs : config.namespace \in Texts
    /\ \A o \in Options : /\ o.keyType \in Texts /\ o.useCase \in Texts
                          /\ o.trackForInvalidation \in BOOLEAN
    /\ \A cacheKey \in CacheKeys : /\ cacheKey.id.text \in Texts
                                   /\ cacheKey.args \in Arguments
    /\ NoInstance \notin Texts /\ UndefinedValue \notin Texts

registrationVars == <<instance, useCases, wrapped, keys>>

RegistrationInit == instance = NoInstance /\ useCases = {} /\ wrapped = {} /\ keys = {}

-----------------------------------------------------------------------------
(* Keys *)

Delimiters == {":", "?", "&", "=", "#", "{", "}", "%"}

\* The two digits of an escape.
HexOf(ch) ==
    CASE ch = ":" -> "3A" [] ch = "?" -> "3F" [] ch = "&" -> "26" [] ch = "=" -> "3D"
      [] ch = "#" -> "23" [] ch = "{" -> "7B" [] ch = "}" -> "7D" [] OTHER -> "25"

HasBraces(text) == \E i \in DOMAIN text : text[i] \in {"{", "}"}
assertValidNamespace(namespace) == ~HasBraces(namespace)

\* A key that writes its components as they are.
encodeComponent_Raw(text) == text

\* encodeURIComponent: every delimiter is escaped, the escape character too.
encodeComponent(text) ==
    FlattenSeq([i \in DOMAIN text |->
        IF text[i] \in Delimiters THEN <<"%", HexOf(text[i])>> ELSE <<text[i]>>])

Joined(texts, separator) ==
    FlattenSeq([i \in DOMAIN texts |->
        IF i = 1 THEN texts[i] ELSE <<separator>> \o texts[i]])

joinUrnComponents(namespace, keyType, id) ==
    Joined(<<encodeComponent(namespace), encodeComponent(keyType),
             encodeComponent(id)>>, ":")

compareCodePoints(l, r) ==
    \E i \in DOMAIN r :
        /\ \A j \in 1..(i - 1) : j \in DOMAIN l /\ l[j] = r[j]
        /\ i \in DOMAIN l => CodeUnits[l[i]] < CodeUnits[r[i]]

\* Undefined arguments are dropped, the others sorted by name: the n-th has
\* n - 1 before it.
normalizeArgs(args) ==
    LET given == {arg \in ToSet(args) : arg[2] # UndefinedValue}
    IN  [n \in 1..Cardinality(given) |->
            CHOOSE arg \in given :
                n - 1 = Cardinality({other \in given :
                                       compareCodePoints(other[1], arg[1])})]

redisClusterHashTag(text) == <<"{">> \o text \o <<"}">>

prefix(k) ==
    LET raw == joinUrnComponents(k.namespace, k.keyType, k.id)
    IN  IF k.tracked THEN redisClusterHashTag(raw) ELSE raw

urn(k) ==
    prefix(k)
    \o (IF k.args = <<>> THEN <<>>
        ELSE <<"?">> \o Joined([i \in DOMAIN k.args |->
                 encodeComponent(k.args[i][1]) \o <<"=">>
                     \o encodeComponent(k.args[i][2])], "&"))
    \o <<"#">> \o encodeComponent(k.useCase)

redisKey(k) == urn(k) \o <<":", "dialcache-frame-v1">>
redisWatermarkKey(namespace, keyType, id) ==
    redisClusterHashTag(joinUrnComponents(namespace, keyType, id))
        \o <<"#", "watermark">>

\* What a hash tag may be made of.
invalidationPrefix(namespace, keyType, id) ==
    assertValidNamespace(namespace) /\ ~HasBraces(keyType) /\ ~HasBraces(id)

\* The constructor of DialCacheKey accepts k.
KeyAccepted(k) ==
    /\ assertValidNamespace(k.namespace)
    /\ k.tracked => invalidationPrefix(k.namespace, k.keyType, k.id)

\* A selector returns an id, or an object with an id and arguments; the id may
\* be a number, and is used by its digits.
buildKey(o, cacheKey) ==
    [namespace |-> instance, keyType |-> o.keyType, id |-> cacheKey.id.text,
     args |-> normalizeArgs(cacheKey.args), useCase |-> o.useCase,
     tracked |-> o.trackForInvalidation]

-----------------------------------------------------------------------------
(* The instance *)

SafePositive(n) == n \in Nat \ {0}
ValidDeadline(ms) == SafePositive(ms) /\ ms <= MAX_TIMER_DELAY_MS

RedisAccepted(redis) ==
    redis # UndefinedValue =>
        /\ ~redis.removedField
        /\ redis.readTimeoutMs # UndefinedValue => ValidDeadline(redis.readTimeoutMs)
        /\ redis.client # UndefinedValue

\* Omitted, or a function.
resolveStaleRecoveryPredicate(predicate) == predicate \in {"function", UndefinedValue}
resolveShadowMismatchDiff(hook) == hook \in {"function", UndefinedValue}
resolveFallbackTimeoutMs(value) == value \in {NullValue, UndefinedValue} \/ ValidDeadline(value)

ConfigAccepted(config) ==
    /\ ~config.removedField
    /\ assertValidNamespace(config.namespace)
    /\ config.localMaxSize \in Nat
    /\ config.shadowMaxInFlight # UndefinedValue =>
           SafePositive(config.shadowMaxInFlight)
    /\ resolveStaleRecoveryPredicate(config.predicate)
    /\ RedisAccepted(config.redis)

\* new DialCache(config); a rejected config constructs nothing.
constructor(config) ==
    /\ instance = NoInstance
    /\ instance' = IF ConfigAccepted(config) THEN config.namespace ELSE instance
    /\ UNCHANGED <<useCases, wrapped, keys>>

\* What cached() and getOrLoad() validate before anything else.
OptionsAccepted(o) ==
    /\ o.defaultConfig                        \* snapshotDefaultConfig returned
    /\ resolveFallbackTimeoutMs(o.fallbackTimeoutMs)
    /\ resolveShadowMismatchDiff(o.shadowMismatchDiff)
    /\ resolveStaleRecoveryPredicate(o.predicate)

Reserved(useCase) == useCase = <<"watermark">>

\* cached(fn, o): validation, then registerUseCase; a throw leaves no trace.
cached(o) ==
    /\ instance # NoInstance
    /\ LET ok == /\ OptionsAccepted(o)
                 /\ ~Reserved(o.useCase) /\ o.useCase \notin useCases
       IN  /\ useCases' = IF ok THEN useCases \cup {o.useCase} ELSE useCases
           /\ wrapped' = IF ok THEN wrapped \cup {o.useCase} ELSE wrapped
    /\ UNCHANGED <<instance, keys>>

\* A key that cannot be built sends the call to its loader, uncached.
executeCacheOperation(o, cacheKey) ==
    /\ Cardinality(keys) < MaxKeys
    /\ LET k == buildKey(o, cacheKey)
       IN  keys' = IF KeyAccepted(k) THEN keys \cup {k} ELSE keys
    /\ UNCHANGED <<instance, useCases, wrapped>>

\* A call of a wrapped function in an enabled region.
callCached(o, cacheKey) ==
    o.useCase \in wrapped /\ OptionsAccepted(o) /\ executeCacheOperation(o, cacheKey)

\* getOrLoad() registers nothing, so a use case may be used again and again.
getOrLoad(o, cacheKey) ==
    /\ instance # NoInstance
    /\ OptionsAccepted(o) /\ ~Reserved(o.useCase)
    /\ executeCacheOperation(o, cacheKey)

RegistrationNext ==
    \/ \E config \in Configs : constructor(config)
    \/ \E o \in Options : cached(o)
    \/ \E o \in Options, cacheKey \in CacheKeys :
           callCached(o, cacheKey) \/ getOrLoad(o, cacheKey)

RegistrationSpec == RegistrationInit /\ [][RegistrationNext]_registrationVars

-----------------------------------------------------------------------------
(* Properties *)

\* The text between the first "{" of a Redis key and the next "}": what Redis
\* Cluster hashes.
HashTag(text) ==
    LET opens == CHOOSE i \in DOMAIN text :
                     text[i] = "{" /\ \A j \in 1..(i - 1) : text[j] # "{"
        closes == CHOOSE i \in DOMAIN text :
                     /\ i > opens /\ text[i] = "}"
                     /\ \A j \in (opens + 1)..(i - 1) : text[j] # "}"
    IN  SubSeq(text, opens + 1, closes - 1)

\* Two calls share a Redis entry exactly when they name the same value: the
\* same entity, use case and argument assignment, whatever characters occur in
\* the components and in whatever order the arguments were written.  No value
\* is stored under a watermark's key, and a tracked value lies in the cluster
\* slot of its watermark (key.ts; redis-cache.ts, redisKey, redisWatermarkKey).
\* A use case is taken exactly when some cached() call returned its function: a
\* registration that threw can be repeated (dialcache.ts, cached() registers after
\* every validation).
NamesAreExact ==
    /\ useCases = wrapped
    /\ \A k, l \in keys :
          LET mark == redisWatermarkKey(l.namespace, l.keyType, l.id)
          IN  /\ redisKey(k) = redisKey(l) <=>
                    /\ [k EXCEPT !.args = <<>>] = [l EXCEPT !.args = <<>>]
                    /\ ToSet(k.args) = ToSet(l.args)
              /\ redisKey(k) # mark
              /\ l.tracked => HashTag(redisKey(l)) = HashTag(mark)
=============================================================================
