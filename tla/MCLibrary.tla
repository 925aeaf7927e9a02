----------------------------- MODULE MCLibrary ------------------------------
(* A TLC instance of five parts of the library that meet only through values: *)
(* the payload envelope, the runtime policy, the local layer, registration    *)
(* with its keys, and the shadow mismatch warning.  A behaviour exercises one *)
(* of them, the others rest in an initial state.                              *)
EXTENDS PayloadEnvelope, LocalCache, RuntimeConfig, Registration, TLC

CONSTANTS Omitted, NoHook

VARIABLES component,
          mismatch, warning, delivery, outcomes

-----------------------------------------------------------------------------
(* Envelopes: every payload of up to three bytes over four byte values, three *)
(* of which are envelope bytes, runs of up to five, and a toy codec that      *)
(* shortens runs, lengthens everything else and rejects some byte strings.    *)

RunOf(b, n) == [i \in 1 .. n |-> b]

IsRun(s) == Len(s) > 1 /\ s = RunOf(s[1], Len(s))

ByteStrings ==
    UNION {[1 .. n -> Bytes] : n \in 0 .. 3} \cup {RunOf(b, n) : b \in Bytes, n \in 4 .. 5}

AllPayloads == [kind : {"string", "buffer"}, bytes : ByteStrings]

Compress(s) ==
    IF s = <<>> THEN <<3>>
    ELSE IF IsRun(s) THEN <<s[1], Len(s) - 2>>
    ELSE <<3, 3>> \o s

Decompress(s) ==
    IF s = <<3>> THEN <<>>
    ELSE IF Len(s) = 2 THEN RunOf(s[1], s[2] + 2)
    ELSE IF Len(s) > 2 /\ s[1] = 3 /\ s[2] = 3 THEN Rest(Rest(s))
    ELSE Failure

\* Another version, a truncated frame, an unknown encoding, and legacy
\* payloads without an envelope.
Foreign ==
    {<<2, 1, 0, 3>>, <<1, 1>>, <<1, 1, 7>>, <<1, 1, 1>>, <<1, 1, 1, 0, 3>>,
     <<1, 1, 1, 1, 3>>, <<1, 1, 1, 2, 3, 3, 3>>}

-----------------------------------------------------------------------------
(* The local layer *)

\* Keys are interchangeable, and so are values.
Symmetry == Permutations(Keys) \cup Permutations(Values)

-----------------------------------------------------------------------------
(* Policies.  The groups of a config are resolved independently of each       *)
(* other, so one group of each config varies at a time, with every            *)
(* combination of leaves within it.                                           *)

Flag == {Undefined, Malformed, TRUE, FALSE}

\* The remote layer and stale recovery, which is checked against its TTL.
RemoteVariants ==
    {[EmptyConfig EXCEPT !.ttlSec["remote"] = ttlSec, !.ramp["remote"] = ramp,
                       !.staleOnErrorMaxAgeSec = maxAge] :
        ttlSec \in {Undefined, Malformed, 1, 2, 4},
        ramp \in {Undefined, Malformed, 0, 50, 100},
        maxAge \in {Undefined, Malformed, 0, 1, 2, 3}}

\* The request-local layer, coalescing, the local layer and the deadline.
FlagVariants ==
    {[EmptyConfig EXCEPT !.requestLocal = requestLocal, !.coalesce = coalesce,
                       !.ttlSec["local"] = 1, !.ramp["local"] = ramp,
                       !.remoteReadTimeoutMs = timeout] :
        requestLocal \in Flag, coalesce \in Flag, ramp \in {Undefined, 0, 50},
        timeout \in {Undefined, Malformed, 0, 5}}

Loggings ==
    {Undefined, Malformed} \cup
    {[value |-> value, diff |-> diff] :
        value \in Flag, diff \in {"off", "paths", "values", Undefined, Malformed}}

ShadowVariants ==
    {[EmptyConfig EXCEPT !.shadow =
        [ramp |-> ramp, logMismatches |-> shorthand, mismatchLogging |-> logging]] :
        ramp \in {Undefined, Malformed, 100}, shorthand \in Flag, logging \in Loggings}

Broken ==
    {Malformed, [EmptyConfig EXCEPT !.ttlSec = Malformed],
     [EmptyConfig EXCEPT !.ramp = Malformed], [EmptyConfig EXCEPT !.shadow = Malformed]}

Variants == RemoteVariants \cup FlagVariants \cup ShadowVariants \cup Broken

\* The key is in the first half of the local and remote cohorts and in the
\* second half of the shadow cohort.
KeySample ==
    [cohort \in {"local", "remote", "shadow"} |-> IF cohort = "shadow" THEN 75 ELSE 25]

-----------------------------------------------------------------------------
(* Registration.  Component texts carry the characters that the key grammar   *)
(* gives a meaning: the separators, the Cluster hash tag, the argument        *)
(* delimiters.  The reserved name counts as one character.                    *)

Collation == <<"#", "%", "&", "1", ":", "=", "?", "a", "b", "watermark", "{", "}">>
Units ==
    [ch \in ToSet(Collation) |-> CHOOSE i \in DOMAIN Collation : Collation[i] = ch]

ConstructorArguments ==
    {[removedField |-> FALSE, namespace |-> n, localMaxSize |-> m,
      shadowMaxInFlight |-> s, predicate |-> UndefinedValue, redis |-> UndefinedValue] :
        n \in {<<"a">>, <<"a", ":">>, <<"{">>}, m \in {-1, 0}, s \in {UndefinedValue, 0}}

CachedOptions ==
    {[useCase |-> c, keyType |-> t, trackForInvalidation |-> tracked,
      defaultConfig |-> TRUE, fallbackTimeoutMs |-> f,
      shadowMismatchDiff |-> UndefinedValue, predicate |-> UndefinedValue] :
        c \in {<<"a">>, <<"watermark">>}, t \in {<<"a">>, <<"a", ":">>},
        tracked \in BOOLEAN, f \in {UndefinedValue, 0}}

Argument(name, value) == <<name, value>>

SelectedKeys ==
    {[id |-> [text |-> i], args |-> a] :
        i \in {<<"a">>, <<":", "a">>, <<"a", "#">>, <<"{">>},
        a \in {<<>>,
               <<Argument(<<"a">>, <<"1">>), Argument(<<"b">>, <<"1">>)>>,
               <<Argument(<<"b">>, <<"1">>), Argument(<<"a">>, <<"1">>)>>,
               <<Argument(<<"a">>, <<"1", "&", "b", "=", "1">>)>>,
               <<Argument(<<"a">>, UndefinedValue)>>}}

-----------------------------------------------------------------------------
(* Mismatch warnings: pairs of small JSON values nested one level deeper than *)
(* the walk goes, and every plan, rendering failure and hook.                 *)

Primitive(v) == [kind |-> "primitive", value |-> v]
Array(s) == [kind |-> "array", items |-> s]
Object(f) == [kind |-> "object", members |-> f]
Rendered(j) == [defined |-> TRUE, json |-> j]
NoValue == [defined |-> FALSE, json |-> Null]
Unrenderable == [defined |-> TRUE, json |-> Null]

Letters == {Primitive("x"), Primitive("y")}
Jsons ==
    Letters \cup {Array(<<>>), Array(<<Primitive("x")>>)} \cup
    {Object(f) : f \in UNION {[S -> Letters \cup
        {Array(<<Primitive("x"), Primitive("y")>>), Array(<<Primitive("y"), Primitive("x")>>),
         Array(<<Primitive("y")>>), Object([n \in {"b"} |-> Primitive("x")])}] :
            S \in SUBSET {"a", "b"}}}

HookEntry(c, s) == [path |-> <<"a">>, cached |-> c, source |-> s]
ThreeEntries == [i \in 1 .. 3 |-> HookEntry(Omitted, Rendered(Primitive("x")))]

MismatchDetails ==
    {[plan |-> [value |-> FALSE, diff |-> "values"], cached |-> Rendered(c),
      source |-> Rendered(s), hook |-> NoHook] : c \in Jsons, s \in Jsons}
    \cup
    [plan : [value : BOOLEAN, diff : {"off", "paths", "values"}],
     cached : {NoValue, Unrenderable, Rendered(Primitive("x"))},
     source : {NoValue, Unrenderable, Rendered(Primitive("y")), Rendered(Primitive("x"))},
     hook : {NoHook, Null, <<>>, <<HookEntry(Rendered(Primitive("x")), Unrenderable)>>,
             ThreeEntries}]

\* Names of ASCII, two-byte, escaped and surrogate code units.
MemberNames(n) == UNION {[1 .. m -> {"a", "e", "/", "H", "L"}] : m \in 0 .. n}
PointerTokens ==
    {<<n>> : n \in MemberNames(5)} \cup (MemberNames(3) \X MemberNames(3))

Log == INSTANCE ShadowLog WITH
    Details <- MismatchDetails, Pointers <- PointerTokens, MaxEntries <- 2,
    MaxDepth <- 1, PathMaxBytes <- 5, MarkerBytes <- 2

-----------------------------------------------------------------------------

shadowLogVars == <<mismatch, warning, delivery, outcomes>>

MCInit ==
    /\ component \in {"envelope", "local", "config", "registration", "log"}
    /\ IF component = "envelope" THEN EnvelopeInit
       ELSE compression = Null /\ stored = Null /\ written = Null /\ reply = Null
    /\ LocalInit /\ (component # "local" => maxSize = 0)
    /\ ConfigInit /\ RegistrationInit /\ Log!Init

\* Only the component of the behaviour moves.
Rests(c) ==
    /\ component = c /\ UNCHANGED component
    /\ c # "envelope" => UNCHANGED envelopeVars
    /\ c # "local" => UNCHANGED localVars
    /\ c # "config" => UNCHANGED configVars
    /\ c # "registration" => UNCHANGED registrationVars
    /\ c # "log" => UNCHANGED shadowLogVars

MCNext ==
    \/ Rests("envelope") /\ EnvelopeNext
    \/ Rests("local") /\ LocalNext
    \/ Rests("config") /\ ConfigNext
    \/ Rests("registration") /\ RegistrationNext
    \/ Rests("log") /\ Log!Next

MCSpec == MCInit /\ [][MCNext]_<<component, envelopeVars, localVars, configVars,
                                     registrationVars, shadowLogVars>>

-----------------------------------------------------------------------------
(* The property of the instance    *)

\* A mismatch warning tells exactly what differs (ShadowLog,
\* renderShadowMismatchLog).
WarningIsExact == component = "log" => Log!WarningIsExact
=============================================================================
