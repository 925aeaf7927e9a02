------------------------------ MODULE ShadowLog ------------------------------
(* The warning of one confirmed shadow mismatch: the built-in JSON difference, *)
(* its bounded fields and the one logging outcome (shadow-log-json.ts and      *)
(* warnShadowMismatch in dialcache.ts).                                        *)
(* A JSON value is [kind, value], [kind, items] or [kind, members]; a native   *)
(* value is [defined, json] with json = Null when it has no JSON rendering.    *)
(* Text that is only measured is a sequence of UTF-16 code units.              *)
EXTENDS Naturals, Sequences, SequencesExt, FiniteSetsExt

CONSTANTS Details,       \* mismatches to log: [plan, cached, source, hook]
          Pointers,      \* token lists for the pointer cut
          Null,          \* null
          Omitted,       \* a field the warning does not have
          NoHook,        \* no shadowMismatchDiff was given
          MaxEntries, MaxDepth, PathMaxBytes,
          MarkerBytes    \* length of SHADOW_LOG_TRUNCATION_MARKER

VARIABLES mismatch,      \* the details being logged, or Null
          warning,       \* what logger.warn received, or Null
          delivery,      \* "none", "pending" (a promise) or "done"
          outcomes       \* shadowMismatchLogging events, in order

shadowLogVars == <<mismatch, warning, delivery, outcomes>>

Init ==
    mismatch = Null /\ warning = Null /\ delivery = "none" /\ outcomes = <<>>

-----------------------------------------------------------------------------
(* The walk *)

\* Member names and decimal indexes, in the order the walk visits them.
Tokens == <<"0", "1", "a", "b">>
TokenIndex(token) == CHOOSE i \in DOMAIN Tokens : Tokens[i] = token

Children(v) == IF v.kind = "array"
               THEN [t \in {Tokens[i] : i \in DOMAIN v.items} |->
                        v.items[TokenIndex(t)]]
               ELSE v.members

jsonValuesEqual(left, right) == left = right

\* A walk that also pairs the common indexes of arrays of different lengths.
Recurses_IntoAnyArray(left, right, depth) ==
    /\ left.kind = right.kind /\ left.kind # "primitive"
    /\ depth < MaxDepth

\* The walk goes on below a pair of objects, or of arrays of equal length.
Recurses(left, right, depth) ==
    /\ left.kind = right.kind /\ left.kind # "primitive"
    /\ depth < MaxDepth
    /\ left.kind = "array" => Len(left.items) = Len(right.items)

Side(members, name) == IF name \in DOMAIN members THEN members[name] ELSE Omitted

RECURSIVE walk(_, _, _)
\* Every difference below a pair at path, in walk order.
walk(left, right, path) ==
    IF Recurses(left, right, Len(path)) THEN
        LET l == Children(left)
            r == Children(right)
            names == SelectSeq(Tokens,
                         LAMBDA t : t \in DOMAIN l \cup DOMAIN r)
            below(name) ==
                IF name \in DOMAIN l \cap DOMAIN r
                THEN walk(l[name], r[name], Append(path, name))
                ELSE <<[path |-> Append(path, name), cached |-> Side(l, name),
                        source |-> Side(r, name)]>>
        IN  FlattenSeq([i \in DOMAIN names |-> below(names[i])])
    ELSE IF jsonValuesEqual(left, right) THEN <<>>
    ELSE <<[path |-> path, cached |-> left, source |-> right]>>

Kept(entries) == SubSeq(entries, 1, Min({Len(entries), MaxEntries}))

\* The kept entries and the uncut count.
walkJson(cached, source) ==
    LET all == walk(cached, source, <<>>)
    IN  [entries |-> Kept(all), count |-> Len(all)]

\* A side that is Null here is absent: it never failed to render.
walkRenderedJson(cachedJson, sourceJson) ==
    IF cachedJson = sourceJson THEN [entries |-> <<>>, count |-> 0]
    ELSE IF Null \in {cachedJson, sourceJson}
    THEN [entries |-> <<[path |-> <<>>,
              cached |-> IF cachedJson = Null THEN Omitted ELSE cachedJson,
              source |-> IF sourceJson = Null THEN Omitted ELSE sourceJson]>>,
          count |-> 1]
    ELSE walkJson(cachedJson, sourceJson)

-----------------------------------------------------------------------------
(* Pointers and their cut *)

escapePointerToken(name) ==
    FlattenSeq([i \in DOMAIN name |->
        CASE name[i] = "~" -> <<"~", "0">>
          [] name[i] = "/" -> <<"~", "1">>
          [] OTHER -> <<name[i]>>])

First(units, n) == SubSeq(units, 1, Min({n, Len(units)}))

RECURSIVE PointerFrom(_, _)
PointerFrom(path, tokens) ==
    IF tokens = <<>> \/ Len(path) > PathMaxBytes THEN path
    ELSE PointerFrom(path \o <<"/">>
             \o escapePointerToken(First(Head(tokens), PathMaxBytes)),
                     Tail(tokens))

\* Stops once the pointer is longer than its clamp can keep.
keptPointer(tokens) == PointerFrom(<<>>, tokens)

RECURSIVE CodePoints(_)
\* UTF-8 encoding: [units, bytes] per code point; "H" then "L" is a surrogate
\* pair, and one without the other becomes the replacement character.
CodePoints(units) ==
    IF units = <<>> THEN <<>>
    ELSE IF Len(units) > 1 /\ units[1] = "H" /\ units[2] = "L"
    THEN <<[units |-> <<"H", "L">>, bytes |-> 4]>>
             \o CodePoints(SubSeq(units, 3, Len(units)))
    ELSE <<CASE units[1] \in {"H", "L"} -> [units |-> <<"R">>, bytes |-> 3]
             [] units[1] = "e" -> [units |-> <<"e">>, bytes |-> 2]
             [] OTHER -> [units |-> <<units[1]>>, bytes |-> 1]>>
             \o CodePoints(Tail(units))

ByteLength(points) == FoldSeq(LAMBDA p, n : p.bytes + n, 0, points)

\* encodeInto writes whole code points only.
clampUtf8(units, maxBytes) ==
    LET points == CodePoints(units)
        fits == {n \in 0..Len(points) :
                     ByteLength(SubSeq(points, 1, n)) <= maxBytes - MarkerBytes}
        cut == SubSeq(points, 1, Max(fits))
    IN  IF ByteLength(points) <= maxBytes THEN units
        ELSE FlattenSeq([i \in DOMAIN cut |-> cut[i].units]) \o <<"...">>

-----------------------------------------------------------------------------
(* The warning *)

renderJson(native) == native.json

\* What the hook yields: Null when it throws, is asynchronous or returns no
\* array; a missing or undefined side is omitted from its entry.
runShadowMismatchHook(hook) ==
    IF hook = Null THEN Null
    ELSE [entries |-> Kept(hook), count |-> Len(hook)]

\* The built-in walk holds rendered sides, a hook's entries hold native ones.
Renders(side) ==
    side = Omitted \/ ("json" \in DOMAIN side => renderJson(side) # Null)

renderDiffJson(entries) ==
    IF \A i \in DOMAIN entries :
           Renders(entries[i].cached) /\ Renders(entries[i].source)
    THEN entries ELSE Null

\* The fields and the failures of the hook and of the two sides.
RenderedContent(d) ==
    LET builtIn == d.hook = NoHook
        renderSides == d.plan.value \/ (d.plan.diff # "off" /\ builtIn)
        cachedJson == IF renderSides THEN renderJson(d.cached) ELSE Null
        sourceJson == IF renderSides THEN renderJson(d.source) ELSE Null
        sideFailed == renderSides /\
            ((cachedJson = Null /\ d.cached.defined)
                \/ (sourceJson = Null /\ d.source.defined))
        diff == IF d.plan.diff = "off" THEN Null
                ELSE IF ~builtIn THEN runShadowMismatchHook(d.hook)
                ELSE IF sideFailed THEN Null
                ELSE walkRenderedJson(cachedJson, sourceJson)
        asked(when, value) == IF when THEN value ELSE Omitted
        diffJson == IF diff = Null THEN Null ELSE renderDiffJson(diff.entries)
    IN  [mismatchPaths |-> asked(d.plan.diff # "off",
             IF diff = Null THEN Null
             ELSE [i \in DOMAIN diff.entries |-> diff.entries[i].path]),
         mismatchPathCount |-> asked(d.plan.diff # "off",
             IF diff = Null THEN Null ELSE diff.count),
         diffJson |-> asked(d.plan.diff = "values", diffJson),
         cachedValueJson |-> asked(d.plan.value, cachedJson),
         sourceValueJson |-> asked(d.plan.value, sourceJson),
         failure |->
             IF d.plan.diff # "off" /\ ~builtIn /\ diff = Null THEN "hook_error"
             ELSE IF sideFailed THEN "render_error"
             ELSE Null]

renderShadowMismatchLog(d) ==
    LET content == RenderedContent(d)
    IN  IF content.failure = Null /\ content.diffJson = Null
        THEN [content EXCEPT !.failure = "render_error"] ELSE content

\* The warning is logged once; a failed construction decides the outcome, else
\* the logger does: it returns, throws, or returns a promise.
warnShadowMismatch(logger) ==
    /\ mismatch = Null
    /\ mismatch' \in Details
    /\ warning' = renderShadowMismatchLog(mismatch')
    /\ delivery' = IF warning'.failure = Null /\ logger = "promises"
                   THEN "pending" ELSE "done"
    /\ outcomes' = IF warning'.failure # Null THEN <<warning'.failure>>
                   ELSE IF logger = "returns" THEN <<"logged">>
                   ELSE IF logger = "throws" THEN <<"logger_error">>
                   ELSE <<>>

\* fulfills() never rejects: the promise's settlement is the outcome.
loggerSettles(succeeded) ==
    /\ delivery = "pending"
    /\ delivery' = "done"
    /\ outcomes' = Append(outcomes,
                          IF succeeded THEN "logged" ELSE "logger_error")
    /\ UNCHANGED <<mismatch, warning>>

Next ==
    \/ \E logger \in {"returns", "throws", "promises"} : warnShadowMismatch(logger)
    \/ \E succeeded \in BOOLEAN : loggerSettles(succeeded)

-----------------------------------------------------------------------------
(* Properties *)

RECURSIVE At(_, _)
\* The part of v at a path, Omitted when it has none.
At(v, path) ==
    IF path = <<>> THEN v
    ELSE IF v.kind = "primitive" THEN Omitted
    ELSE IF Head(path) \notin DOMAIN Children(v) THEN Omitted
    ELSE At(Children(v)[Head(path)], Tail(path))

Paths == UNION {[1..n -> Range(Tokens)] : n \in 0..(MaxDepth + 1)}

\* Where two values differ: the pairs reached through containers of the same
\* shape that are not themselves such a pair, and are not equal.
DifferAt(c, s) ==
    LET same(path) == /\ Omitted \notin {At(c, path), At(s, path)}
                      /\ At(c, path).kind = At(s, path).kind
                      /\ At(c, path).kind # "primitive"
                      /\ At(c, path).kind = "array" =>
                             Len(At(c, path).items) = Len(At(s, path).items)
                      /\ Len(path) < MaxDepth
    IN  {path \in Paths :
            /\ At(c, path) # At(s, path)
            /\ ~same(path)
            /\ \A n \in 0..(Len(path) - 1) : same(SubSeq(path, 1, n))}

\* The built-in difference of two rendered values.
Difference(c, s) ==
    LET diff == walkRenderedJson(c, s)
        paths == [i \in DOMAIN diff.entries |-> diff.entries[i].path]
    IN  /\ diff.count = Cardinality(DifferAt(c, s))
        /\ Len(paths) = Min({diff.count, MaxEntries})
        /\ IsInjective(paths) /\ Range(paths) \subseteq DifferAt(c, s)
        /\ \A i \in DOMAIN paths :
               /\ diff.entries[i].cached = At(c, paths[i])
               /\ diff.entries[i].source = At(s, paths[i])

WholePointer(tokens) ==
    FlattenSeq([i \in DOMAIN tokens |-> <<"/">> \o escapePointerToken(tokens[i])])

\* A warning tells exactly what differs, and says so when it cannot.  Its
\* difference names every place where the rendered values differ once, with the
\* sides found there, and counts the ones its cap cuts off.  The early stop in
\* building a pointer is invisible: the logged pointer is the clamp of the whole
\* one, whatever surrogate pairs the stop splits (keptPointer: "The clamped
\* pointer is unchanged").  A requested field is null only for an absent side or
\* a flagged failure, and each warning gets exactly one outcome, once the logger
\* has settled (warnShadowMismatch: "its one `shadowMismatchLogging` event").
WarningIsExact ==
    /\ mismatch = Null =>
          \A tokens \in Pointers :
             clampUtf8(keptPointer(tokens), PathMaxBytes)
                 = clampUtf8(WholePointer(tokens), PathMaxBytes)
    /\ mismatch # Null /\ Null \notin {mismatch.cached.json, mismatch.source.json} =>
          Difference(mismatch.cached.json, mismatch.source.json)
    /\ warning # Null =>
          /\ Len(outcomes) = IF delivery = "pending" THEN 0 ELSE 1
          /\ warning.failure = Null =>
                /\ Null \notin {warning.mismatchPaths, warning.mismatchPathCount,
                                warning.diffJson}
                /\ warning.cachedValueJson = Null => ~mismatch.cached.defined
                /\ warning.sourceValueJson = Null => ~mismatch.source.defined
          /\ warning.failure # Null => outcomes = <<warning.failure>>
=============================================================================
