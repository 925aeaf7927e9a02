--------------------------- MODULE MutationShards ---------------------------
(* Mutation measurements of formal/tools: a measurer runs the whole catalog, one *)
(* shard of it or named mutants in a copy of the tree, saving its report as it   *)
(* goes, and a merge turns the shards' reports into the complete one.  Measurers *)
(* run side by side, may be cancelled at any step, and share the report files.   *)
EXTENDS Naturals, Sequences

CONSTANTS Catalog,     \* the mutants, in catalog order
          Counts,      \* shard counts in use
          Languages,   \* the measured ports
          Named,       \* sets of mutants a partial run may name
          Environments, \* what a runner's baselines may look like
          None,        \* an absent report, field or process
          MaxStarts,   \* bound on the measurements of each port
          MaxEdits     \* bound on edits of the tree

VARIABLES language,    \* the port measured
          tree,        \* version of the fingerprinted inputs, the catalog included
          reports,     \* the report.json of each directory
          measurer,    \* the process measuring into each directory
          starts
shardVars == <<language, tree, reports, measurer, starts>>

\* selectionDirectory: one process keeps the report root, a shard has its own
\* directory, named mutants go to partial/.
Root == [index |-> 1, count |-> 1]
Partial == [index |-> 0, count |-> 0]
Shards == UNION {[index : 1..count, count : {count}] : count \in Counts}
selectionDirectory == {Root, Partial} \cup Shards

\* What a report.json may hold: the selection, the mutants measured so far, what
\* the baselines looked like, the fingerprint and the number of merged shards.
Mutants == {Catalog[k] : k \in DOMAIN Catalog}
Measured == [id : Mutants, held : BOOLEAN, of : Nat]
ReportFiles == [complete : BOOLEAN, error : BOOLEAN, ids : Seq(Mutants) \cup {None},
                mutations : Seq(Measured), baselines : Environments \cup {None},
                inputs : Nat \cup {None}, shards : Nat]

\* One shard is no shard (selectionDirectory); None is nothing else.
ASSUME ShardsAssumption ==
    /\ Catalog \in Seq(STRING)
    /\ Counts \subseteq Nat \ {0, 1}
    /\ None \notin Nat /\ None \notin Environments /\ None \notin ReportFiles

Stub == [complete |-> FALSE, error |-> FALSE, ids |-> None, mutations |-> <<>>,
         baselines |-> None, inputs |-> None, shards |-> 0]

Init ==
    /\ language \in Languages
    /\ tree = 0 /\ starts = 0
    /\ reports = [d \in selectionDirectory |-> None]
    /\ measurer = [d \in selectionDirectory |-> None]

-----------------------------------------------------------------------------
(* Selection *)

\* A contiguous slice; the first (mutations mod count) shards take one more.
partitionMutations(d) ==
    LET base == Len(Catalog) \div d.count
        extra == Len(Catalog) % d.count
        longer == IF d.index - 1 <= extra THEN d.index - 1 ELSE extra
        start == (d.index - 1) * base + longer IN
    SubSeq(Catalog, start + 1, start + base + (IF d.index <= extra THEN 1 ELSE 0))

selectMutations(d, only) ==
    IF d = Partial THEN SelectSeq(Catalog, LAMBDA m : m \in only)
    ELSE partitionMutations(d)

-----------------------------------------------------------------------------
(* One measurement *)

\* An invalidation that leaves a merged report above the shard standing.
invalidate_Own(d) == [reports EXCEPT ![d] = Stub]

\* What a measurement writes before it reads anything: a partial run only its
\* own report, any other also the complete report above it.
invalidate(d) ==
    IF d = Partial THEN [reports EXCEPT ![d] = Stub]
    ELSE [reports EXCEPT ![Root] = Stub, ![d] = Stub]

start(d) ==
    /\ measurer[d] = None /\ starts < MaxStarts[language]
    /\ starts' = starts + 1
    /\ reports' = invalidate(d)
    /\ measurer' = [measurer EXCEPT ![d] =
           [step |-> "prepare", report |-> Stub, workspace |-> None]]
    /\ UNCHANGED <<language, tree>>

At(d, step) == measurer[d] # None /\ measurer[d].step = step

\* save() writes the whole report the process holds; a finished process is gone.
Saves(d, report, step) ==
    /\ reports' = [reports EXCEPT ![d] = report]
    /\ measurer' = [measurer EXCEPT ![d] =
           IF step = None THEN None ELSE [@ EXCEPT !.report = report, !.step = step]]
    /\ UNCHANGED <<language, tree, starts>>

\* The catch of every measurer: an incomplete report naming the error.
Throws(d) ==
    Saves(d, [measurer[d].report EXCEPT !.complete = FALSE, !.error = TRUE], None)

\* TypeScript selects first; a failed preflight is outside the try and leaves the
\* stub.  It copies the checkout and hashes the checkout afterwards.
prepareTypescript(d, only) ==
    /\ language = "ts" /\ At(d, "prepare")
    /\ \/ Saves(d, [Stub EXCEPT !.ids = selectMutations(d, only)], "copy")
       \/ /\ measurer' = [measurer EXCEPT ![d] = None]
          /\ UNCHANGED <<language, tree, reports, starts>>
copyTypescript(d) ==
    /\ At(d, "copy")
    /\ measurer' = [measurer EXCEPT ![d].step = "fingerprint", ![d].workspace = tree]
    /\ UNCHANGED <<language, tree, reports, starts>>
fingerprintTypescript(d) ==
    /\ At(d, "fingerprint")
    /\ measurer' = [measurer EXCEPT ![d].step = "baselines", ![d].report.inputs = tree]
    /\ UNCHANGED <<language, tree, reports, starts>>

\* Go and Rust copy first and read the catalog, the anchors and the fingerprints
\* in the copy; anything missing there is an error of the report.
Copies(d, only) ==
    \/ /\ measurer' = [measurer EXCEPT ![d] =
              [step |-> "baselines", workspace |-> tree,
               report |-> [Stub EXCEPT !.ids = selectMutations(d, only),
                                       !.inputs = tree]]]
       /\ UNCHANGED <<language, tree, reports, starts>>
    \/ Throws(d)
prepareGo(d, only) == language = "go" /\ At(d, "prepare") /\ Copies(d, only)
prepareRust(d, only) == language = "rust" /\ At(d, "prepare") /\ Copies(d, only)

\* Every shard measures every baseline, which must pass.  `seen` is what the
\* environment made of them.
Baselines(d, seen) ==
    /\ At(d, "baselines")
    /\ \/ Saves(d, [measurer[d].report EXCEPT !.baselines = seen], "measure")
       \/ Throws(d)
baselinesTypescript(d, seen) == language = "ts" /\ Baselines(d, seen)
baselinesGo(d, seen) == language = "go" /\ Baselines(d, seen)
baselinesRust(d, seen) == language = "rust" /\ Baselines(d, seen)

\* The next mutant: its edits, its compilation and every cohort and boundary.  A
\* run keeps all required detections, loses one, or is no evidence at all.
Measures(d, held) ==
    LET report == measurer[d].report
        m == report.ids[Len(report.mutations) + 1] IN
    /\ At(d, "measure") /\ Len(report.mutations) < Len(report.ids)
    /\ \/ Saves(d, [report EXCEPT !.mutations = Append(@,
                       [id |-> m, held |-> held, of |-> measurer[d].workspace])],
                "measure")
       \/ Throws(d)

\* A mutant that does not compile is recorded as a lost detection, in Rust it ends
\* the measurement.
noncompilingResult(compiles, held) == compiles /\ held
measureTypescript(d, compiles, held) ==
    language = "ts" /\ Measures(d, noncompilingResult(compiles, held))
measureGo(d, compiles, held) ==
    language = "go" /\ Measures(d, noncompilingResult(compiles, held))
measureRust(d, compiles, held) ==
    language = "rust" /\ compiles /\ Measures(d, held)

Regressions(report) == {k \in DOMAIN report.mutations : ~report.mutations[k].held}

\* gateDetections: completion is granted to a summary without regressions only.
gateDetections(report, summarize) ==
    [report EXCEPT !.complete = summarize /\ Regressions(report) = {},
                   !.error = Regressions(report) # {}]

\* A partial run is not gated, a shard gates its slice and stays incomplete.
Finishes(d) ==
    LET report == measurer[d].report IN
    /\ At(d, "measure") /\ Len(report.mutations) = Len(report.ids)
    /\ Saves(d, IF d = Partial THEN report ELSE gateDetections(report, d = Root), None)
finishTypescript(d) == language = "ts" /\ Finishes(d)
finishGo(d) == language = "go" /\ Finishes(d)
finishRust(d) == language = "rust" /\ Finishes(d)

\* A hard cancellation bypasses the handlers: the files stay as they are.
cancel(d) ==
    /\ measurer[d] # None
    /\ measurer' = [measurer EXCEPT ![d] = None]
    /\ UNCHANGED <<language, tree, reports, starts>>

-----------------------------------------------------------------------------
(* Merge *)

readShardReports == {d \in Shards : reports[d] # None}

\* The concatenation of parts, in order.
flatMap(parts) ==
    LET upTo[i \in 0..Len(parts)] == IF i = 0 THEN <<>> ELSE upTo[i - 1] \o parts[i]
    IN  upTo[Len(parts)]

Merged(count) ==
    flatMap([i \in 1..count |-> reports[[index |-> i, count |-> count]].mutations])

Ids(mutations) == [k \in DOMAIN mutations |-> mutations[k].id]

\* What mergeShardReports requires of the reports it finds.
mergeable(count) ==
    LET present == readShardReports
        first == reports[[index |-> 1, count |-> count]] IN
    /\ present = {d \in Shards : d.count = count}
    /\ \A d \in present :
          /\ ~reports[d].complete /\ ~reports[d].error
          /\ reports[d].ids # None
          /\ reports[d].ids = Ids(reports[d].mutations)
          /\ reports[d].inputs = first.inputs
          /\ reports[d].baselines = first.baselines
    /\ first.inputs = tree
    /\ Ids(Merged(count)) = Catalog

mergeShardReports(count) ==
    [reports[[index |-> 1, count |-> count]] EXCEPT
        !.ids = None, !.mutations = Merged(count), !.shards = count]

\* The merge job runs alone: it replaces the root report by an incomplete one and
\* that by the gated merge, or leaves the reason of the refusal.
mergeMutationReports ==
    /\ reports' = [reports EXCEPT ![Root] =
           IF \E count \in Counts : mergeable(count)
           THEN gateDetections(mergeShardReports(CHOOSE c \in Counts : mergeable(c)), TRUE)
           ELSE [Stub EXCEPT !.error = TRUE]]
    /\ UNCHANGED <<language, tree, measurer, starts>>

-----------------------------------------------------------------------------

\* A developer edits the checkout while measurements run.
Edit ==
    /\ tree < MaxEdits
    /\ tree' = tree + 1
    /\ UNCHANGED <<language, reports, measurer, starts>>

Next ==
    \/ \E d \in selectionDirectory :
          \/ start(d) \/ copyTypescript(d) \/ fingerprintTypescript(d) \/ cancel(d)
          \/ \E only \in Named : \/ prepareTypescript(d, only)
                                 \/ prepareGo(d, only) \/ prepareRust(d, only)
          \/ \E seen \in Environments : \/ baselinesTypescript(d, seen)
                                        \/ baselinesGo(d, seen) \/ baselinesRust(d, seen)
          \/ \E compiles, held \in BOOLEAN : \/ measureTypescript(d, compiles, held)
                                             \/ measureGo(d, compiles, held)
                                             \/ measureRust(d, compiles, held)
          \/ finishTypescript(d) \/ finishGo(d) \/ finishRust(d)
    \/ mergeMutationReports
    \/ Edit

ShardsSpec == Init /\ [][Next]_shardVars

-----------------------------------------------------------------------------

\* A complete root report holds every mutant of the catalog once, in order, each
\* with all its required detections, measured in the tree it names (TypeScript
\* hashes the checkout after copying it, so there the copy may be older).  If it
\* was merged, the shards beneath it are still the ones it was merged from.
CompleteReportIsEvidence ==
    LET report == reports[Root] IN
    report # None /\ report.complete =>
       /\ Ids(report.mutations) = Catalog
       /\ Regressions(report) = {} /\ ~report.error
       /\ report.baselines # None
       /\ language # "ts" =>
             \A k \in DOMAIN report.mutations : report.mutations[k].of = report.inputs
       /\ report.shards > 0 =>
             /\ readShardReports = {d \in Shards : d.count = report.shards}
             /\ Merged(report.shards) = report.mutations
=============================================================================
