----------------------------- MODULE Witnesses -----------------------------
(* The witness gate of formal/tools/witnesses.mjs: classifiers credit labels to  *)
(* the histories of a generated corpus, the gate compares the hits with a        *)
(* recorded baseline, and ports reuse the evidence files it writes.  Between its *)
(* commands a developer regenerates corpora, edits classifiers and changes the   *)
(* manifest's seed.                                                              *)
EXTENDS Integers, Sequences, FiniteSets, SequencesExt

CONSTANTS Profiles,
          Sampled, Regressions, \* file names of the two corpus directories
          Corpora,        \* what a generation may leave: file name -> history, a
                          \* history being [steps, shadow, private] and a step
                          \* [action, outcome]
          Actions,        \* the declared actions of every profile
          RuleSets,       \* versions of the classifiers: sequences of rules
                          \* [name, commands, checkpoints: step -> outcome]
          Required,       \* the registry's labels
          Seeds, GatedMinimum, FreshSeedSigma,
          MaxEdits,       \* bound on what the developer does
          Null

VARIABLES corpus,         \* of each profile, Null before its generation
          rules,          \* index of the classifiers in RuleSets
          manifestSeed,   \* execution.json's settings.seed
          evidence,       \* each profile's evidence file, or Null
          baseline,       \* witness-baseline.json, or Null
          verdict,        \* the last command, if it ended with a report
          edits

witnessVars == <<corpus, rules, manifestSeed, evidence, baseline, verdict, edits>>

Init ==
    /\ corpus = [p \in Profiles |-> Null] /\ evidence = [p \in Profiles |-> Null]
    /\ baseline = Null /\ verdict = Null /\ rules = 1 /\ edits = 0
    /\ manifestSeed \in Seeds

-----------------------------------------------------------------------------
(* Classifiers.  Credits are triples <<label, history's name, checkpoint>>. *)

createWitnessRecorder == [credits |-> {}, history |-> Null, current |-> 0]

enter(r, name) == [r EXCEPT !.history = name, !.current = 0]
step(r, index) == [r EXCEPT !.current = index]
credit(r, label, steps) ==
    [r EXCEPT !.credits = @ \cup {<<label, r.history, s>> :
                                      s \in IF steps = {} THEN {r.current} ELSE steps}]

\* The fixture before the first step, every action, every later outcome.
flowLabels(r, name, h) ==
    FoldLeft(LAMBDA acc, i :
                LET acted == credit(step(acc, i - 1), h.steps[i].action, {})
                IN  IF i = 1 THEN acted ELSE credit(acted, h.steps[i].outcome, {}),
             credit(enter(r, name), "fixture", {}), [i \in DOMAIN h.steps |-> i])

\* A rule wants its commands as a prefix and every one of its checkpoints.
contains(rule, h) ==
    /\ IsPrefix(rule.commands, [i \in DOMAIN h.steps |-> h.steps[i].action])
    /\ \A s \in DOMAIN rule.checkpoints : h.steps[s + 1].outcome = rule.checkpoints[s]

publicPrefixWitnesses(r, name, h, version) ==
    FoldLeft(LAMBDA acc, rule : IF contains(rule, h)
                                THEN credit(acc, rule.name, DOMAIN rule.checkpoints)
                                ELSE acc,
             enter(r, name), RuleSets[version])

\* A history that carries the model's private state is compared with its shadow
\* after every step; a drifting shadow is refused, not credited.
checkFidelity(h) == h.private # <<>> => h.shadow = h.private

evaluateCorpus[files \in Corpora, version \in DOMAIN RuleSets] ==
    FoldLeft(LAMBDA acc, name :
                 publicPrefixWitnesses(flowLabels(acc, name, files[name]),
                                       name, files[name], version),
             createWitnessRecorder, SetToSeq(DOMAIN files)).credits

\* The completion gate: the declared actions and required labels not reached.
checkCorpus(files, credits) ==
    {a \in Actions : \A n \in DOMAIN files : \A i \in DOMAIN files[n].steps :
                         files[n].steps[i].action # a}
    \cup {l \in Required : \A c \in credits : c[1] # l}

-----------------------------------------------------------------------------
(* Evidence and report *)

traceKind(name) == IF name \in Sampled THEN "sampled" ELSE "regression"

\* Hits are histories, counted by kind.
labelProvenance(files, credits) ==
    [label \in Required |-> [kind \in {"sampled", "regression"} |->
        Cardinality({n \in DOMAIN files : /\ traceKind(n) = kind
                                          /\ \E c \in credits : c[1] = label /\ c[2] = n})]]

witnessEvidence(files, credits) ==
    [provenance |-> credits, inputs |-> rules, corpus |-> files]

sampledCorpusFingerprint(files) == [n \in Sampled |-> files[n]]

\* A rule that looks at the corpus alone.
gateRule_ByCorpus(seed, sameCorpus) ==
    IF baseline = Null \/ sameCorpus THEN "tolerance" ELSE "collapse"

\* The recorded corpus cannot come from another seed, whatever the environment
\* says: it keeps the strict rule.
gateRule(seed, sameCorpus) ==
    IF baseline = Null \/ sameCorpus \/ seed = baseline.seed
    THEN "tolerance" ELSE "collapse"

Recorded(p) == baseline # Null /\ p \in DOMAIN baseline.profiles

\* The labels below their minimum: half the recorded hits or, by the collapse
\* rule, one hit and what is both below half and FreshSeedSigma deviations away.
baselineFindings(p, labels, rule) ==
    {l \in Required :
        /\ Recorded(p) /\ baseline.profiles[p].labels[l] >= GatedMinimum
        /\ LET base == baseline.profiles[p].labels[l]
               hits == labels[l]["sampled"]
               half == 2 * hits < base
               far == (base - hits) * (base - hits) > FreshSeedSigma * FreshSeedSigma * base
           IN  IF rule = "tolerance" THEN half ELSE hits < 1 \/ (half /\ far)}

profileReport(p, seed) ==
    LET credits == evaluateCorpus[corpus[p], rules]
        labels == labelProvenance(corpus[p], credits)
        same == Recorded(p) /\ baseline.profiles[p].corpusSha256
                                   = sampledCorpusFingerprint(corpus[p])
    IN  [missing |-> checkCorpus(corpus[p], credits), labels |-> labels,
         failed |-> baselineFindings(p, labels, gateRule(seed, same)),
         evidence |-> witnessEvidence(corpus[p], credits)]

-----------------------------------------------------------------------------
(* Commands *)

\* A baseline of another manifest seed stops everything but its full rewrite.
staleBaselineProblem(command, all) ==
    /\ baseline # Null /\ baseline.seed # manifestSeed
    /\ ~(command = "baseline" /\ all)

\* A corpus that is not there, or whose shadow drifts, throws.
witnessCorpus(p) == corpus[p] # Null /\ \A n \in DOMAIN corpus[p] : checkFidelity(corpus[p][n])

recordBaseline(existing, reports, seed) ==
    LET kept == IF existing = Null THEN <<>> ELSE existing.profiles IN
    [seed |-> seed,
     profiles |-> [p \in DOMAIN kept \cup DOMAIN reports |->
        IF p \in DOMAIN reports
        THEN [corpusSha256 |-> sampledCorpusFingerprint(corpus[p]),
              labels |-> [l \in Required |-> reports[p].labels[l]["sampled"]]]
        ELSE kept[p]]]

resolveCorpusSeed(quintSeed) == IF quintSeed = Null THEN manifestSeed ELSE quintSeed

\* The profiles are worked through in order: one that throws ends the command, and
\* the evidence of those before it is already written or removed.
evaluateProfiles(command, selected, quintSeed) ==
    LET seed == resolveCorpusSeed(quintSeed)
        all == ToSet(selected) = Profiles
        done == {selected[k] : k \in {k \in DOMAIN selected :
                                          \A j \in 1..k : witnessCorpus(selected[j])}}
    IN  \E reports \in {[p \in done |-> profileReport(p, seed)]} :
        LET complete == \A p \in done : reports[p].missing = {} IN
        /\ IF staleBaselineProblem(command, all)
           THEN verdict' = Null /\ UNCHANGED <<evidence, baseline>>
           ELSE /\ evidence' = [p \in Profiles |->
                      IF command = "evaluate" /\ p \in done
                      THEN IF reports[p].missing = {} THEN reports[p].evidence ELSE Null
                      ELSE evidence[p]]
                /\ baseline' = IF /\ command = "baseline" /\ done = ToSet(selected)
                                  /\ complete /\ seed = manifestSeed
                               THEN recordBaseline(IF all THEN Null ELSE baseline,
                                                   reports, seed)
                               ELSE baseline
                /\ verdict' = IF command = "baseline" \/ done # ToSet(selected) THEN Null
                              ELSE [seed |-> seed,
                                    labels |-> [p \in done |-> reports[p].labels],
                                    failed |-> [p \in done |-> reports[p].failed],
                                    passed |-> /\ command = "evaluate" /\ complete
                                               /\ \A p \in done : reports[p].failed = {}]
        /\ UNCHANGED <<corpus, rules, manifestSeed, edits>>

\* The developer's steps (run-models generate is external here).
Edits == edits < MaxEdits /\ edits' = edits + 1 /\ verdict' = Null

generate(p, files) ==
    /\ Edits /\ corpus' = [corpus EXCEPT ![p] = files]
    /\ UNCHANGED <<rules, manifestSeed, evidence, baseline>>

EditClassifiers(version) ==
    /\ Edits /\ rules' = version
    /\ UNCHANGED <<corpus, manifestSeed, evidence, baseline>>

EditSeed(seed) ==
    /\ Edits /\ manifestSeed' = seed
    /\ UNCHANGED <<corpus, rules, evidence, baseline>>

selectedProfiles == {SetToSeq(Profiles)} \cup {<<p>> : p \in Profiles}

Next ==
    \/ \E command \in {"evaluate", "report", "baseline"}, selected \in selectedProfiles,
          quintSeed \in Seeds \cup {Null} : evaluateProfiles(command, selected, quintSeed)
    \/ \E p \in Profiles, files \in Corpora : generate(p, files)
    \/ \E version \in DOMAIN RuleSets : EditClassifiers(version)
    \/ \E seed \in Seeds : EditSeed(seed)

-----------------------------------------------------------------------------
(* Properties *)

\* Reference: the steps at which a history shows a label.
ShownAt(label, h, s, version) ==
    \/ label = "fixture" /\ s = 0
    \/ s + 1 \in DOMAIN h.steps /\ h.steps[s + 1].action = label
    \/ s > 0 /\ s + 1 \in DOMAIN h.steps /\ h.steps[s + 1].outcome = label
    \/ \E rule \in ToSet(RuleSets[version]) :
          /\ rule.name = label /\ s \in DOMAIN rule.checkpoints
          /\ contains(rule, h)

\* What the witness gate lets through is founded.  An evidence file shows every
\* required label earned by a history of the corpus it names, at exactly the
\* checkpoints it names, whatever was regenerated, edited or aborted since.  A
\* passed evaluation left evidence of the present corpus and classifiers, and lost
\* no gated label altogether nor, under the recorded seed, more than half of its
\* recorded hits (witnesses.mjs, recorder.mjs).
WitnessGateIsSound ==
    /\ \A p \in Profiles : evidence[p] # Null =>
          /\ \A c \in evidence[p].provenance :
                ShownAt(c[1], evidence[p].corpus[c[2]], c[3], evidence[p].inputs)
          /\ \A l \in Required : \E c \in evidence[p].provenance : c[1] = l
    /\ verdict # Null /\ verdict.passed => \A p \in DOMAIN verdict.labels :
          /\ evidence[p] # Null /\ evidence[p].corpus = corpus[p] /\ evidence[p].inputs = rules
          /\ Recorded(p) => \A l \in Required :
                LET base == baseline.profiles[p].labels[l]
                    hits == verdict.labels[p][l]["sampled"]
                IN  base >= GatedMinimum =>
                        hits > 0 /\ (verdict.seed = baseline.seed => 2 * hits >= base)

\* What the comment above baselineFindings says of the gate: the seed decides the
\* rule, never the corpus fingerprint, so that under another seed a label fails
\* only with no hit at all, or with less than half of its recorded hits and more
\* than freshSeedSigma deviations below them.  gateRule lets the fingerprint
\* decide as well, so the program does not do this.
SeedDecidesTheRule ==
    verdict # Null /\ baseline # Null /\ verdict.seed # baseline.seed =>
        \A p \in DOMAIN verdict.failed : \A l \in verdict.failed[p] :
            LET base == baseline.profiles[p].labels[l]
                hits == verdict.labels[p][l]["sampled"]
                sigma == FreshSeedSigma * FreshSeedSigma * base
            IN  \/ hits < 1
                \/ 2 * hits < base /\ (base - hits) * (base - hits) > sigma
=============================================================================
