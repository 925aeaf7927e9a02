---------------------------- MODULE Differential ----------------------------
(* The corpus differential of formal/tools/differential.mjs: two revisions of a  *)
(* Quint text generate histories, each revision replays the other's, and a       *)
(* report says whether they agree.  A text is what it does with every sequence   *)
(* of inputs.                                                                    *)
EXTENDS Naturals, Sequences, SequencesExt, FiniteSets, FiniteSetsExt

CONSTANTS Pairs,       \* the pairs <<reference, candidate>> of revisions compared
          Inputs, MaxLength,
          Refused,     \* the outcome of an input the text does not take
          Corpus,      \* histories a generation exports
          Chunk,       \* histories replayed per process
          Null

VARIABLES tree,        \* [reference, candidate]: the texts
          phase,
          corpus,      \* [reference, candidate]: their generated histories
          verdicts,    \* [reference, candidate]: one verdict per history, Null until set
          pool,        \* replay tasks not ended, <<whose histories, chunk>>
          failed,      \* a task threw
          lost,        \* some process left no trace
          report
differentialVars == <<tree, phase, corpus, verdicts, pool, failed, lost, report>>

Sides == {"reference", "candidate"}
Other(side) == IF side = "reference" THEN "candidate" ELSE "reference"
Histories == UNION {[1..n -> Inputs] : n \in 1..MaxLength}
Takes(text, h) == \A p \in Prefixes(h) : text.does[p] # Refused

Both(x) == [side \in Sides |-> x]

\* prepare: the reference as recorded at the merge base, the candidate a copy of
\* the working tree.
prepare ==
    /\ \E p \in Pairs : tree = [reference |-> p[1], candidate |-> p[2]]
    /\ phase = "plan" /\ corpus = Both(<<>>) /\ verdicts = Both(<<>>)
    /\ pool = {} /\ failed = FALSE /\ lost = FALSE /\ report = Null

\* A revision without the profile, or one that declares another behaviour or
\* another observation schema, is skipped visibly.
differentialPlan ==
    IF ~tree.candidate.generates THEN "removed"
    ELSE IF ~tree.reference.generates THEN "new"
    ELSE IF tree.reference.behaviorVersion # tree.candidate.behaviorVersion THEN "behavior"
    ELSE IF tree.reference.schemaVersion # tree.candidate.schemaVersion THEN "schema"
    ELSE "compare"

\* The same import closure and the same generation settings.
closureSkip == tree.reference = tree.candidate

plan ==
    /\ phase = "plan"
    /\ IF differentialPlan # "compare" \/ closureSkip
       THEN /\ phase' = "done"
            /\ report' = [skipped |-> IF differentialPlan # "compare"
                                      THEN differentialPlan ELSE "identical"]
       ELSE phase' = "generate" /\ UNCHANGED report
    /\ UNCHANGED <<tree, corpus, verdicts, pool, failed, lost>>

\* Both generations run; each corpus is sampled traces and exported regressions
\* of its own text.
generateCorpus(side, histories) ==
    /\ phase = "generate" /\ corpus[side] = <<>>
    /\ \A k \in DOMAIN histories : Takes(tree[side], histories[k])
    /\ corpus' = [corpus EXCEPT ![side] =
           [k \in DOMAIN histories |->
               [inputs |-> histories[k],
                steps |-> [n \in 0..Len(histories[k]) |->
                             tree[side].does[SubSeq(histories[k], 1, n)]]]]]
    /\ UNCHANGED <<tree, phase, verdicts, pool, failed, lost, report>>

Disagree(n) == [agree |-> FALSE, step |-> n]

\* The first input of the history the text declares no public action for.
Unknown(text, h) == {n \in DOMAIN h.inputs : h.inputs[n] \notin text.actions}

\* A history with an unknown action gets its verdict at once; the rest are
\* scheduled, Chunk to a process.
Scheduled(side) ==
    SelectSeq([k \in DOMAIN corpus[side] |-> k],
              LAMBDA k : Unknown(tree[Other(side)], corpus[side][k]) = {})
chunked(items, c) == SubSeq(items, (c - 1) * Chunk + 1, Min({c * Chunk, Len(items)}))
Chunks(items) == 1..((Len(items) + Chunk - 1) \div Chunk)

prepareReplay ==
    /\ phase = "generate" /\ \A side \in Sides : corpus[side] # <<>>
    /\ phase' = "replay"
    /\ verdicts' = [side \in Sides |->
           [k \in DOMAIN corpus[side] |->
               LET u == Unknown(tree[Other(side)], corpus[side][k]) IN
               IF u = {} THEN Null ELSE Disagree(Min(u))]]
    /\ pool' = UNION {{side} \X Chunks(Scheduled(side)) : side \in Sides}
    /\ UNCHANGED <<tree, corpus, failed, lost, report>>

\* The trace of a run that stops early ends at the refused input.  A run that
\* recorded one state is taken to have started as the reference did.
replayedHistory(text, h) ==
    LET stop == {n \in 0..Len(h.inputs) : text.does[SubSeq(h.inputs, 1, n)] = Refused}
        last == IF stop = {} THEN Len(h.inputs) ELSE Min(stop) - 1 IN
    IF stop # {} /\ Min(stop) = 0 THEN [n \in {} |-> Null]
    ELSE IF last = 0 THEN [n \in {0} |-> h.steps[0]]
    ELSE [n \in 0..last |-> text.does[SubSeq(h.inputs, 1, n)]]

\* A comparison of the steps both have.
compareHistory_Common(h, replayed) ==
    LET apart == {n \in DOMAIN h.steps \cap DOMAIN replayed : h.steps[n] # replayed[n]} IN
    IF apart = {} THEN [agree |-> TRUE] ELSE Disagree(Min(apart))

compareHistory(h, replayed) ==
    LET apart == {n \in DOMAIN h.steps : n \notin DOMAIN replayed
                                          \/ h.steps[n] # replayed[n]} IN
    IF apart = {} THEN [agree |-> TRUE] ELSE Disagree(Min(apart))

\* One process replays its chunk; collect puts each verdict at its history.  A
\* process may leave no trace of some history.
replay(side, c, missing) ==
    LET batch == chunked(Scheduled(side), c)
        mine == {batch[k] : k \in DOMAIN batch} IN
    /\ phase = "replay" /\ <<side, c>> \in pool
    /\ missing \subseteq mine
    /\ pool' = pool \ {<<side, c>>}
    /\ lost' = (lost \/ missing # {})
    /\ verdicts' = [verdicts EXCEPT ![side] = [k \in DOMAIN @ |->
           IF k \notin mine THEN @[k]
           ELSE IF k \in missing THEN Disagree(0)
           ELSE LET h == corpus[side][k] IN
                compareHistory(h, replayedHistory(tree[Other(side)], h))]]
    /\ UNCHANGED <<tree, phase, corpus, failed, report>>

\* quint cannot run, or the chunk's time is up: the pool rejects once the tasks in
\* flight ended, and no report is written.
fail ==
    /\ phase \in {"generate", "replay"} /\ ~failed
    /\ failed' = TRUE /\ phase' = "done"
    /\ UNCHANGED <<tree, corpus, verdicts, pool, lost, report>>

Disagreed(side) == {k \in DOMAIN verdicts[side] : ~verdicts[side][k].agree}

\* grew: the bytes per state grew beyond the bound.
verdict(grew) ==
    /\ phase = "replay" /\ pool = {}
    /\ phase' = "done"
    /\ report' = [forward |-> Disagreed("reference"), reverse |-> Disagreed("candidate"),
                  grew |-> grew,
                  failed |-> grew \/ \E side \in Sides : Disagreed(side) # {}]
    /\ UNCHANGED <<tree, corpus, verdicts, pool, failed, lost>>

Next ==
    \/ plan \/ prepareReplay \/ fail
    \/ \E side \in Sides, hs \in Corpus : generateCorpus(side, hs)
    \/ \E t \in pool : \E m \in SUBSET DOMAIN corpus[t[1]] : replay(t[1], t[2], m)
    \/ \E grew \in BOOLEAN : verdict(grew)

-----------------------------------------------------------------------------

\* The two texts do the same with a history.
Same(h) == \A p \in Prefixes(h) : tree.reference.does[p] = tree.candidate.does[p]

\* A comparison passes only if both texts do the same with every history either
\* generated, and it fails only for a history they part on, for growth or for a
\* trace that was lost; a skipped one names a declared difference or none at all.
ReportIsExact ==
    /\ report # Null /\ "failed" \in DOMAIN report =>
          LET apart == \E side \in Sides : \E k \in DOMAIN corpus[side] :
                          ~Same(corpus[side][k].inputs) IN
          /\ apart => report.failed
          /\ report.failed => apart \/ report.grew \/ lost
    /\ report # Null /\ "skipped" \in DOMAIN report =>
          \/ report.skipped = "identical" /\ tree.reference.does = tree.candidate.does
          \/ report.skipped # "identical"
             /\ \E f \in {"generates", "behaviorVersion", "schemaVersion"} :
                   tree.reference[f] # tree.candidate[f]
=============================================================================
