----------------------------- MODULE Schedules -----------------------------
(* formal/tools/execution.mjs: what the text of the Quint models says about       *)
(* their schedule - which runs are exported to the ports, what a model's          *)
(* behaviour depends on, at which step a fault becomes visible - and the          *)
(* validation of the challenges that rest on it.  A maintainer edits imports,     *)
(* declarations, challenges and waivers in any order.                             *)
EXTENDS Integers, Sequences, FiniteSets, SequencesExt, Relation

CONSTANTS Models, VectorModels,  \* scheduled models; those without a profile
          Libraries,      \* the other Quint sources
          Edges,          \* imports a maintainer may add or remove
          Programs,       \* the texts of each model: name -> declaration, see below
          Challenges,     \* challenges a maintainer may write, see below
          PublicConditions, \* expect conditions over public fields
          Catalog,        \* mutant -> [contracts, generated]
          MaxChallenges,  \* bound on the challenges at one time
          Null

(* A declaration is [kind, assigns, records, keeps, body]: whether it assigns s,   *)
(* records a command in input, or keeps input across it.  A body is an expression  *)
(*   [op |-> "all", refs]           an atomic wrapper (all, any or a block)        *)
(*   [op |-> "call", name]          an action or a run                             *)
(*   [op |-> "reps", times, arg]                                                   *)
(*   [op |-> "chain", first, parts] parts [method, arg] of "then" and "expect".    *)
(* A challenge is [source, model, fault, measures, kind, cited, run, failure,      *)
(* profiles, exclusions, native, mutant, contract, crossContract, written].        *)

VARIABLES imports, program, challenges, waived,
          accepted        \* what the last validation accepted, or Null

scheduleVars == <<imports, program, challenges, waived, accepted>>

Sources == Models \cup Libraries

\* The profiles: models whose histories are replayed.
Replayed == Models \ VectorModels

Init ==
    /\ imports \in SUBSET Edges
    /\ program \in {f \in [Models -> UNION Range(Programs)] :
                       \A m \in Models : f[m] \in Programs[m]}
    /\ challenges = <<>> /\ waived = Models /\ accepted = Null

-----------------------------------------------------------------------------
(* Imports *)

\* A closure that stops at the direct imports.
importClosure_Direct(path) == {path} \cup {t \in Sources : <<path, t>> \in imports}

RECURSIVE visit(_, _)
visit(closure, pending) ==
    IF pending = <<>> THEN closure
    ELSE LET source == Head(pending) IN
         IF source \in closure THEN visit(closure, Tail(pending))
         ELSE visit(closure \cup {source},
                    SetToSeq({t \in Sources : <<source, t>> \in imports}) \o Tail(pending))

importClosure(path) == visit({}, <<path>>)

-----------------------------------------------------------------------------
(* Runs *)

\* The declared names a body mentions.
RECURSIVE Mentions(_)
Mentions(e) ==
    CASE e.op = "all" -> e.refs
      [] e.op = "call" -> {e.name}
      [] e.op = "reps" -> Mentions(e.arg)
      [] OTHER -> Mentions(e.first) \cup
                  UNION {Mentions(e.parts[k].arg) :
                             k \in {k \in DOMAIN e.parts : e.parts[k].method = "then"}}

\* State assigned without a recorded command, or with the command kept.
patchesDirectly(d) == d.keeps \/ (d.assigns /\ (d.kind = "run" \/ ~d.records))

\* Quint has no recursion: the references are acyclic.
RECURSIVE Patches(_, _)
Patches(text, name) ==
    \/ patchesDirectly(text[name])
    \/ \E n \in Mentions(text[name].body) \cap DOMAIN text : Patches(text, n)

Runs(text) == {n \in DOMAIN text : text[n].kind = "run"}
classifyRuns(text) == {n \in Runs(text) : ~Patches(text, n)}

\* Every run is a regression; a profile exports its public-only ones.
modelSchedule(m) ==
    [regressions |-> Runs(program[m]),
     replayRegressions |-> IF m \in Replayed THEN classifyRuns(program[m]) ELSE {}]

-----------------------------------------------------------------------------
(* Checkpoints *)

\* The first top-level expect of the run with the declared condition.
reproducerCheckpoint(text, run, failure) ==
    LET body == text[run].body
        found == IF run \notin DOMAIN text \/ body.op # "chain" THEN {}
                 ELSE {k \in DOMAIN body.parts : body.parts[k].method = "expect"
                                                 /\ body.parts[k].arg = failure}
    IN  IF found = {} THEN 0 ELSE CHOOSE k \in found : \A j \in found : k <= j

\* The states an expression adds, -1 when the syntax is refused.
RECURSIVE count(_, _, _)
count(text, e, trail) ==
    CASE e.op = "call" ->
            IF \/ e.name \notin DOMAIN text \/ e.name \in trail
               \/ text[e.name].kind \notin {"action", "run"}
            THEN -1
            ELSE LET body == text[e.name].body IN
                 IF body.op = "all"
                 THEN IF \A n \in body.refs \cap DOMAIN text : text[n].kind = "action" =>
                             count(text, [op |-> "call", name |-> n],
                                   trail \cup {e.name}) = 1
                      THEN 1 ELSE -1
                 ELSE count(text, body, trail \cup {e.name})
      [] e.op = "reps" -> LET each == count(text, e.arg, trail)
                          IN  IF each < 0 THEN -1 ELSE e.times * each
      [] e.op = "chain" ->
            LET add(total, k) ==
                    IF total < 0 \/ e.parts[k].method = "expect" THEN total
                    ELSE LET more == count(text, e.parts[k].arg, trail)
                         IN  IF more < 0 THEN -1 ELSE total + more
            IN  FoldLeft(add, count(text, e.first, trail), [k \in DOMAIN e.parts |-> k])
      [] OTHER -> -1

checkpointStep(text, run, at) ==
    LET body == text[run].body IN
    count(text, [body EXCEPT !.parts = SubSeq(@, 1, at - 1)], {}) - 1

-----------------------------------------------------------------------------
(* Challenges *)

Cited(c) == IF c.cited = Null THEN c.model ELSE c.cited
PublicOnly(m) == modelSchedule(m).replayRegressions

\* Where a mapped mutant must become visible: written by hand, or derived from
\* the run; Null when the evidence is refused.
evidenceOf(c) ==
    LET m == Cited(c)
        at == reproducerCheckpoint(program[m], c.run, c.failure)
        step == checkpointStep(program[m], c.run, at)
    IN  IF c.kind = "model-run"
        THEN IF m \in VectorModels /\ c.written # Null
             THEN [origin |-> "vector", step |-> 0] ELSE Null
        ELSE IF c.run \notin PublicOnly(m) THEN Null
        ELSE IF c.written # Null
        THEN IF c.written >= 1 THEN [origin |-> "written", step |-> c.written] ELSE Null
        ELSE IF c.failure \in PublicConditions /\ step >= 1
             THEN [origin |-> "derived", step |-> step] ELSE Null

\* The run, its failing expectation, and every profile that imports a faulty
\* library listed or excluded.
validateReproducer(c) ==
    LET m == Cited(c)
        shared == c.source \in Libraries
        exported == c.run \in PublicOnly(m)
    IN  /\ c.cited # Null =>
              /\ shared /\ m # c.model
              /\ (m \in Replayed) = (c.kind = "exported-regression")
        /\ c.run \in modelSchedule(m).regressions
        /\ reproducerCheckpoint(program[m], c.run, c.failure) # 0
        /\ {c.model, m} \subseteq c.profiles
        /\ c.profiles \subseteq Replayed \cup {c.model, m}
        /\ c.exclusions \subseteq Replayed \ c.profiles
        /\ shared => \A p \in Replayed :
              IF c.source \in importClosure(p) THEN p \in c.profiles \cup c.exclusions
              ELSE p \notin c.profiles
        /\ exported = (c.kind = "exported-regression")

validateNativeMutants(c) ==
    IF c.native # "mapped" THEN c.mutant = Null /\ c.written = Null
    ELSE /\ c.mutant \in DOMAIN Catalog /\ Catalog[c.mutant].generated
         /\ (c.contract \notin Catalog[c.mutant].contracts) = c.crossContract
         /\ evidenceOf(c) # Null

Fault(c) == <<c.source, c.fault>>

\* In manifest order: a repeated fault says what it measures and keeps its mapping.
validateChallenges ==
    /\ challenges # <<>>
    /\ \A k \in DOMAIN challenges :
          LET c == challenges[k]
              earlier == {j \in 1..(k - 1) : Fault(challenges[j]) = Fault(c)}
          IN  /\ \A j \in 1..(k - 1) : challenges[j] # c
              /\ c.measures = (earlier # {})
              /\ validateReproducer(c) /\ validateNativeMutants(c)
              /\ \A j \in earlier : /\ challenges[j].native = c.native
                                    /\ challenges[j].mutant = c.mutant
    /\ \A m \in Models : (m \in waived) = (\A c \in ToSet(challenges) : c.model # m)

\* Every library reached by a model, every challenge valid.
validateExecution ==
    /\ Libraries \subseteq UNION {importClosure(m) : m \in Models}
    /\ validateChallenges

boundaryEvidence ==
    [k \in DOMAIN challenges |->
        IF challenges[k].native = "mapped" THEN evidenceOf(challenges[k]) ELSE Null]

Validate ==
    /\ accepted' = IF validateExecution
                   THEN [schedule |-> [m \in Models |-> modelSchedule(m)],
                         evidence |-> boundaryEvidence]
                   ELSE Null
    /\ UNCHANGED <<imports, program, challenges, waived>>

-----------------------------------------------------------------------------
(* The maintainer *)

EditImport(edge) ==
    /\ imports' = IF edge \in imports THEN imports \ {edge} ELSE imports \cup {edge}
    /\ accepted' = Null /\ UNCHANGED <<program, challenges, waived>>

EditModel(m, text) ==
    /\ program' = [program EXCEPT ![m] = text]
    /\ accepted' = Null /\ UNCHANGED <<imports, challenges, waived>>

AddChallenge(c) ==
    /\ Len(challenges) < MaxChallenges
    /\ challenges' = Append(challenges, c) /\ waived' = waived \ {c.model}
    /\ accepted' = Null /\ UNCHANGED <<imports, program>>

EditWaiver(m) ==
    /\ waived' = IF m \in waived THEN waived \ {m} ELSE waived \cup {m}
    /\ accepted' = Null /\ UNCHANGED <<imports, program, challenges>>

Next ==
    \/ Validate
    \/ \E edge \in Edges : EditImport(edge)
    \/ \E m \in Models : \E text \in Programs[m] : EditModel(m, text)
    \/ \E c \in Challenges : AddChallenge(c)
    \/ \E m \in Models : EditWaiver(m)

-----------------------------------------------------------------------------
(* Properties *)

\* Reference: what a run executes, in order: every state it reaches and the
\* conditions of its own chain.
RECURSIVE Execution(_, _, _)
Execution(text, e, top) ==
    CASE e.op = "call" -> IF text[e.name].body.op = "all" THEN <<"state">>
                          ELSE Execution(text, text[e.name].body, FALSE)
      [] e.op = "reps" -> FlattenSeq([k \in 1..e.times |-> Execution(text, e.arg, FALSE)])
      [] OTHER -> Execution(text, e.first, FALSE) \o
                  FlattenSeq([k \in DOMAIN e.parts |->
                      IF e.parts[k].method = "then" THEN Execution(text, e.parts[k].arg, FALSE)
                      ELSE IF top THEN <<e.parts[k].arg>> ELSE <<>>])

\* The states a run has reached when it first checks a condition.
StatesBefore(text, run, condition) ==
    LET trace == Execution(text, text[run].body, TRUE)
        first == CHOOSE k \in DOMAIN trace : /\ trace[k] = condition
                                             /\ \A j \in 1..(k - 1) : trace[j] # condition
    IN  Len(SelectSeq(SubSeq(trace, 1, first), LAMBDA x : x = "state"))

\* An accepted schedule says what the text says.  No exported run reaches, through
\* any chain of references, a transition that patches state; a challenge to a shared
\* library accounts for each profile that imports it through any chain of imports,
\* and for no other; and derived boundary evidence names the state at which the
\* run checks the failing expectation (execution.mjs, classifyRuns, importClosure,
\* checkpointStep).
AcceptedScheduleIsFounded ==
    accepted # Null =>
       /\ \A m \in Replayed :
             LET text == program[m]
                 names == DOMAIN text
                 refers == TransitiveClosure([s, t \in names |-> t \in Mentions(text[s].body)],
                                             names)
             IN  \A r \in accepted.schedule[m].replayRegressions :
                    \A n \in names : n = r \/ refers[r, n] =>
                       ~text[n].keeps /\ (text[n].assigns => text[n].records)
       /\ LET reaches == TransitiveClosure([s, t \in Sources |-> <<s, t>> \in imports], Sources)
          IN  \A c \in ToSet(challenges) : c.source \in Libraries =>
                 \A p \in Replayed : IF reaches[p, c.source]
                                     THEN p \in c.profiles \cup c.exclusions
                                     ELSE p \notin c.profiles
       /\ \A k \in DOMAIN challenges :
             LET c == challenges[k]
                 e == accepted.evidence[k]
             IN  e # Null /\ e.origin = "derived" =>
                    e.step = StatesBefore(program[Cited(c)], c.run, c.failure) - 1
=============================================================================
