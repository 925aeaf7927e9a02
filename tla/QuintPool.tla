------------------------------ MODULE QuintPool ------------------------------
(* The worker pool of formal/tools/quint-pool.mjs and the model jobs             *)
(* run-models.mjs gives it: a plan of commands is grouped into chains, one per   *)
(* model, workers take chains, and every job spawns a process whose output is    *)
(* checked before the next job of its chain.                                     *)
EXTENDS Naturals, Sequences, SequencesExt, FiniteSets, FiniteSetsExt

CONSTANTS Models,      \* records [name, generates, regressions, vectors] in schedule order
          Modes,       \* "check", "generate"
          Jobs,        \* QUINT_JOBS values tried; Null when it is not set
          Available,   \* cores
          Memory,      \* memory in units of memoryPerWorker
          Null

VARIABLES commands,    \* the plan
          concurrency,
          next, failure, results,   \* runPool's variables
          worker,      \* what each worker awaits
          log,         \* jobs ended: how
          settled      \* the pool's promise
poolVars == <<commands, concurrency, next, failure, results, worker, log, settled>>

\* One job at most per core and per memoryPerWorker, and at least one.
resolveConcurrency(jobs) ==
    IF jobs = Null THEN Max({1, Min({Available, Memory})}) ELSE jobs

Job(kind, m, k, writes) == [kind |-> kind, model |-> m, step |-> k, writes |-> writes]

executionPlan(mode) ==
    FlattenSeq([k \in 1..Len(Models) |->
        LET m == Models[k] IN
        IF mode = "check"
        THEN <<Job("quint", m.name, 1, FALSE), Job("quint", m.name, 2, FALSE)>> \o
             (IF m.regressions THEN <<Job("quint", m.name, 3, FALSE)>> ELSE <<>>)
        ELSE IF m.vectors THEN <<Job("node", m.name, 1, FALSE)>>
        ELSE IF m.generates
        THEN <<Job("quint", m.name, 1, TRUE)>> \o
             (IF m.regressions THEN <<Job("quint", m.name, 2, TRUE)>> ELSE <<>>)
        ELSE <<>>])

\* Chains of one job each.
executionChains_Flat(plan) == [k \in DOMAIN plan |-> <<plan[k]>>]

\* A model's Quint jobs in plan order; any other job is a chain of its own.  The
\* chains stand where their first job stands.
executionChains(plan) ==
    LET first(k) == \/ plan[k].kind # "quint"
                    \/ \A j \in 1..(k - 1) :
                          plan[j].kind # "quint" \/ plan[j].model # plan[k].model
        heads == SelectSeq([k \in DOMAIN plan |-> k], first) IN
    [c \in DOMAIN heads |->
        IF plan[heads[c]].kind # "quint" THEN <<plan[heads[c]]>>
        ELSE SelectSeq(plan, LAMBDA j : j.kind = "quint"
                                        /\ j.model = plan[heads[c]].model)]

tasks == executionChains(commands)
Workers == 1..Min({concurrency, Len(tasks)})
Free == [task |-> 0, job |-> 0, child |-> Null]

Init ==
    /\ \E mode \in Modes : commands = executionPlan(mode)
    /\ \E jobs \in Jobs : concurrency = resolveConcurrency(jobs)
    /\ next = 0 /\ failure = Null /\ results = {}
    /\ worker = [w \in Workers |-> Free]
    /\ log = <<>> /\ settled = Null

-----------------------------------------------------------------------------

\* The loop head of a worker: it takes the next task unless one has failed.
take(w) ==
    /\ worker[w] = Free /\ settled = Null
    /\ failure = Null /\ next < Len(tasks)
    /\ next' = next + 1
    /\ worker' = [worker EXCEPT ![w] =
           [task |-> next + 1, job |-> 1, child |-> "running"]]
    /\ UNCHANGED <<commands, concurrency, failure, results, log, settled>>

\* The first error of a command (it cannot run, its output cannot be captured) is
\* kept; the command still ends only when its child closes.
spawnBuffered(w) ==
    /\ worker[w].child = "running"
    /\ worker' = [worker EXCEPT ![w].child = "error"]
    /\ UNCHANGED <<commands, concurrency, next, failure, results, log, settled>>

\* executeJob: the exit status, then the traces the job was to write.  The chain
\* goes on with its next job, is done, or throws into the pool.
executeJob(w, status, traces) ==
    LET chain == tasks[worker[w].task]
        job == chain[worker[w].job]
        ok == worker[w].child = "running" /\ status /\ traces IN
    /\ worker[w].child # Null /\ (traces \/ job.writes)
    /\ log' = Append(log, [job |-> job, ok |-> ok])
    /\ IF ok /\ worker[w].job < Len(chain)
       THEN /\ worker' = [worker EXCEPT ![w].job = @ + 1, ![w].child = "running"]
            /\ UNCHANGED <<failure, results>>
       ELSE /\ worker' = [worker EXCEPT ![w] = Free]
            /\ results' = IF ok THEN results \cup {worker[w].task} ELSE results
            /\ failure' = IF ~ok /\ failure = Null THEN [task |-> worker[w].task]
                          ELSE failure
    /\ UNCHANGED <<commands, concurrency, next, settled>>

\* Promise.all over the workers: each has left its loop.
Drained ==
    /\ \A w \in Workers : worker[w] = Free
    /\ failure # Null \/ next = Len(tasks)

runPool ==
    /\ settled = Null /\ Drained
    /\ settled' = IF failure # Null THEN "rejected" ELSE "resolved"
    /\ UNCHANGED <<commands, concurrency, next, failure, results, worker, log>>

Next ==
    \/ \E w \in Workers :
          \/ take(w) \/ spawnBuffered(w)
          \/ \E status, traces \in BOOLEAN : executeJob(w, status, traces)
    \/ runPool

-----------------------------------------------------------------------------

Ended(job) == \E k \in DOMAIN log : log[k].job = job /\ log[k].ok
Flying == {w \in Workers : worker[w] # Free}

\* A model's later job runs only after its earlier ones succeeded, whichever
\* worker has it; the pool answers once nothing is in flight, with the first
\* failure in time or, having none, with every job done.
PoolIsOrderly ==
    /\ \A w \in Flying :
          LET job == tasks[worker[w].task][worker[w].job] IN
          \A k \in DOMAIN commands :
             /\ commands[k].kind = "quint" /\ commands[k].model = job.model
             /\ commands[k].step < job.step
             => Ended(commands[k])
    /\ settled # Null => Flying = {}
    /\ settled = "resolved" => \A k \in DOMAIN commands : Ended(commands[k])
    /\ settled = "rejected" =>
          LET bad == SelectSeq(log, LAMBDA e : ~e.ok) IN
          bad # <<>> /\ \E j \in DOMAIN tasks[failure.task] :
                           tasks[failure.task][j] = bad[1].job
=============================================================================
