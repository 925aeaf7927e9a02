# Formal models of DialCache

This directory holds TLA+ models of DialCache and of the tools that keep its
ports in step, the TLC configurations that check them on small instances, and
TLAPS proofs of their central properties for every value of the constants. The
models of the library follow the TypeScript implementation
(`src/typescript/src`), which the repository names as the reference; the models of
the tools follow `src/formal/replay` and `src/formal/tools`. The Go, Rust and
Python ports are held to the reference by those tools and are not modelled
separately.

## The system

DialCache caches loader results by use case, with layers that are switched at
run time. A call runs inside an `enable()` scope or passes straight through.

| Part | State | Operations | What is hard | Module |
| --- | --- | --- | --- | --- |
| Regions and request-local memo (`context.ts`) | holder, closed flag and memo per outermost region | `enable`, `disable`, read, set, close | regions nest and are entered late; work outlives them | `Regions`, `ServingChain` |
| Serving chain (`dialcache.ts`) | flights, follower counts, config of each call | `executeCacheOperation` and the layers below it | awaits between a check and its use; who may publish a value, and where | `ServingChain` |
| Single flight (`dialcache.ts`) | request-local and process flights | join, lead, clear | late joiners, exact gauges, a loader that calls its own key | `ServingChain` |
| Process-local cache (`local-cache.ts`) | LRU with TTL | get, put | expiry at the boundary, capacity 0 | `LocalCache` |
| Remote layer (`redis-cache.ts`, `redis-payload.ts`) | frames stamped by the writing client | read, classify, refill, recover | a refill that is older than the invalidation it races | `TrackedRedis` |
| Invalidation (`redis-scripts.ts`) | watermark per entity | `invalidateRemote`, the script | retries, late copies, skewed clocks, watermark expiry | `TrackedRedis` |
| Redis adapters (`node-redis.ts`, `valkey-glide.ts`) | none | read, write, EVALSHA then EVAL | replica lag, lost and malformed replies | `RedisAdapter` |
| Deadlines (`deadline.ts`) | monotonic start, timer | `withMonotonicDeadline` | timers that fire early, results that arrive late | `Deadline`, `BoundedWait` |
| Shadow validation (`dialcache.ts`) | slots per key, open reads | admission, read, source, fill, compare, confirm | timeouts with work still open, capacity, false mismatches | `ShadowValidation` |
| Mismatch warning (`shadow-log-json.ts`) | none | difference, pointers, rendering, hook | caps and clamps in different units | `ShadowLog` |
| Runtime configuration (`runtime-config.ts`, `config.ts`) | none | merge, resolve, ramp | partial overlays, invalid fields | `RuntimeConfig` |
| Frames and compression (`redis-payload.ts`, `compression.ts`) | none | encode, decode | marker bytes that look like payload | `PayloadEnvelope` |
| Construction, registration, keys (`dialcache.ts`, `key.ts`) | use-case registry | constructor, `cached`, `getOrLoad`, key texts | order of validation, delimiters inside components | `Registration` |
| Metrics adapters (`prometheus.ts`, `datadog.ts`) | collectors of a shared registry | constructors, one method per event | conflicts half way, labels rejected unseen | `MetricsAdapters` |

A call goes through the parts from top to bottom: the region admits it, the
configuration says which layers it may use, the memo, the local cache and Redis are
asked in turn inside the flights, the loader answers what none of them has, and
the layers that missed are filled on the way back. Invalidation, shadow
validation and the clocks act on the remote layer from the side.

Around the library stand the tools of `src/formal`: Quint models generate
histories, a coordinator replays them against each port, and a number of
programs decide what counts as evidence.

| Part | What it decides | Module |
| --- | --- | --- |
| Replay coordinator and settlement ledger (`replay/coordinator.mjs`, `settlement.mjs`, profile bindings) | whether an observation diverges, or its driver had not settled | `Replay` |
| Projection of observations (`replay/features.mjs`, `effects.mjs`) | what of a journal is compared | `Projection` |
| Report parsers (`check-*-replay.mjs`, `conformance-adapters.mjs`) | whether a native report shows the whole inventory | `ReplayReports` |
| Validation lanes (`validation.mjs`, `conformance.mjs`) | whether a port is conformant now | `EvidenceLanes` |
| Job pool (`quint-pool.mjs`, `run-models.mjs`) | order and failure of Quint jobs | `QuintPool` |
| Witness gates (`witnesses.mjs`, `replay/witnesses/`) | whether a corpus still shows every label | `Witnesses` |
| Execution schedule (`execution.mjs`) | whether models, runs and challenges fit together | `Schedules` |
| Model-property campaign (`check-model-properties.mjs`) | whether each invariant detects its fault | `ModelProperties` |
| Mutation measurement (`measure-*-semantics.mjs`, `mutation-reports.mjs`, merge, boundary replays) | whether the suites detect each mutant | `MutationShards`, `CohortEvidence` |
| Differential comparison (`differential.mjs`) | whether two revisions of the models agree | `Differential` |
| Exploration (`explore.mjs`) | the verdict of a fresh seed | `Exploration` |
| Symbolic check (`check-symbolic-models.mjs`) | whether Apalache passed every model | `SymbolicCheck` |
| Generated fixtures (`generated-fixtures.mjs`) | whether checked-in fixtures are the models' | `Fixtures` |

The hazards each part is exposed to are listed, with their source lines and the
properties that watch them, in `PROJECT.json`.

## Modules

Names of actions and operators are those of the code where TLA+ allows it;
`PROJECT.json` maps every definition to its lines. In all models a cached value is
represented by the *version* of the source it was loaded from, so that "older
than the invalidation" is a comparison of numbers.

### TrackedRedis

One tracked entry and the watermark of its entity. `value` and `wm` are the two
Redis keys, `sets` and `scripts` the commands that travel towards Redis, `pc`,
`got`, `loaded`, `result` the invocations, `inv` the callers of
`invalidateRemote`. One action is one synchronous stretch between two awaits:
`StartRead`, `ReadTracked` (the MGET in Redis), `ClassifyReply`, `ServeHit`,
`LoadSource`, `BeginSerialize` (first fence check), `DispatchSet` (second sample
and check), `ExecSet`, `BeginRecovery`, `ServeRecovered`, `Invalidate`,
`ExecScript` (the whole Lua script), `RetryWithEval`, and the failures of each.
Commands may be executed late, lost, or executed although the client gave up.
Every `Date.now()` sample lies between `now - Behind` and `now + Ahead`.

The promise of `invalidateRemote` depends on its buffer: the documentation asks
that it cover clock error and in-flight work. `SufficientBuffer` is that sum, and
`fenced` (history) records the newest version invalidated under it. `Dmax`, the
deployment's bound on the age of work, appears in `Tick`, which does not let time
run past work that is still under way; nothing in the code enforces such a bound.
Watermark keys are not evicted (`docs/invalidation.md` makes that a requirement).

### ServingChain

Calls of one key: `Start` in an open, closed or absent scope, config resolution
(`ConfigFails`, `PassThrough`, `ResolveShared`), the request-local memo and flight,
the process flight, the local cache, the Redis read, the loader, stale recovery, publication
(`FulfilWithoutWrite`, `FulfilWithWrite`), and the two clears with the followers
they wake. A call is inside at most one request flight and one process flight;
`Parent` says which calls are made by another call's loader. Redis and the source
are environments that change at any time: what they may contain is TrackedRedis'
matter. Calls outside `enable()` run the loader and nothing else.

### Deadline and BoundedWait

`withMonotonicDeadline`: `Start` is the promise executor, `onTimer` and
`settleBeforeDeadline` the two callbacks. Time is finer than a millisecond (`Res`
ticks make one), delays are whole milliseconds, and a timer may fire up to `Early`
ticks before it is due, or any time after. `BoundedWait` is the promise a caller
relies on; `Deadline` implements it with `expired` mapped to `now >= timeout`.

### ShadowValidation

The jobs of `scheduleShadowValidation` and `runShadowValidation`. `shadowFlights`
is the slot table, `clientReads` the Redis reads the client has not settled,
`cachedFrame` the frame a flight retains. A job starts with the frame of a hit
("retained") or reads Redis itself beside a miss ("redis", sharing its caller's
source call). `reply`, `sourceValue` and `held` are what the job has seen; `held`
is history: the frame has been in Redis at some moment since the source's value was known.
`Next` is one conjunction with `Observe`, which keeps that history.

### LocalCache, RuntimeConfig, PayloadEnvelope, Registration, ShadowLog

`LocalCache` is `local-cache.ts` over lru-cache: order of recency, entries with
start and TTL, the clock floored to milliseconds plus one, the TTL less one.
`RuntimeConfig` registers a default, applies an overlay to an invocation and
resolves the policy: layers, recovery, shadow cohort, mismatch logging; the cohort
hash is a constant function (`Sample`). `PayloadEnvelope` writes and reads one
key with escape, compression and frame over byte strings, under a compression
policy that changes between writes. zstd is a pair of constant operators of which
only "restores what it compressed" is assumed. Strings are well-formed UTF-16.
`Registration` is the constructor, `cached()`, `getOrLoad()` and the keys their
calls build; text is a sequence of characters, because the property is about
which texts can meet, and only delimiting characters are told apart. `ShadowLog`
logs one confirmed mismatch after another: `warnShadowMismatch` renders, calls the
logger and reports one outcome, at once or when a promised logger settles.

### Regions, RedisAdapter, MetricsAdapters

`Regions` has the asynchronous contexts that `enable()` and `disable()` open from
any other context, also one whose callback is over, and calls made in them:
`Call`, `Configured` (the provider has answered, the memo is looked up) and
`Loaded`. `RedisAdapter` is one client over a primary and a replica: a command is
started, and finished with the reply it gets, if any; `Replicate`, `FlushScripts` and
`Elapse` are the environment. `MetricsAdapters` constructs adapters over a registry
the application also registers collectors in, and `Record`s events through the
core's isolation; collectors and label tables are those of both adapters.

### The tools

Each module has one action per step between two awaits, process starts or file
writes, and the environment of its tool: edits of the tree, cancellations,
crashes, concurrent processes, native reports of any content. History variables
(`truth`, `ran`, `shown`, `quiet`...) record what really happened, and the property
compares the tool's verdict with it.

- `Replay`: `prepare`, `observe`, `discard` of the coordinator; the driver runs the
  commands of a reply (`DriverRuns`) and works on (`DriverWorks`), may report early or
  lose a clock advance, and its library may be wrong.
- `Projection`: a predicted and an observed journal grow event by event, the
  observed one with every single defect of an event.
- `ReplayReports`: one native record per step, for each port's parser. The TypeScript
  report comes suite by suite: a suite comes once and has assertions, and of the
  assertions outside the inventory only replayed histories (`Histories`) are refused.
- `EvidenceLanes`: processes of `make` share the files of a lane.
- `QuintPool`: workers `take` chains, spawn jobs and check what they leave.
- `Witnesses`: evaluations, reports and baselines between regenerations and edits.
- `Schedules`: a maintainer edits; `Validate` accepts or not.
- `ModelProperties`: challenges measured concurrently, with shared partitions.
- `MutationShards`, `CohortEvidence`: the life of the reports, and what one mutant's
  runs are taken for.
- `Differential`, `Exploration`, `SymbolicCheck`, `Fixtures`: one invocation after
  another of the tool.

Modules whose parts meet only through values are checked side by side in one MC
module (`MCLibrary`, `MCAdapters`, `MCReplay`, `MCTooling`, and `MCLiveness` for the
calls and the shadow jobs): the variable `component`
chosen in the initial state says which of them the behaviour exercises, and
the others rest.

## What the runs check

| Run | Instance | Shows |
| --- | --- | --- |
| `tracked` | 2 invocations, 1 invalidator, buffer 1 = Dmax, true clocks, fresh age 1, maximum age 2, value cap 1, margin 0, time to 4, 2 versions | after an invalidation no older version is readable, or returned to an invocation that starts later; the watermark outlives the frames it covers; fresh hits and recovered values are bounded in age |
| `tracked_foreign` | 1 invocation, 1 invalidator, clock error 1 both ways, buffer 3, cap 2, margin 1, time to 8, frames and watermarks left by others | a refill is skipped only while fenced, and no script lowers a watermark or shortens its life, whatever it finds |
| `serving` | 3 calls, 2 scopes, local layer, memo on or off | follower counts are exact, at most one coalesced run, a memo never changes |
| `serving_dialled` | 2 calls, 2 scopes, 7 configurations, tracked key | a tracked value is published locally only after Redis validated it, unless the remote layer is off |
| `deadline` | timeout of 7 ticks, 3 to the millisecond, 2 early, time to 12 | exact outcome, refinement of `BoundedWait`, the wait ends |
| `shadow` | 3 jobs, 2 keys, 1 slot, 2 versions | exact slots that bound the work under way, no late fill, no unconfirmed mismatch |
| `liveness` | 2 calls, one made by the other's loader, all layers, untracked key; 2 jobs on different keys, 1 slot | every started call settles; every admitted job reports, and one with a shared source call gives its slot back |
| `library` | envelopes: payloads to 3 bytes over 4 byte values, runs to 5, limit 4; local layer: 3 keys, 2 values, sizes 0 to 2, TTL 1 and 2 s of 2 ms of 2 ticks; policies: all pairs of defaults and overlays of the chosen leaves; registration: 2 keys of texts with every delimiter; warnings: pairs of JSON values two levels deep, pointers of ASCII, two-byte, escaped and surrogate units | a read returns what was written; a hit is the last value put, within its TTL, and the most recently used are kept; the kill switch and each written leaf prevail; keys are distinct texts and a refused registration leaves its name free; a warning tells exactly what differs |
| `adapters` | 3 adapter calls, primary and replica, time to 2; 2 prefixes, 1 collector of the application, 1 event; 3 regions, 2 calls | reads after a settled invalidation see it; a retry proposes the same watermark; every event is recorded and a refused adapter leaves nothing; one memo per request |
| `replay` | 2 witness profiles with 3 sampled histories; 3 models, 2 libraries, 2 challenges; all runnable histories of up to 4 actions; journals of 2 events; 2 required cases; 5 jobs on 2 workers; histories of up to 2 inputs in pairs of texts | what the gates, validators, comparisons and parsers accept is founded, and what they blame is to blame |
| `tooling` | 2 mutants, 2 shards, 2 or 3 measurements; reports of 2 tests; 2 processes of `make`; 2 ports, 1 replay; 2 challenges, 2 profiles; 2 models under a solver; 2 artifacts, 3 invocations | completed reports, verdicts, credits and locks are of what really ran, in the tree they name |
| `seed_rule` | the witness part of `replay` | fails, as expected: the seed does not decide the gate rule alone, as a comment says (see the end of "What the code does not promise") |

Bounds and why they are enough. The races on a tracked entry are between one
writer of stale data, one invalidation and one reader; a second invocation makes
the reader and the writer different. Times are chosen so that every boundary
(stamp equal to watermark, age equal to TTL, expiry of value before, with and after
the watermark) occurs before `MaxTime`. Three calls give a leader, a follower and a
late joiner; two scopes give calls that share a process flight without sharing a
memo. Three jobs give a duplicate and a competitor for the one slot. Three regions
nest an `enable()` in a `disable()` in an `enable()`. In the tools two of each kind
(shards, lanes, challenges, models, artifacts) give one that is current and one
that is not, and one or two edits fall before, between and after any two steps.
One event per behaviour shows in `adapters` that every kind of event is recorded, but
hardly that two are kept apart; that is left to the proof. The safety properties of
the library (all but the mismatch warning's), of the mutation reports, the lanes and
the exploration do not rest on their bounds: they are proved. Symmetry is used only
over interchangeable calls, scopes, keys and values, and only in runs without liveness. Where deadlock checking is off, the
model's calls, jobs, edits or time run out. Every property of a passing run has a
mutant of the model, a plausible bug of the code behind it, under which its run fails.

## Fairness

- `Deadline`: time passes and the event loop runs what is due. Nothing is assumed
  of the bounded operation.
- `ServingChain`: a started call keeps taking steps. Reads and loaders settle or
  meet their deadline (`fallbackTimeoutMs = null` switches the loader's deadline
  off, and with it this guarantee); the provider and the Redis write are awaited
  without one, so their settling is an assumption on application and client.
- `ShadowValidation`: deadlines pass, timers fire, client operations, serializers
  and comparators settle. Nothing is assumed of a source call.

The other models assume none: a tool may be cancelled at any step.

## What is proved

TLAPS checks the theorems for every value of the constants that satisfies the
named assumptions (`TrackedRedisAssumption`, `ServingChainAssumption`,
`DeadlineAssumption`, `ShadowValidationAssumption`, `LocalAssumption`,
`PayloadAssumption`, `ZstdAssumption`, `NullAssumption`, `AdapterAssumption`,
`ConfigAssumption`, `RegionsAssumption`, `RegistrationAssumption`, `ShardsAssumption`,
`LanesAssumption`, `ExplorationAssumption`); these give constants their types, keep model values apart from
data, say that the calls are finitely many and state the codec law. TLC evaluates
them in every run. The bounds of the runs (times, numbers of calls, keys, jobs and
versions) are constants too, and the theorems hold for all of them.

- **TrackedRedis** (`TrackedRedisSteps`, `TrackedRedisProofs`).
  `InvalidatedNeverReadable` is not inductive: it says nothing of work that has
  not reached Redis yet. `FenceInv` does: every piece of live work (a loaded value,
  a SET on its way, the stored frame) whose version is below `fenced` is *covered*: the
  watermark is at least its last possible stamp and lives at least as long as the
  frame it could leave behind. Script and invalidator samples date the
  version they invalidate, which is what makes the script establish coverage. `OpInv`
  (`OpShape`, what an invocation's place implies of its data, and `OpFresh`)
  carries the fence an invocation started under through its read, load and recovery.
  From the three, `NeverReadable`, `NeverServed`, `WatermarkOutlives`, `OnlyAdvances`
  and `HitsBounded` follow. `SkipsAreFenced` has a hypothesis on the deployment,
  `WatermarksLast`: clocks disagree by less than the life that a script adds to its
  watermark, and watermarks that were there before outlive the last clock's passing
  of them. Then a fence that an invocation saw, which the code does not read again,
  still stands when it skips its refill (`FencesStand`, inductive beside the three).
- **ServingChain** (`ServingChainProofs`). `Shape` adds to the
  type invariant what the program counter implies of a call's config, leader and
  result, and that the gauge is the flight's count. `Flights` says a coalescing call
  in the chain leads the flight, a flight's leader is in the chain and a follower's
  leader has run: `SharedRuns` follows. `Counted` (the count is the cardinality of the
  waiting calls) is inductive beside it and gives `FollowersExact`; a clear must find
  no waiting call of another flight counted, which is why the leader's place matters.
  `Memoized` (where every config coalesces, a call that will memoize leads its
  scope's flight and the memo is still empty) gives `MemoStable`; `Planned` (a
  tracked call that will publish what it loads has resolved its remote layer
  off) gives `LocalValidated`. `ClosedScopes` is inductive with the typing.
- **ShadowValidation** (`ShadowValidationProofs`). `IInv`
  adds to the slot invariants that the occupied slots never exceed
  `shadowMaxInFlight`, and `JobInv`: a job that compares knows the source's
  value, and an answer equal to its frame was given after it did. Capacity follows because
  unsettled jobs inject into occupied slots: `SlotsBoundTheWork`. `VerdictsStay`, `FillsAreTimely` and
  `MismatchesAreReal` are action properties under `IInv`.
- **LocalCache** (`StorageProofs`). `HitsAreExact` also says what may not be missed, so
  its invariant must know why a key is gone. `LocalInv` keeps the recency list free of
  repetitions and ordered by use: the keys behind a key are among those used since
  (`Ordered`). A list longer than `maxSize` therefore evicts a key that at least
  `maxSize` others were used after, and a put's age, floored to whole milliseconds on both
  sides (`Floored`, `RealAge`), is past the TTL when an entry is dropped as stale.
- **PayloadEnvelope** (`StorageProofs`). `EscapeRestores`, `EnvelopeRestores` and
  `FrameRestores` say each layer undoes itself; the invariant ties the stored bytes
  to the last write.
- **Deadline** (`LibraryProofs`). The type invariant with exactness, `TimerFollowsWait`
  and `TimerIsTight` is inductive; `Refinement` maps each step to a step of
  `BoundedWait` or a stutter.
- **RedisAdapter** (`LibraryProofs`). `FenceInv` says of every invocation in any phase
  that its script proposed nothing but the one sample it took, and that a tracked read
  began no later than what is acknowledged now and answers no frame below what was
  acknowledged then (`Sound`), while the primary's watermark never falls below what is
  acknowledged. `FencesSeen` and `RetryIsIdempotent` follow; the replica may lag
  arbitrarily because a tracked read never goes there.
- **RuntimeConfig** (`LibraryProofs`). `PolicyInv` ties the running policy to the default
  and the overlay it was resolved from; the rest is about the merge. `MergedShadow` says
  that expanding each side's shorthand before the leaves merge yields, leaf by leaf, the
  overlay's own leaf or else the default's, and that a malformed shorthand
  which is kept to be reported changes neither. `FirstWins` turns the nested
  merge into the precedence of four places, `KillSwitch` follows
  `DialCacheKeyConfig.disabled()` through every resolution: `PolicyFollowsOverlay`.
- **Regions** (`StorageProofs`). What is around a context is the least set closed under
  the context each region was opened from (`AroundIn`), so opening a region adds one
  link to a nesting without cycles (`Nesting`). `Holders` says that the holder a region
  stores is the nearest request around it, and that every request still open around it
  is that one. `HoldersAreTheOpenRequests` follows: what `enable()` and `disable()` hand on
  is the open request by nesting alone. `Memos` and `CallStages` tie a memo, and the calls
  that hold it, to their request: `MemosStayInTheirRequests`.
- **MetricsAdapters** (`ServingChainProofs`). `MetricsInv` adds to `RegistryIsExact` that
  an accepted adapter finds each of its collectors with the schema it asked for; an
  event's sample determines the event, so counts cannot mix (`RegistryStaysExact`).
- **Registration** (`NamesProofs`). `NamesInv` is small: keys are as `buildKey` makes them.
  The work is in the text: encoded components hold no delimiter, so a key splits
  back into its components in one way, and sorted arguments are determined by their set.
  Facts about texts of any length are proved from a least counterexample (`LeastNat`)
  where an induction would be used.
- **MutationShards, EvidenceLanes, Exploration** (`ToolingProofs`). `ShardsInv` says at each
  step what a measurer holds, that a shard's file agrees with the process that writes it,
  and that a merged report stands on settled shards, which are the only ones.
  `LanesInv` bounds the trees a replay has read between the context that was there when it
  began and the present: a report that is no older than its context, which is of the
  present tree, can have read no other. `ExplorationInv` ties the report's phase to the
  bytes that were judged. `CompleteReportsAreEvidence`, `CompletionsStayCurrent` and
  `VerdictsStayEarned` follow.

Only model-checked, and why:

- `WaitEnds`, `EveryCallSettles`, `EveryJobEnds`: liveness under fairness is out of the
  prover's reach.
- ShadowLog, Replay and Schedules are written with recursive operators, and Projection,
  Witnesses, QuintPool, ReplayReports and Differential compare folds over records
  with a reference: induction over data.
- CohortEvidence, ModelProperties, SymbolicCheck and Fixtures: their properties are about
  the content of a few files and tables, which the runs enumerate.

## What the code does not promise

Some statements one might expect are not made, because the code does not make them
true; the properties say so where it matters.

- The TypeScript measurer copies the checkout and fingerprints the checkout
  afterwards, so an edit in between is named by a report that did not measure it;
  Go and Rust fingerprint the copy.
- A merge of mutation reports writes its stub, reads the shards and saves, in this
  order and without a lock. The model does it in one step: a measurer that replaces a
  shard in between is left out, because the merge runs alone in CI.
- A lane's completion compares fingerprints. Edits of the model never restore earlier
  bytes, so nothing is said of an edit that is made during a replay and reverted
  before the check.
- Stale recovery checks the age of the frame it retained again, before and after the
  serializer, and `HitsAreBoundedInAge` bounds it at that moment; the watermark is not
  read again. A call that began before an invalidation may still recover the frame it
  retained: `ServedAfterFence` claims only for calls that begin later.
- The lock of the generated fixtures hashes its inputs after the export that read
  them. An edit during `--write` is found by the next undisturbed `--check`.
- A campaign's report names the sources read at its start, while each challenge
  copies the tree later, so of a campaign during which the tree is edited
  nothing is claimed; and a complete campaign checks the exclusions of a
  challenge by their runs, not by their scheduled invariants.
- The symbolic check learns of its server's exit in the next turn of the event
  loop, which it waits for after each job, and hashes launcher and jar once
  the server is ready, not when it is started.
- The comment above `baselineFindings` (`witnesses.mjs:180`) says the gate rule is
  "decided by the generation seed, never by the corpus fingerprint"; `gateRule`
  (line 72) keeps the strict rule for an equal fingerprint whatever the seed, as the
  comment above it says. `SeedDecidesTheRule` states the former, and the run
  `seed_rule` refutes it: a baseline is recorded, a classifier is edited, and the
  recorded corpus is evaluated under another `QUINT_SEED`; a label with one of its three
  recorded hits fails by the strict rule. `WitnessGateIsSound` claims the strict rule
  under the recorded seed, where both comments and the code agree.

## What is not modelled

- The Go, Rust and Python ports. They implement the reference's behaviour with
  other concurrency (goroutines, threads, asyncio); the repository's replays compare them
  with it, and those replays are what is modelled.
- Serializers and values of metrics: opaque to every property. The cohort hash is a
  constant sample. Invalid clock samples, which both sides reject, are left out, and
  so is the last resort of the mismatch warning, a renderer that itself throws.
- Clocks in replayed observations: a receipt's clock is checked, but no observation of
  `Replay` depends on a clock, so that a driver which only lost an advance is refused is
  shown, and that it could otherwise pass for a wrong library is not.
- The predicates that classify a step for a witness label (`replay/witnesses/`), and
  the shape validation of manifests, recipes and protocol messages: long lists of
  field checks over checked-in files, abstracted to classifiers given as constants
  and to one malformed input.
- Single-pass tools that print or compare text (`lint-profiles.mjs`, the coverage and
  audit checks, the vector and document generators), benchmarks, and the download of
  the solver: no state that one step leaves to another. The runner of the Python
  integration tests starts and removes its containers in sequence.
- The Quint models themselves: they are specifications.
