# Kedastral in TLA+

A verification development for Kedastral: TLA+ modules for the parts of the
system whose correctness depends on interleavings, stale data or arithmetic,
TLC configurations that check them on small instances, and TLAPS proofs of the
safety properties for every instance. Paths such as `forecaster.go:157` refer to
the repository; `PROJECT.json` maps every definition to the lines it models.

## The system

Kedastral forecasts the load of Kubernetes workloads and lets KEDA scale them
ahead of it.

| Part | Code | What it does |
|---|---|---|
| Capacity planner | `pkg/capacity/planner.go` | turns a forecast into a replica count per step |
| Forecaster | `cmd/forecaster/forecaster.go` | one goroutine per workload: collect, train, predict, plan, publish; `MultiForecaster` starts, replaces and removes them |
| Snapshot store | `pkg/storage` | keeps the latest snapshot per workload, in memory or in Redis |
| HTTP API | `cmd/forecaster/router` | serves snapshots, marks old ones as stale |
| Scaler | `cmd/scaler/scaler.go` | KEDA external scaler: `IsActive`, `GetMetrics` from a fetched snapshot |
| Client, MCP server | `pkg/client`, `cmd/mcp-server` | read-only access to snapshots and policies |
| Operator | `cmd/forecaster/controller`, `operator.go` | reconciles `ForecastPolicy` objects into forecast loops and `ScaledObject`s |
| Configuration | `cmd/forecaster/config`, `translate.go`, `build.go` | validates a workload and wires adapter, model and policy |
| Adapters, features, models | `pkg/adapters`, `pkg/features`, `pkg/models` | collect metrics, prepare them, predict |
| Backtest | `pkg/backtest`, `cmd/backtest` | replays a recorded series through a model and the planner |
| Processes and helpers | `cmd/*/main.go`, `pkg/httpx`, `pkg/tls`, `pkg/durationx`, metrics, loggers | wiring, shutdown, parsing |

The operator decides which forecast loops run (`Controller`); the forecaster
runs them and publishes snapshots (`MultiForecaster`). A tick of a loop asks an
adapter for metrics, trains a model, predicts and plans (`Pipeline`, with
`DataPath`, `ForecastModels` and `Planner`), from a configuration that was
validated first (`WorkloadConfig`). Snapshots go to a store (`MemoryStore`,
`RedisStore`, both implementing `SnapshotStore`); the scaler reads them over HTTP
and answers KEDA (`Scaler`). `Process` is the life of the forecaster process
around all this, from start-up to exit.

## Modules

| Module | Models | Proofs | Instances |
|---|---|---|---|
| `Planner` | `ToReplicas` and its helpers as operators | `OperatorProofs` | |
| `PlannerLoop` | the loop of `ToReplicas`, two calls side by side | `PipelineProofs` | `MCPlanner` |
| `PlannerVectors` | the vectors of `planner_test.go`, as assumptions TLC evaluates | | |
| `MultiForecaster` | the manager, the goroutines, the in-memory store | `MultiForecasterProofs` | `MCMultiForecaster` |
| `Scaler` | snapshot, HTTP handler, scaler and client calls | `ScalerProofs` | `MCScaler` |
| `Controller` | API server, caches, queue, `Reconcile` | `ControllerProofs` | `MCController` |
| `SnapshotStore` | what the interface `Store` promises (abstract) | | |
| `MemoryStore` | the in-memory store with its clean-up goroutine and `Stop` | `MemoryStoreProofs` | `MCMemoryStore` |
| `RedisStore` | the Redis store: client, wire and server | | |
| `Process` | `main`, operator, HTTP server, loops, shutdown, over `RedisStore` | `ProcessProofs` | `MCProcess` |
| `DataPath` | the three adapters and the feature builder as operators | `OperatorProofs` | |
| `ForecastModels` | `Train` and `Predict` of the four models as operators | `LoopProofs` | |
| `WorkloadConfig` | flags, validation, defaults, factories as operators | `LoopProofs` | |
| `Pipeline` | one workload from flags to snapshots, tick by tick | `LoopProofs`, `PipelineProofs` | `MCPipeline` |
| `Backtest` | the walk-forward backtest | `LoopProofs`, `PipelineProofs` | `MCPipeline` |

An operator whose comment begins with "Mutant of" is a plausible bug in the
definition that follows it. It is not part of any specification. Putting it in
the place of that definition makes TLC find one named property violated;
`PROJECT.json` lists the pairs. They show that each property can fail.

### Planner

Floats are exact rationals: `Headroom` and `UpMaxFactorPerStep` are percentages,
a load is an integer, and the pods a load needs are a numerator over
`PodUnit(p)`. Every field may be any integer before `Normalise`, as the code
allows. `PlannerLoop` runs two calls with ordered arguments in lock step: the
lower one and the higher one are each a complete call, and side by side they let
an invariant say that the plan is monotone in the demand.

Not modelled: float64 rounding at exact integers, NaN and infinite loads. The
parameter `stepSec` has no influence on the result in the code.

### MultiForecaster

| State | Code |
|---|---|
| `started`, `baseDone`, `running` | `mf.started`, whether `mf.baseCtx` is cancelled, `mf.running` |
| `deleting` | calls of `Remove` between the unlock and `Delete` |
| `runner` | the caller of `mf.Run` and its `wg.Wait` |
| `owner`, `policy`, `currentReplicas` | fields of a `WorkloadForecaster` |
| `pc`, `cancelledAt`, `draft` | where a goroutine is, when its context ended, the snapshot it is about to store |
| `snapshots` | `MemoryStore.snapshots` |

What holds `mf.mu` is one action (`Upsert`, `Start`, `Remove` up to the unlock).
A tick is cut where another goroutine can be observed: the adapter's answer, the
computation that ends with the `GeneratedAt` stamp, the context test at the start
of `Put`, the write under the store's lock. `Remove`'s `Delete` is a step of its
own because the lock is not held. `Train` errors are only logged by the code, so
they are part of `Forecast`. The plan is a constant operator: TLC uses
`ToReplicas`, the proofs use the assumption `PlanAssumption`, which is what
theorem `ToReplicasLimits` says of `ToReplicas`.

`Init` chooses the name and policy of every loop object that may ever be built;
`Upsert(l)` builds `l`. Three objects stand for any sequence of replacements of
length three.

Nothing in the repository calls `MultiForecaster.Run`: `main` calls `Start` and
does not wait for the loops. It is modelled as the exported method it is, so
`QuietAfterRun` and `RunEnds` speak of a program that would call it. The end of
`wg.Wait` is several steps (`RunWait`, `LastDone`, `Release`, `RunReturn`), since
an `Upsert` may call `wg.Add` between them: `sync.WaitGroup` then panics, in the
caller of `Upsert` (`UpsertPanics`) or in `Run`. `RunEnds` says that there is no
third outcome.

### Scaler

A call is a request, the handler's read of the store and the decision after the
response has travelled, with the store and the clock moving in between. Time is
counted in fractions of a second because the handler formats `GeneratedAt` with
RFC 3339, which drops them (`RFC3339`). `Publish` may store an old snapshot,
since a replaced loop can (see the findings). A snapshot with `StepSeconds = 0`
comes from a step below a second, which `validateWorkload` accepts; `GetMetrics`
then divides by zero and the process ends (`GetMetricsPanics`), because
`cmd/scaler/main.go` installs no recovering interceptor. The clocks of the two
processes are taken to agree. One call at a time is modelled; calls share no
state but the process itself.

The scaler takes the first count of a plan for `GeneratedAt` and the k-th for
`GeneratedAt + (k-1)*step`. The models compute the k-th value for k steps after
the last row (baseline.go:280), and so does the backtest. `PresentCovered` is
stated in the scaler's reading. It covers the models' reading as well if the last
row is at most one step older than `GeneratedAt`, because the counts before the
one for the present are covered too.

### Controller

`api`, `sources` and `scaled` are the objects on the API server; `cache` and
`sourceCache` the informer caches, which lag and are brought up to date one
object at a time; `queue` and `timers` the work queue and its `RequeueAfter`
part; `work` the request being reconciled (controller-runtime runs one at a
time by default). `Reconcile` is cut at its API calls: `Dequeue` (read the
policy, or `Remove`), `Launch` (read the data source, translate, `Upsert`),
`reconcileScaledObject`, `Report` (status update, requeue). An update is
accepted only for the version that was read. With `Faulty` every API write may
fail. `Restart` loses loops and queue, refills the caches and lists all policies,
at any point of a reconcile. `LoopPanics` ends the goroutine of a loop that stays
registered.

Abstractions: a spec is its data source, whether `toWorkloadConfig` accepts it,
what of it reaches the loop (`workload`), what of it reaches the `ScaledObject`
(`scaling`: target and bounds) and the lead time, which reaches neither; a data
source is a config that `adapters.New` accepts or not; the forecast figures in the
status are left out (they add status versions and so further reconciles, which
`Timer` already provides). Reads of the caches do not fail other than by "not
found". A name is the sequence of its words between dashes, so joining with a dash
is concatenation (`workloadKey`) and two keys coincide exactly when the strings
do. A policy refers to data sources of its own namespace only (`SpecsOf`).

### SnapshotStore, MemoryStore

`SnapshotStore` is the abstract store: a call of `Put` is called, takes effect
and returns; a reader gets what is kept; a snapshot goes by `Delete` or, from the
age `ttl` on, by itself. The constant `Late` says whether a `Put` may take effect
after it has returned, or twice. `put` is what the caller knows, `applied` what
has happened.

`MemoryStore` implements it with `Late = FALSE`. `Put`, `GetLatest` and `Delete`
are one action each under the lock. The clean-up walks the map entry by entry, so
for it the lock is a variable (`mu`), and what the others do between two of its
steps is excluded by their guards, not by the shape of the model. `stopCleanup`
counts the times the channel was closed; 2 would be the panic of a second close.
`Stop` of a store without TTL returns at once.

Only tests build the store with a TTL (`NewMemoryStoreWithTTL`); the forecaster
uses `NewMemoryStore`, which never drops a snapshot by age. `StopSafe`,
`StopsReturn` and `StaleRemoved` are about the former; `ImplementsStore` is about
both, with `ttl` zero for the latter.

### RedisStore, Process

`RedisStore` has the server's keys with their expiry times, the client, and for
each `Put` where it is, how often its command was sent (`tries`), how many copies
are on the way that nobody waits for (`abandoned`) and whether the server executed
one (`executed`). An answer may be lost, the client may send again, and a copy
that was given up may be executed at any later time, or never: `Late = TRUE`.
`Close` is two steps (`CloseClient`, `ForgetClient`) because nobody else takes the
lock it takes: a `Put` can find the client closed, or nil, and then panics.
The server and the client's retries are external and modelled from how
`redis.go` uses them. Keys that an earlier instance left, or a second one sets,
are brought by `PutElsewhere` and `ExecuteElsewhere`, at any time, with the same
TTL. The store has no `Delete`: the key of a removed workload stays until it
expires.

The module has no next-state relation; `Process` has the callers: `main` as a
sequence of places (`connect`, `setup`, `wire`, `select`, `drain`, `close`,
`exited`), the operator's goroutine, the HTTP server and its handlers, and the
loops, which the reconciler registers, replaces (`Upsert`) and removes while
`runOperator` has not returned. Only the loop registered last can send: of a
replaced or removed one just the tick under way is kept (`cancelled`), since the
`Put` of a later tick is refused before anything is sent. `HandlersSeeOpenStore`
is about the handlers of the HTTP server; a `GetLatest` called by a reconcile is
not waited for by `main` and is not modelled. `Exit` ends all goroutines at once,
wherever they are, and leaves what was sent on its way. A signal before
`signal.Notify` ends the process. With a store in memory the same `main` has
nothing to close.

### Pipeline, Backtest

`DataPath` takes a server's answer to rows: the sum over series, the sort, the
formats of instants, malformed pairs. A malformed field is `Bad`; NaN and
infinite samples are left out, and so is the building of requests.
`ForecastModels` keeps what decides between success, error and panic and what
survives a tick: slices are their lengths and the tick they come from, a
forecast's numbers are any of `Loads`, cut as ARIMA and SARIMA cut them, `base` is
the tick whose load the forecast continues and `errors` the one whose residuals
correct it. A cancelled
context inside `Train` or `Predict` is left out here; `MultiForecaster` has
cancellation. `WorkloadConfig` is `validateWorkload` with its defaults, the
factories and what makes their constructors panic; durations are milliseconds,
so that `Seconds` can drop fractions as the code does.

`Pipeline` runs one loop alone, since the interleavings are in `MultiForecaster`;
its state is what the loop keeps (`model`, `current`) plus what the properties
compare with (`answer`, `trainedAt`, `misses`). `Backtest` keeps the lists that
the error figures are computed from, not the figures. The times of a recorded
series are taken as UTC.

## Runs

Passing runs:

| Run | Checks | Instance |
|---|---|---|
| `planner` | `TypeOK`, `Bounded`, `Monotone`, `RateLimited` | 648 policies (crossing, open and ordinary bounds, defaulted and out-of-range fields), two-step and empty forecasts with negative loads, quantile maps that fit, miss and have the wrong length |
| `forecaster_faults` | `TypeOK`, `OneLiveLoop`, `NothingGeneratedAfterStop`, `OnlyReplacedLoopsRegress`, `QuietAfterRun` | one workload, three loops (symmetric), clock 0..2, all faults |
| `forecaster_live` | `SameLoopRate`, `CancelledLoopsEnd`, `RunEnds`, `CurrentHasLastWord` | `FairSpec`, two loops, a policy from zero to two replicas, empty, low and high forecasts |
| `scaler` | `TypeOK`, `ActiveIffFresh`, `PresentCovered`, `CallsEnd` | `FairSpec`, two ticks per second, lead time 1.5 s, clock 0..7 ticks, steps of 0 and 1 s, plans of length 0, 2 and 3 |
| `controller` | `TypeOK`, `NoLostUpdate`, `ReadyIsReconciled`, `NeverForgotten` | one policy with a valid and an invalid spec, recreated once and edited once, a good and a bad data source config, one restart, panics, all faults |
| `controller_live` | `Converges` | `FairSpec`, two specs that differ in every part but the data source, recreated once, edited once, panics |
| `memory_store` | `StopSafe`, `ImplementsStore`, `StopsReturn`, `StaleRemoved` | `FairSpec`, one workload that may be deleted, two `Put`s, a reader, two callers of `Stop`, TTL 0 and 1, clock 0..2 |
| `process` | `TypeOK`, `ImplementsStore`, `HandlersSeeOpenStore`, `LoopStoresInOrder`, `ShutdownEnds`, `OperatorFailureEndsLoops` | `FairSpec`, with and without operator, one workload that is registered, replaced and removed, two snapshots of this or another instance, one handler, two sends per command, TTL 1, clock 0..1 |
| `pipeline` | `RowsAreTheAnswer`, `SnapshotFits`, `ContinuesLastTraining`, `SeasonLagsByCarry`, `PanicsOnlyWithoutResiduals`, `BacktestAligned`, `DriftIsBounded` | 39 configurations: each refusal, each panic, every adapter, format, model and store; three ticks; answers that are empty, short, long, malformed, of several series, with a last load below -50; backtests with steps above and below a second |

One workload is enough for the forecaster because the loops of different
workloads share only the lock, the wait group and the base context, and the
store is keyed by name; the proofs cover any number. A clock of three values
tells apart "before", "at" and "after" a cancellation. For the scaler the clock
runs past twice the lead time with a lead time that is not a whole number of
seconds. For the controller one edit and one recreation give every order of two
versions and two identities in cache, queue and work. Two `Put`s of one
workload are what it takes for one to overtake the other; the proofs cover any
number of `Put`s, workloads, sends and TTLs. Three ticks give every order of a
successful training, a failed one and a prediction; the numbers of rows in the
pipeline's answers lie on both sides of each minimum of the configured models.

`CHECK_DEADLOCK FALSE` is used for the planner and the backtest, which end, for
the forecaster and the process, which stop after shutdown, and for the pipeline,
whose ticks are bounded.

Violated runs, each a disagreement of the code with a text of the repository:

| Run | Property | The text says | The code does |
|---|---|---|---|
| `forecaster_remove` | `RemovedHasNoSnapshot` | OPERATOR.md:76, deleting removes the snapshot | a tick in flight stores one afterwards |
| `controller_keys` | `LoopForEachPolicy` | OPERATOR.md:8, a loop for each policy | two policies can share a key |
| `pipeline_redis` | `SnapshotCanBeStored` | ARCHITECTURE.md:63, the snapshot is stored in memory or Redis | `Quantiles` has `float64` keys, which `json.Marshal` refuses: Redis takes no snapshot of a model that has quantiles |

More places where a text and the code differ were met while modelling; they can
be read off the code and have no run:

- memory.go:143 calls the stored snapshot "the most recent"; `Put` replaces it
  whatever its `GeneratedAt`, so a replaced loop's late `Put` wins
  (`OnlyReplacedLoopsRegress` shows that no other loop's does).
- ARCHITECTURE.md:266 has the scaler fall back to the minimum on a stale
  forecast; only `IsActive` looks at the age, `GetMetrics` does not.
- ARCHITECTURE.md:242 takes the maximum of `replicas[0:leadSteps]`; the code
  includes the step at `leadSteps`, which `PresentCovered` depends on.
- build.go:18 says that the controller rebuilds a forecaster when its policy
  changes; `Reconcile` does so every time, the periodic ones included
  (controller.go:94, once per interval). A tick that takes longer than the time
  to the next reconcile is cancelled and never publishes.
- controller.go:134 reports "Forecast loop running". After a panic the loop is
  gone and the status stays so until the next reconcile registers a new one
  (`ReadyIsReconciled` and `Converges` say what is true). A workload given by flags
  has no reconcile, and no loop any more.
- forecastpolicy_types.go:147 says that `leadTime` is passed to the trigger
  metadata of the `ScaledObject`; scaledobject.go:59-65 does not, and nothing else
  reads the field. The scaler has one lead time for all workloads.
- forecaster.go:198 says that `MultiForecaster.Run` is used by the flag mode; it
  calls `Start` (main.go:147), as the operator mode does.
- planner.go:48 calls `prev` the count last applied; a rebuilt loop starts at
  `MinReplicas`, so that in operator mode every reconcile restarts the rate limits
  from there (`SameLoopRate` is about one loop object).
- MATH.md:117-119 forbids a shrink beyond the down limit; an up factor in (0, 1)
  is accepted and `clampChange` returns its `maxUp` first. `RateLimited` and
  `Monotone` are stated for factors of at least 1.
- scaler.go:262 speaks of a window from now; the window starts at `GeneratedAt`
  (`PresentCovered` says what remains true).
- A step below a second passes validation and is stored as zero seconds, by which
  scaler.go:271 divides. `CallsEnd` counts the restart that follows as the end of
  the call.
- The stale header (router.go:105) and the client's `Stale` flag are right when the
  handler sets them and can be outdated on arrival. No decision in the scaler reads
  them (`ActiveIffFresh`).
- model.go:83 says that forecasts "must have non-negative values" and arima.md:108
  "Clamp to non-negative values". arima.go:254-260 and sarima.go:315-320 make a
  negative prediction zero and then cut it at twice the last value plus 100, which
  is negative after a load below -50. The stored values are then negative; the
  planner takes them as zero (planner.go:89-98), so that the counts are right
  (`SnapshotFits`).
- baseline.go:227 says "Look up seasonal pattern for that future time". The code
  adds whole minutes and hours to those of the last row and so drops a carry: with
  a last row at 0:59:50, steps of a minute and no minute pattern, the forecast for
  1:00:50, and all up to 1:58:50, read hour 0. `SeasonLagsByCarry` says that this
  is the only way in which the pattern is another one.
- sarima.go:199 keeps the errors of an earlier training when the new one leaves too
  few residuals, while values and coefficients are replaced: a forecast mixes two
  trainings. `ContinuesLastTraining` says exactly when.
- arima.go:104 and sarima.go:121 call their checks the minimum data
  requirements. Rows that meet them can still leave no residual: `maCoeffs` is then
  empty while `lastErrors` is not, `Predict` panics and the loop ends. ARIMA with
  p = 9 and d = 1 and 10 rows is one case; the default SARIMA trained on 73 rows or
  more and later on 48 is another. `PanicsOnlyWithoutResiduals` shows that there is no
  other cause.

## Fairness

- Forecaster: the Go scheduler runs every goroutine, every operation of a tick
  has a timeout and the ticker fires, hence weak fairness of a loop's steps;
  `select` chooses at random between ready channels, hence strong fairness of
  `Stop`. `Delete` and the steps at the end of `Run` (`RunEnding`) follow code that is
  already running.
  Nothing is assumed of callers: `Upsert`, `Remove`, `Start`, `Shutdown` need
  never happen.
- Scaler: the fetch has a timeout (10 s) and the handler returns; the pod is
  restarted. Weak fairness of serving, deciding and restarting.
- Controller: watches deliver, timers fire, the garbage collector and the worker
  run. `RequeueAfter` is set on success as well, hence a loop that panics comes back.
  The work queue is first in first out, so a request that is due again and
  again is taken: strong fairness of `Dequeue`. Users need do nothing.
- MemoryStore: the ticker ticks and a `sync.Mutex` starves nobody, hence weak
  fairness of the clean-up and of a `Stop` that was called; `select` chooses at
  random between the tick and the closed channel, hence strong fairness of
  `CleanerEnds`.
- Process: `main` is scheduled and `Server.Stop` has a timeout; a tick and the
  Redis client have timeouts, hence weak fairness of the steps of a `Put`. A
  cancelled loop can be sent into another tick by its `select`, which chooses at
  random, hence strong fairness of `LoopEnds`. Nothing is assumed of HTTP
  handlers, of the Redis server, of the operator or of signals. Pipeline and
  backtest have safety properties only.

## Proofs

TLAPS proves, for all values of the constants allowed by the named assumptions:

| Theorem | Property |
|---|---|
| `PlannerTypeOK`, `PlannerBounded`, `PlannerMonotone`, `PlannerRateLimited` | `TypeOK`, `Bounded`, `Monotone`, `RateLimited` |
| `ToReplicasLimits` | all of `ToReplicas`: counts within the bounds, the first one within the rate limits of `prev` |
| `CollectSaysTheSame` | `Collect` of every adapter: rows in order, with the loads of the answer |
| `ForecasterTypeOK`, `ForecasterOneLiveLoop`, `ForecasterNothingAfterStop`, `ForecasterOnlyReplacedRegress`, `ForecasterQuietAfterRun`, `ForecasterSameLoopRate` | `TypeOK`, `OneLiveLoop`, `NothingGeneratedAfterStop`, `OnlyReplacedLoopsRegress`, `QuietAfterRun`, `SameLoopRate` |
| `ScalerTypeOK`, `ScalerActiveIffFresh`, `ScalerPresentCovered` | `TypeOK`, `ActiveIffFresh`, `PresentCovered` |
| `ControllerTypeOK`, `ControllerNoLostUpdate`, `ControllerReadyIsReconciled`, `ControllerNeverForgotten` | `TypeOK`, `NoLostUpdate`, `ReadyIsReconciled`, `NeverForgotten` |
| `MemoryTypeOK`, `MemoryStopSafe`, `MemoryImplementsStore` | `TypeOK`, `StopSafe`, `ImplementsStore` |
| `ProcessTypeOK`, `ProcessHandlersSeeOpenStore`, `ProcessLoopStoresInOrder`, `ProcessImplementsStore` | `TypeOK`, `HandlersSeeOpenStore`, `LoopStoresInOrder`, `ImplementsStore` |
| `LoopInvariant`, `TrainingInvariant` | the inductive invariants `LoopInv` and `TrainingInv` of `Pipeline` |
| `PipelineRowsAreTheAnswer`, `PipelineSnapshotFits`, `PipelineContinuesLastTraining`, `PipelineSeasonLagsByCarry`, `PipelinePanicsOnlyWithoutResiduals`, `PipelineDriftIsBounded` | `RowsAreTheAnswer`, `SnapshotFits`, `ContinuesLastTraining`, `SeasonLagsByCarry`, `PanicsOnlyWithoutResiduals`, `DriftIsBounded` |
| `BacktestIsAligned` | `BacktestAligned` |

- **Operators.** `OperatorProofs` holds what is said of the planner and of the data
  path as pure code. `Induction` states induction for a set of natural numbers that
  has 0 and is closed under successor, and `FiniteRecursion` gives, for a step
  function, the one function on `0..n` that follows it; every recursive function of
  these models is shown to solve its recursion through them. From there: what
  `ToReplicas` does to each step of a forecast (`ToReplicasFacts`; the look-ahead
  maximum exists by `LargestExists`); which counts a number of rate steps can reach
  (`RateStepFacts`); that a sum does not depend on the order of its terms
  (`SumPermuted`), hence what `aggregateRangeResult` puts at each instant
  (`AggregateFacts`) and that the adapters' rows are in order with the loads of the
  answer.
- **Models and configuration.** The first half of `LoopProofs`: when `Train` and
  `Predict` of each model succeed, fail or panic and how long a forecast is
  (`TrainFacts`, `PredictFacts`); what defaults and validation leave of a
  configuration (`DefaultedFacts`, `NewModelFacts`, `PolicyFacts`).
- **Planner.** `PlanInv` joins the types with the order of the two calls. The
  lemmas say what rounding, `clampBounds` and `clampChange` do to one argument
  ("Facts") and to two ordered ones ("Mono"); products are kept behind local
  definitions, since the SMT solver does linear arithmetic only. `Monotone`
  needs an up factor of at least 1: below it, the up limit and the down limit
  cross and `clampChange` is not monotone.
- **MultiForecaster.** `Registry` and `Contexts` tie the registered loops to the
  live contexts. `Drafts` says that a snapshot about to be stored is not from the
  future, that past the context test of `Put` it is not from after the loop's
  cancellation, and that the registered loop's one is no older than the
  cancellation of every other loop of the workload; `Stored` says the like of the
  store. `Quiet` says that after `Run` has returned no goroutine is past its
  collection (late ones are born cancelled). The lemmas for the steps of the
  manager and of the clock come first; one lemma, `MovesInv`, covers every step
  of a goroutine that leaves the store alone. `ForecasterSameLoopRate` rests on
  `RateInv`: the planner starts from the first count of the loop's own snapshot in
  the store, unless that plan was dropped by the context test of `Put`, and then
  the loop is cancelled and stores nothing any more. It assumes `~Faulty`, because
  a store that fails drops plans of loops that go on; `DriftIsBounded` says how far
  the counts can drift then.
- **Scaler.** A response in flight carries the formatted time of the exact one,
  and ages only grow. `PresentCovered` adds that the step of the present is within
  the lead steps.
- **Controller.** `Lagging` orders cached and current versions; `AtWork` says
  that the copy being reconciled is the cached one unless the policy is queued
  again, that past `Launch` its spec could be started, and that past
  `reconcileScaledObject` the ScaledObject is its own, unless the policy is gone.
  The step proof has one lemma per action. `NoLostUpdate` and `ReadyIsReconciled`
  exclude policies that share their key with another (`Alone`), for which
  `controller_keys` shows that they fail.
- **MemoryStore.** `ScanInv` says that while the clean-up holds the lock the entry
  it looks at is the one still in the map, and that its time is not ahead of the
  clock: so what it deletes is past its TTL when it is deleted. `StopInv` ties
  `stopMu`, `stopped`, the channel and the callers of `Stop` together. Each step
  maps to one step of `SnapshotStore` or to none.
- **Process.** `ShutInv` says that the client is open until `main` has drained the
  server, and that no handler runs from then on. `Inv` (`StampInv`, `KeyInv`) says
  that a `Put` that got its answer has been executed, that commands nobody waits
  for belong to a `Put` that was called, that a key expires no earlier than its
  snapshot's `GeneratedAt` plus the TTL, and that of one workload at most one tick
  that is not cancelled is under way, whose snapshot is the youngest that this
  process has sent. The last needs that a cancelled tick sends nothing more,
  although it may stamp its snapshot later than the tick of the loop that replaced
  it. From it every step maps to a step of `SnapshotStore` or to none, and a
  command that a registered loop waits for never replaces a younger snapshot.

- **Pipeline.** `LoopInv` has one conjunct per piece of state that a later stage
  relies on. `ConfigInv`: past `loadWorkloads` the configuration is one that
  validation accepted, and past `buildForecaster` the model is the one it asks for;
  without it nothing bounds the length of a forecast. `ModelInv`: a trained
  regressive model continues its last successful training, and a prediction of it
  is in range unless the training of this very tick left no residual; this excludes
  a panic in later ticks, after a failed training. `FrameInv`: the frame is the
  answer's, then its feature rows, and the forecast is of that frame and tick.
  `TrainingInv`, kept beside `LoopInv` because only `ContinuesLastTraining`
  needs it: from which training the errors are that the model holds.
  `ReplicasInv`: the current count is within as many rate steps of the stored
  plan's first count as plans were lost since; `DriftIsBounded` needs one more
  step of the planner. The step proof has one lemma per action of `LoopNext`, in
  `LoopProofs`. What these lemmas need of the planner and of the adapters they take
  as hypotheses (`CollectsRight`, `PlansRight`, `RatesRight`, and `Inductive` for the
  backtest); `PipelineProofs` proves the hypotheses from `OperatorProofs` in its
  lemma `Hypotheses` and then the theorems, which have none.
- **Backtest.** `BacktestInv` says that the position is where the strides taken so
  far lead (`Progress`) and that the pairs compared so far are aligned (`Paired`).
  Without `Progress` the count of windows at the end does not follow; alignment
  also needs that point `i + k` of a regular series is `k` steps after point `i`
  (`RegularFacts`). A series with gaps, or a step below a second, is outside
  `Regular`: nothing is claimed of its alignment, only of its counts.

The assumptions `ConfigsAssumption`, `AnswersAssumption` and `JobsAssumption` are
types: any configuration, any answer and any job is allowed, valid or not.
`LoadsAssumption` says that loads are natural numbers.
`LoopInv`, `TrainingInv` and `BacktestInv` were model-checked before they were proved.

Only model-checked: liveness under fairness (`CancelledLoopsEnd`, `RunEnds`,
`CurrentHasLastWord`, `CallsEnd`, `Converges`, `StopsReturn`, `StaleRemoved`,
`ShutdownEnds`, `OperatorFailureEndsLoops`), which is out of the prover's reach.
Every invariant and every action property of a passing run has a theorem.

## Not modelled

`PROJECT.json` gives the reason for each component. In short:

- generated code, examples, metrics and logging: no decision reads them;
- TLS files, HTTP middleware, flag and duration parsing, the scaler's `main`: no
  state of their own, or strings only;
- the MCP server: read-only tools over the client and the API server;
- the numbers the models predict: floating-point statistics. What is modelled is
  when they succeed, fail or panic, how many values there are and which data they
  continue;
- `FillMissingValues`, `AlignTimestamp`, `ParseHTTPAdapterConfig`, `ValidateConfig`:
  called by tests only;
- argument checks and JSON syntax of the HTTP API; the backtest's CSV reader,
  error figures and printed report.

Two compositions are left out. `Controller` with `MultiForecaster`: `Controller`
calls `Upsert` and `Remove` as atomic steps, which they are under the manager's
lock, and `MultiForecaster` allows these calls in any order, so that its properties
hold under the controller as well. Concurrent scaler calls share nothing but the
process: a panic in one of them ends the others, of which `Scaler` shows the case
of one call.
