# Verification of the metrics generator receiver

TLA+ models of the metricsgen receiver (an OpenTelemetry Collector receiver
that simulates the metrics of many instances over a stretch of time), TLC
configurations that check them on small instances, and TLAPS proofs of what
matters most for every value of the parameters. Line numbers refer to files
under `src/metricsgenreceiver/`; `receiver.go`, `config.go` and so on are
short for the files there.

    tlc -workers 2 -config GeneratorBatch.cfg GeneratorMC.tla
    tlapm Generator_proof.tla

`PROJECT.json` lists the components, the runs, which lines each definition
models, the hazards and which property is aimed at each, and the theorems.

## Inventory

| Component | State | Operations | Interacts with |
|---|---|---|---|
| Generator loop, workers, Shutdown (receiver.go:203-256, 347-449) | `currentTime`; the templates (`metricsTemplate`), the instances and the WaitGroup of an interval; `dataPoints`, `progress`; `baseRand`; the context | `Start`, the goroutine's loop, `produceMetrics`, `produceMetricsForInstance`, `applyChurn`, `Shutdown` | calls the consumer, shares templates, instances, counter and consumer with the workers; the collector calls `Start`, `Shutdown` and cancels the context |
| Real-time pacing (receiver.go:204-256) | `currentTime` against the wall clock, the ticker's channel | the loop, the `select` | the ticker, the duration of a production |
| Instance churn (config.go:45-85, receiver.go:310-345) | per scenario: instances, `nextReplacementInstanceID`, `churnRate`, `churnRemainder` | `newChurnRate`, `consumeNextChurnCount`, `applyChurn` | called by the loop after each interval; renders resources, which may fail |
| Configuration (config.go, receiver.go:94-112) | the configuration, whose times are resolved in place | `Validate`, `newMetricsGenReceiver` | read by everything |
| Generation hints (metricstmpl/generation_hints.go) | consistency per metric name, hints, errors, the template | `ExtractGenerationHints` | its hints select the evolution and the variation of a series |
| Numbers and explicit histograms (distribution/distribution.go, generation_hints.go, instance_variation.go) | the data points of the template; per instance nothing: an emission is a function of template, instance and time, and for a histogram of the random generator | `AdvanceDataPoint`, `EmitForInstance`, `InferPrecision` | called by the loop (advance) and by each worker (emit) |
| Exponential histograms (expohistogen, instance_variation.go:355-396) | the samples, the buckets of the template | `GenerateInto`, `MergeInto`, the variation of the counts | called at construction, advance and emission |
| Construction of scenarios (receiver.go:114-201) | hashes and plans per data point, in visiting order | `newMetricsGenReceiver`, overrides of temporality and histograms | its indices are used by every emission |
| Emission timestamps (receiver.go:289-308) | the jitter | `addJitter` | the timestamps the consumer sees |
| Templates and resources (metricstmpl/metricstmpl.go) | none but the goroutine of `loop` | rendering | construction and churn |
| Series hashes, iteration over data points (distribution/series_hash.go, dp/datapoint.go) | none | `IdentityHash`, `ForEachDataPoint` | give each series its identity and its index |
| Factory, metadata, progress log | none that the generation depends on | | |

### What is hard

* Concurrency. Workers of several scenarios run while the generator goroutine
  goes on: it advances the next template, runs a scenario inline, draws from
  `baseRand`, and it writes templates and instances without a lock. What keeps
  workers and generator apart is one WaitGroup per interval.
* Ordering. All scenarios of an interval must be complete before the next
  interval, before churn, before the end of the run.
* Time. A ticker with a channel of one drops ticks when a production is slow;
  cancellation can come at any step, together with a tick, or during the sleep
  before the exit.
* Long runs. A fractional churn rate, round-robin replacement, walks that are
  rounded at each step, counters recomputed per instance in every interval: an
  error shows after many steps only.
* Partial failure. A replacement whose resource cannot be rendered; a template
  of which some hints are invalid; a template file that does not parse beside one
  that does; a rendering that stops in the middle of a `loop`, whose values come from
  another goroutine.
* Indices. Hashes and plans are stored by the place of a data point in the order
  of visiting, and used by its place in a copy; the factors of a histogram's buckets
  belong to indices that a merge changes.

### What makes each component correct

* Generator: no worker reads what is being written; each instance emits exactly
  once per interval; rounds are complete whatever ends the run; the total is
  exact; the data depend on the seed and not on the schedule; `Shutdown`
  returns, and nothing happens after it; a complete run ends.
* Pacing: timestamps never run ahead of the clock and do not drift unless a
  production is too slow; cancellation is prompt.
* Churn: the pace is exactly the configured rate; replacement is round-robin; no
  instance is replaced before it emitted; lifetimes are exact.
* Configuration: what `Validate` accepts resolves to parameters the rest of the
  program can run with.
* Hints: the verdict does not depend on the order of the metrics; all or nothing.
* Number series: ratios stay ratios, gauges above 1 stay there, counters never
  decrease, binaries do not flip, for the template and for each instance.
* Histograms: no observation is lost or counted twice, min and max are exact,
  buckets keep their place, counts grow.
* Rendering: what is rendered is what is written; the first file that parses
  decides; no goroutine is left behind but of a loop that was not read to its end.
* Scenarios: no series is lost or confused with another from template to
  consumer; the overrides are honoured; timestamps increase.

## Modules

    Rounds                      what the consumer is promised
      ^ implemented by
    Generator  ---- uses ---->  ChurnRate  <---- uses ----  Churn, Config
      ^ refined in time, not composed: RealTime
    Rendering  <-- extended by --  Scenarios
                                     ^ what it takes from these is any verdict
                                       of the hints and any value of a series:
    GenerationHints, NumberSeries, Histograms

* **Generator** is the loop with its goroutines. `pc` is the place of the
  generator goroutine, `wpc[w]` that of worker `w = <<scenario, number>>`, and
  each access to shared state is a step of its own: in particular the plain
  `+=` on the counter by the generator goroutine is a load and a store
  (receiver.go:367), while a worker's `atomic.AddUint64` is one step. A data
  point is abstracted to the emission it belongs to: `sent` counts the emissions
  of each instance in the interval. `baseRand` is the number of values it has
  yielded (`draws`), which is all a deterministic generator's state depends on.
  As in Churn, any of
  the replacements due in an interval may fail to render (`ApplyChurn`), here without the identifiers.
* **Rounds** is the abstract specification: rounds of emissions, one emission per
  emitter in a round, stops only between rounds. `RoundsSpec` in Generator is the
  refinement: `round` is `interval`, `sent` is `sent`, and the run is over when the
  goroutine has left the loop.
* **RealTime** adds the clock: productions take any time up to a bound, the ticker
  fires on time and drops ticks when its channel is full. A production is one
  activity here, because Generator shows that it is one towards the consumer.
* **ChurnRate** is the arithmetic of churn, without state. `gcdInt64` is a recursive
  function and not a RECURSIVE operator, so that modules with theorems can use it.
* **Churn** is one scenario over its whole run, with failing renderings;
  **Config** goes from the configuration as written to the parameters, with the
  checks in the order of the code (the error of the first is returned) and
  integer products that wrap around (`Wrap`, `Half`).
* **GenerationHints** visits one metric per step, then returns. Class names are
  model values or strings; `Absent`, `NonString` and `BadClass` stand for what the
  metadata key may hold otherwise.
* **NumberSeries** is one series and one instance in fixed point: 1.0 is `Unit`
  (100), emissions are finer by `Fine`. What a random generator or a hash yields is
  chosen freely from a set that has the ends of its range. Integers are truncated
  and rounded as in the code; probabilistic rounding is a choice of both results.
* **Histograms** is one series of histograms: the data point of the template and what
  one instance emits of it. `kind` says which of the three ways it evolves in. Buckets
  are a function from indices to counts; positions are the buckets of `MaxScale`, the
  finest scale of the library, so that the midpoint of a bucket of a coarser scale is
  one of them. That midpoint is a boundary of every finer scale and is computed in floating point
  (expohistogen.go:168), so it may fall on either side: `Lowered` is the set of those that fall on
  the lower one, any set in the proofs. The library (go-expohisto) is external: two histograms replayed into it
  are at the finest scale at which both sides fit into `MaxSize` buckets. `observed` and
  `values` are histories of what was generated; a value drawn in a bucket is any of the
  bucket's positions.
* **Rendering** is `RenderMetricsTemplate`. A file is what becomes of it (`Content`);
  a template is a sequence of pieces, one per metric, each with the steps the renderer takes in
  it, the ranges unrolled: it calls `loop`, takes the next value of a loop or sees its end, writes a
  data point with the values of the turns it is in. That is all text/template makes of `loop`, which is
  an ordinary function: loops may be nested, go on over several metrics, be left by a `{{break}}`, or
  be called without a range. Each call has a goroutine of its own, named by its place. A send and
  the receive it meets are one step, since the channel is unbuffered; closing is a step of
  the goroutine and its detection a step of the renderer, and where the template expects a value
  and finds the channel closed, it goes on after the range, so that a goroutine that closes
  too early shows.
* **Scenarios** composes Rendering with the construction of one scenario and its
  emissions. Each step of `newMetricsGenReceiver` that can fail is an action, with
  `stage` as its place. A hash or a plan is the arguments it is computed from, so that
  one used for another series shows. The rendering of the resources is one action with
  a failure: it is another rendering of the same kind, with the instance's number in it.
  The instances of an interval emit in any order, as workers do.
* **GeneratorMC, ChurnMC, ConfigMC, GenerationHintsMC, NumberSeriesMC, HistogramsMC,
  ScenariosMC** hold the values of the constants; **Generator_proof, Receiver_proof** (of
  Config and RealTime)**, GenerationHints_proof, Churn_proof, NumberSeries_proof,
  Histograms_proof, Scenarios_proof** the theorems, and **Lemmas_proof** the facts about
  division, sums and the greatest common divisor that several of them use. RealTime calls its
  specification `ClockSpec` so that it can stand beside Config.

In the modules an operator named `<name>_<what>` right before `<name>` is a mutant:
`<name>` as a plausible bug would have it. `PROJECT.json` pairs every property of a
passing run with a mutant under which the run must fail. Nothing else uses them.

## Runs

| Run | Shows | Bounds |
|---|---|---|
| GeneratorBatch | complete rounds (`RoundsSpec`), exact totals, nothing after `Shutdown` | an inline scenario of two instances, then four instances on two workers, both with churn (one per interval, one every second interval), two intervals, cancellation and Shutdown at every step |
| GeneratorRealTime | no data race, every emission from the current template, seeds independent of the schedule, the fatal status only after a complete run, `Shutdown` returns, the run ends | two concurrent scenarios (two and one workers), two intervals, the ticker, cancellation in the select, the sleep before the exit |
| GeneratorLostUpdate (violation) | data points are lost from the total when a concurrent scenario is before an inline one | two workers, one interval |
| ChurnReplacement | exact pace, round-robin, no instance replaced before it emitted, exact lifetimes | all scales and sample counts up to 6, lifetimes up to 3.5 intervals, 13 intervals; any renderings fail for scales up to 3 |
| ConfigResolved | exact churn rates, at most one replacement per instance and interval, workers that share the instances exactly, resolved times | 864 combinations of time settings, scenarios with scale up to 6, concurrency -1 to 3, all kinds of churn, alone or second |
| RealTimePacing | never ahead, the lag is the dropped ticks, no drift while productions are fast, prompt stop | interval 3, productions up to 8 units, four intervals, exit timeout 5 |
| GenerationHints | verdict, hints and stripping | all templates of up to three metrics, two names, two classes and the three other contents |
| NumberSeries | ratios, gauges above 1, binaries, counters | every metric type under every hint, seven seeds, three intervals |
| NumberGaugeLocked (violation) | see Findings | |
| Histograms | observations conserved, never empty, exact min and max, buckets in place, counts that grow | four samples (fine, far, negative with zeros, zeros only), scales 0 to 2, four buckets, every shake, three hashes, every fourth midpoint rounded down, two intervals |
| HistogramCounts (violation) | a merge that lowers the scale makes an instance's count decrease | the two positive samples |
| Scenarios | rendering as written, the first parsable file, series preserved, overrides, plans, timestamps, goroutines that end | every content of every extension with a template of one loop; every content with a template of nested loops, a loop left by a break and one without a range; good templates of every two of seven metrics (all types, empty ranges, one series twice) and of a loop around two metrics; six overrides; two instances, three intervals, jitters below, at and above the interval |

The bounds are chosen so that each interesting case occurs. Two workers of one
scenario and a worker of another are enough for the orders of a worker with a
worker of its own scenario, with one of another scenario and with the generator
goroutine; workers are symmetric but for their slots. Two intervals are needed for
churn, for a template that is one interval ahead or behind, and for the barrier. For
churn, scale and sample counts up to 6 give rates below, at and above one per interval,
fractions that reduce and that do not, and 13 intervals give each initial instance two
turns. In RealTime a production of 8 spans nearly three intervals, so that one tick waits
and more than one is dropped. In GenerationHints three metrics of two names are enough for
two metrics of a family with one of the other before, between or after them.

In Histograms the samples lie so far apart that four buckets hold them at scale 0 only: a
cumulative histogram is generated at scale 2 or 0, merged at its own, a finer or a coarser
scale, and merged again. With the midpoints rounded down that are, two buckets that were too far apart
fit again at a merge, and the scale comes back up. `MaxSize` is even, as 320 is. Three scales are what a midpoint needs to be a position of its own,
two scales below the finest one. Two advances give every instance two emissions to compare.
In Scenarios the end time is not a whole number of intervals after the start, the jitter of 7
exceeds the interval of 3, and two pieces, one of which may be empty, are enough for
an index to differ from the number of a metric or of a number series; the template of three
has a summary, a histogram and a sum, for plans that skip two kinds of series.
Nested loops, with two turns outside and two and one inside, leave two goroutines blocked when the execution fails
inside; a loop left by a break and one without a range leave theirs also after a success.
What these runs show, but for the liveness properties, is proved for all bounds (below).

GeneratorLostUpdate and the two Generator runs differ in one thing that matters: with
every inline scenario before every concurrent one, or none, no worker runs while the
generator goroutine adds to the counter, and the total is exact. TLC's data race checks
(`NoDataRace`) cover templates and instances; the race on the counter is that finding.

### Fairness

`FairSpec` of Generator assumes weak fairness of the generator goroutine, of each worker,
of the ticker and of the return of `Shutdown` once it can. The Go scheduler gives it
for goroutines that can run; a ticker keeps ticking; and a production step is a call
of the consumer, assumed to return. No fairness is assumed of `Start`,
`Shutdown` and the cancellation: the collector need not call them. `FairSpec` of
Scenarios assumes the same of the goroutine that renders and of each goroutine of `loop`: one
that can run does; a blocked one is not helped. `Abort` is one of the renderer's steps:
a file that fails may do so at any piece, and at the end of its pieces at the latest. The other modules state safety only and have no fairness.

## Proofs

TLAPS checks the following for all values of the constants that satisfy the
assumptions named in the modules: the numbers of scenarios, instances, workers,
data points, intervals and the rates are arbitrary naturals (a scenario with churn has instances),
concurrency divides scale where it is not zero, as `Validate` ensures, templates have any
number of pieces and configurations are anything of the right type (`ConfigsAssumption`). Six
theorems have a hypothesis of their own, named below with what it means.

**Induction.** The library's induction theorems take an operator as a parameter, which no
installed prover can instantiate. What they would prove is proved by least
counterexample instead: `LeastNat` (a set of naturals that is not empty has a least element) and
`SmallestSet` (of a set of finite sets, one from which nothing can be removed) speak of sets
only. This reaches recursive functions (`GcdEquation`, `FlatTableIs`: that the equation
of the function has a solution, and which), sums over finite sets (`SumAdd` and the lemmas
around it) and concatenations of any number of sequences (`PrefixStep`, `EntryAt`, `EntryOf`).

**Generator_proof.** `NoDataRace` and `EmitsCurrentTemplate` are not inductive: nothing in
them says why no worker is left when the next interval advances a template. `BarrierInv`
adds it: the WaitGroup holds exactly the workers that are not idle (`WaitGroupInv`);
such a worker has been spawned in this interval, so that the generator goroutine is in
`produceMetrics` and past the worker's place in it (`Spawned`); and the templates of exactly
the scenarios the interval has reached are one step ahead (`TemplateInv`). `BarrierCorrect`
proves it inductive, one lemma per part and one case per action, and `TypeCorrect`,
`RaceFree` and `CurrentTemplate` follow. `AdvanceTemplate` and `SpawnWorker` are the cases
with content: a worker of a scenario exists only when `scn` has passed the scenario, or is at
it in the spawning loop, so it is never one whose template is written; `WaitForWorkers`
leaves the phase only with an empty WaitGroup.

* Rounds. `RoundsInv` adds to it that `sent` is exactly what the places of the goroutines say
  (`SentInv`: an instance of a worker was sent iff the worker is past its turn, an instance of
  the inline loop iff the loop index is past it). That no slot is sent twice or left out is a
  fact on division: slot and (worker, turn) determine each other, since concurrency divides scale.
  `ImplementsRounds` is the refinement, step by step: `Spec => RoundsSpec`.
* The end. `StopInv`: the goroutine is at the exit only after the last interval, and `Shutdown`
  has returned only when no goroutine runs. From it `ExitReportsCompletion` and
  `ShutdownSilences`.
* Seeds. `SeedsInv`: the number of values `baseRand` has yielded is a sum over the
  scenarios passed plus the loop index, for every place of the goroutine. From it
  `SeedsAreDeterministic`.
* Totals. `CountInv`: what was emitted is what is counted plus what is about to be, by the
  inline loop between its load and its store and by each worker between its emission and its
  atomic addition; between load and store nobody else changes the counter. The last part needs
  `InlineFirst` (no scenario without workers after one with workers), the hypothesis of
  `NothingMiscounted`; GeneratorLostUpdate is what happens without.

**Receiver_proof.** `ConfigInv`: the configuration is the written one, with its times resolved
once the receiver is built, and none is built that `Validate` refused. From it `RangeResolved`;
`InstancesShared`, by division again; and `RatesExact`, with at most one replacement per instance and
interval from the check of the lifetime (`AtMostScale`), under `ProductsFit` (scale times
interval below half the range of an int64: see Findings).

In real time, `PacingInv` relates the ticker to the interval counters
(`TicksAccountedFor`: each tick is consumed, waiting or dropped) and to the clock
(`TickerInv`). From it `PacedByTheClock` (never ahead) and `LagIsDroppedTicks`. `SyncInv`
adds, for productions no longer than the interval, that the select takes a tick the moment
it fires; from it `NoDrift`. `StopInv` carries the time still to come; from it `PromptStop`.

**GenerationHints_proof.** `PassInv`: as long as no error was found, the state of a name
says exactly what every metric of the name visited so far declared (`Faithful`), and an
error implies that the template is not well hinted, a condition that does not mention order.
At the end of the pass it yields `VerdictCorrect`, `HintsCorrect` and `StrippingCorrect`.

**Churn_proof.** The pace is not inductive as stated: it is a quotient. `PaceInv` says
that what was replaced, in units of the rate, and the remainder carried over are together
exactly what is due, and that the remainder is less than one replacement; the lemmas on
division turn it into `ExactPace`. That the reduced rate is the configured one is
`ReducedRate` of Lemmas_proof: the recursive function `gcdInt64` yields the greatest common
divisor of any two naturals (`GcdIsGreatest`), which divides both. `ChurnAtMostScale`
follows from it and from what `Validate` demands of lifetimes. With at most one replacement per
slot and interval, `DueInSlot` and `SlotStep` say which identifier reaches a slot when it
arrives, fails or is not due; `SlotInv` collects them, and `RoundRobin` and
`EmitsBeforeReplaced` follow. `TurnInv` dates each identifier (`DueAt`: the interval in which
it fell due) and says that an instance has emitted in every interval since; an identifier falls
due exactly `samples_per_series` intervals after the one `scale` before it, hence `ExactTurns`.

**NumberSeries_proof.** `NumbersInv` gives the type, the grid and the range of the template;
with it `RatiosReflected` (reflection, then rounding to a precision that divides 1, for the
template and the emission), `AboveOneKept` and `BinaryNeverFlips`. `CounterInv` says that
the last emission is not above what the instance would emit of the template now; since
that emission is a monotonic function of the value and of the interval, `CountersGrow` follows, under
`MedianCovers` (no step of the noise is below minus the median; otherwise counters do decrease,
see Findings).

**Histograms_proof.** Five invariants, each on top of the one before.

* `CountsInv`: the counts are those of populated buckets. A regrouping keeps the sum of the
  counts, whatever the function is (`Regrouped` partitions the buckets by it), and so does the
  sum of two bags; hence `ObservationsKept`, which shaking, replaying through midpoints and
  rescaling cannot break.
* `RangeInv`: the range of the template is that of the history of the values, up to the zeros,
  a case distinction on what `MergedRange` had before. From it `RangesExact`.
* `PlacesInv`: everything lies in `MaxSize` octaves, and a merged histogram is at the finest
  scale at which it fits. A midpoint lies in its bucket at the bucket's own scale and at every coarser
  one, by division (`MidpointCoarser`). At finer ones it may be on either side of a boundary, so what did not
  fit as buckets may fit as midpoints one scale finer: 320 that are halved to 160 may come back as 320.
  Two scales finer two midpoints are at least twice as far apart as their buckets (`MidpointFiner`), and
  since `MaxSize` is even that does not fit (`FinestIsWide`, `WideFitsNoFiner`), so the scale rises
  by one at most. From it `MergesInPlace`.
* `EmissionInv`: the last emission varies the template as it was before the merge, each of
  whose buckets is contained in one of now, with at least its count. The variation is monotonic in the
  count and its factor belongs to the index, hence `CountsNeverShrink`.
* `FullInv`: buckets or zeros are left, since a shake is tried again until it leaves some and a
  varied count is at least 1; hence `EmissionsNotEmpty`.

`SamplesFit` (the last three theorems) says that the samples, shaken, fit into `MaxSize` octaves:
the library has scales below 0 for others, which the model leaves out. `FactorsEverywhere` (the last
two) says that a factor exists for every index, as the hash of any number does; the run gives
them for the indices it reaches. `SamplesNotEmpty` (`EmissionsNotEmpty`) is
the condition of expohistogen.go:237, "if the input is non-empty". The samples of the run satisfy the
first and the last.

**Scenarios_proof.** `RenderInv`: the extensions before the one that is tried do not parse,
and a result is that of the file at the extension; from it `OutcomeOfFirstParsable`. `PlaceInv` and `LoopInv`:
a call of `loop` has a goroutine once the renderer is past it, which has sent one value for each turn
of its range before the renderer's place and closes the channel after the last of them only.
A step of the renderer to the next place passes that place and no other (`StepOn`, `PieceOn`, `SameTurns`, `TurnTaken`), so that only the loop whose turn it takes goes on, however it is nested. From it
`UnreadLoopsBlocked`: at every moment the goroutines with a value left to send are those of the loops called
and not read to the end, the safety half of `LoopsEnd`. `RenderedInv`: what is rendered
is the concatenation of the text of the places before the current one, the value of a loop in
a point being that of the turn; from it `RenderingComplete`. `TemplateInv` follows the template through the stages of the construction: the
points of a piece are one stretch of the rendering (`PointsOfIs`), the overrides keep
them, and the places at which they are visited are those at which they are written
(`VisitedIs`, by `SameShape`); from it `SeriesIntact` and `OverridesApplied`. `ClockInv`: no timestamp
reaches the next interval, and none of an instance still to emit reaches the current one; from
it `TimestampsOrdered`. `PlanInv`: hashes and plans are, index by index, those of the
template; from it `PlansAligned`.

Only model-checked: the liveness properties (`RunsToCompletion`,
`ShutdownCompletes` of Generator, `LoopsEnd` of Rendering), which rest on fairness and are out of
the prover's reach.

## Findings

Each is a run that TLC refutes; `PROJECT.json` quotes what the repository says.

* GeneratorLostUpdate: `*dataPoints += ...` (receiver.go:367) races with the atomic
  additions of workers of an earlier scenario; the logged total is then too small.
* NumberGaugeLocked: the rounding comes after the check that keeps a gauge out of [0, 1]
  (distribution.go:83-96), so 1.04 with one decimal becomes 1.0, and the gauge is bounded
  by [0, 1] from then on.
* HistogramCounts: an instance's factors belong to bucket indices of the current scale
  (instance_variation.go:386-391). When a merge lowers the scale, the same observations fall
  under other factors, and the count of a cumulative exponential histogram decreases.
  `CountsGrowAtScale` of the Histograms run is what does hold.

Seen on the way and not given a run of their own:

* `start_time` without `end_time` is refused, also with `run_indefinitely` or
  `end_now_minus`: the zero end time lies before it (config.go:122).
* `int64(scale) * int64(interval)` is in nanoseconds and wraps around for a scale
  of 3,000,000 and an interval of an hour (config.go:64); in Config a small `Half` shows it.
* A failed rendering of a replacement costs its instance another whole turn
  (receiver.go:323); `ExactSamplesPerTurn` states the number of samples that results.
* A merge may raise the scale of a cumulative histogram again, by one, since midpoints are boundaries
  of the finer scales (expohistogen.go:168); no observation leaves its bucket of the coarser scale.
* A rendering that fails leaves the goroutine of every `loop` around the place of the failure blocked for
  ever, and a loop left by a `{{break}}` leaves its own even when all goes well (metricstmpl.go:29-34).
  Replacements are rendered in every interval, and one that fails is only logged (receiver.go:323).
  `LoopsEnd` and `UnreadLoopsBlocked` say which goroutines these are.
* The sleep of `exit_after_end_timeout` is not interrupted by `Shutdown` (receiver.go:246);
  `StopsPromptly` names it as the one exception.
* With an interval that is not a whole number of seconds a clock is rounded at each step
  and drifts (distribution/generation_hints.go:80-97).
* `Validate` compares the times before the relative ones are resolved (config.go:122-123):
  `start_now_minus` and `end_now_minus` in the wrong order are accepted, and nothing is generated.
* Dropped ticks are never caught up: after one production longer than the interval the timestamps
  stay behind the clock, where receiver_test.go:691-692 wants them in sync. `TicksAccountedFor` gives
  the lag, `InSyncWhileFast` the case without.
* A cumulative `sparse_counter` rises in every interval for an instance, because
  `counterRateOffset` is added to it as to any cumulative sum (generation_hints.go:28: "is flat
  most intervals").
* A sample of negative scale would panic in `LowerBucketBoundary` (expohistogen.go:234: `1<<scale`).
* A template file that exists and does not parse is reported as not found (metricstmpl.go:48, 72).
* The min and max of a merged histogram may lie outside its lowest and highest bucket: the buckets
  are those of midpoints, the extremes those of the values (expohistogen.go:89-90); and the
  generated min of a histogram ignores its zeros until a merge.
* An exponential histogram is made delta unless the override says cumulative, also when the template
  says cumulative (receiver.go:153-157). A metric without data points is not overridden at all.
* The buckets of a cumulative explicit histogram walk like those of a delta one and may decrease
  (distribution.go:105-113).
* A `current_count` of double values written as 0 has no inferred precision
  (distribution.go:42-44) and its emissions are not whole numbers.
* A monotonic sum decreases when `std_dev` is not small against `median_monotonic_sum`;
  hence the small `Noise` of the NumberSeries run.
* The defaults in the repository's README (`std_dev_gauge_pct` 0.05, `std_dev` 5) are
  not those of distribution.go:16-20 (0.01 and 1.0).

## Not modelled

* NaN, infinities and rounding errors of floating point: NumberSeries and Histograms are
  exact, but for the midpoint of a bucket, which falls on either side of the boundary it is at finer scales.
  That it is in its bucket at the bucket's own scale is taken from the half bucket that separates it from the edges.
* The sums and the zero threshold of histograms; the loading of the samples.
* text/template, the YAML and JSON conversions and the random functions of the resource template:
  parsing, formatting and draws without state of interest here. The bit arithmetic of the hashes:
  what they yield is chosen freely, and the identity of a series is its name and attributes.
* The factory, generated metadata and the progress log.
* The panic on a resource template that renders to no resource (metricstmpl.go:99, `At(0)`): a failure of
  the rendering of resources is an error in Scenarios and a replacement left out in Churn.
* An error of the consumer: it is reported to obsreport, and the code goes on as if
  the call had succeeded; the model does the same.

## Plan

Done: Generator with Rounds, RealTime, ChurnRate and Churn, Config, GenerationHints,
NumberSeries, Histograms, Rendering and Scenarios, and the proofs of all their safety properties.

Left: scales below 0 in Histograms, with which `SamplesFit` would go; that the instances a
scenario's workers emit in Generator are those that Churn replaces, as one refinement.
