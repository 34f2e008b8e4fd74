----------------------------- MODULE Generator -----------------------------
(***************************************************************************)
(* The metrics generator (receiver.go): the goroutine Start spawns walks    *)
(* the simulated time from StartTime to EndTime.  In every interval it      *)
(* advances the template of each scenario, lets the instances of the        *)
(* scenario emit a copy of it, either inline or on Concurrency worker       *)
(* goroutines, waits for all workers and replaces some instances.  Shutdown *)
(* or the cancellation of the context given to Start stops it.              *)
(*                                                                         *)
(* `pc` is where the generator goroutine is:                                *)
(*   created   Start was not called                                        *)
(*   check     loop condition and ctx.Err() (receiver.go:214)               *)
(*   advance   next scenario of produceMetrics, template not yet advanced   *)
(*   inline    Concurrency = 0: about to emit instance i                    *)
(*   load      about to read the counter *dataPoints, non-atomically        *)
(*   store     about to write it back                                       *)
(*   spawn     Concurrency > 0: about to start worker i                     *)
(*   wait      wg.Wait()                                                    *)
(*   churn     applyChurn, scenario scn                                     *)
(*   pace      the select of real-time mode, and the step of the time       *)
(*   exiting   sleeping exit_after_end_timeout                              *)
(*   returned  the goroutine has ended                                      *)
(***************************************************************************)
EXTENDS Integers, FiniteSets, Functions, ChurnRate

CONSTANTS
    NumScenarios,       \* length of cfg.Scenarios
    Scale,              \* per scenario: the number of instances
    Concurrency,        \* per scenario: worker goroutines, 0 for inline
    Points,             \* per scenario: data points in its template
    Rate,               \* per scenario: its churn rate
    NumIntervals,       \* the intervals that start in [StartTime, EndTime)
    RealTime,           \* cfg.RealTime
    ExitAfterEnd        \* cfg.ExitAfterEnd

Scenario == 1 .. NumScenarios

(* What Config.Validate and the construction of the receiver establish.     *)
ASSUME NumScenariosAssumption == NumScenarios \in Nat
ASSUME ScaleAssumption == Scale \in [Scenario -> Nat]
ASSUME ConcurrencyAssumption ==
    /\ Concurrency \in [Scenario -> Nat]
    /\ \A s \in Scenario : Concurrency[s] # 0 => Scale[s] % Concurrency[s] = 0
ASSUME PointsAssumption == Points \in [Scenario -> Nat]
ASSUME RateAssumption ==
    /\ Rate \in [Scenario -> [replacements : Nat, intervals : Nat]]
    /\ \A s \in Scenario : enabled(Rate[s]) => Scale[s] > 0
ASSUME NumIntervalsAssumption == NumIntervals \in Nat
ASSUME FlagsAssumption == RealTime \in BOOLEAN /\ ExitAfterEnd \in BOOLEAN

Slots(s) == 0 .. (Scale[s] - 1)
Emitter == UNION {{s} \X Slots(s) : s \in Scenario}
Worker == UNION {{s} \X (0 .. (Concurrency[s] - 1)) : s \in Scenario}

(* The share of one worker, and the slot it emits at its j-th turn.         *)
PerWorker(w) == Scale[w[1]] \div Concurrency[w[1]]
SlotOf_Shared(w, j) == j + w[2]    \* mutant: the workers' shares overlap
SlotOf(w, j) == j + (w[2] * Scale[w[1]]) \div Concurrency[w[1]]

VARIABLES
    pc, scn, i,         \* the generator goroutine
    interval,           \* currentTime = StartTime + interval * Interval
    loaded,             \* its register in `*dataPoints += n`
    wpc, j, seed,       \* the workers: place, loop index, seed of their rng
    wg,                 \* the workers the WaitGroup counts
    dataPoints,         \* data points of this interval
    progress,           \* progress.datapoints
    template,           \* per scenario: how often its template was advanced
    instances,          \* per scenario: the identifier in each slot
    nextID,             \* per scenario: nextReplacementInstanceID
    remainder,          \* per scenario: churnRemainder
    draws,              \* values taken from baseRand
    tick,               \* a tick is buffered in ticker.C
    cancelled,          \* ctx.Err() # nil
    shutdown,           \* the caller of Shutdown
    exitReported,       \* the fatal status event was reported
    sent                \* history: emissions per instance in this interval

mainVars == <<pc, scn, i, interval, loaded>>
workerVars == <<wpc, j, seed, wg>>
countVars == <<dataPoints, progress>>
churnVars == <<instances, nextID, remainder>>
envVars == <<tick, cancelled, shutdown>>
vars == <<mainVars, workerVars, countVars, template, churnVars, draws,
          envVars, exitReported, sent>>

NothingSent == [e \in Emitter |-> 0]

Init ==
    /\ pc = "created" /\ scn = 1 /\ i = 0 /\ interval = 0 /\ loaded = 0
    /\ wpc = [w \in Worker |-> "idle"]
    /\ j = [w \in Worker |-> 0]
    /\ seed = [w \in Worker |-> 0]
    /\ wg = {}
    /\ dataPoints = 0 /\ progress = 0
    /\ template = [s \in Scenario |-> 0]
    /\ instances = [s \in Scenario |-> [slot \in Slots(s) |-> slot]]
    /\ nextID = Scale
    /\ remainder = [s \in Scenario |-> 0]
    /\ draws = 0
    /\ tick = FALSE /\ cancelled = FALSE /\ shutdown = "no"
    /\ exitReported = FALSE
    /\ sent = NothingSent

-----------------------------------------------------------------------------
(* The loop of the goroutine                                                *)

Start ==
    /\ pc = "created" /\ shutdown = "no"
    /\ pc' = "check"
    /\ UNCHANGED <<scn, i, interval, loaded, workerVars, countVars, template,
                   churnVars, draws, envVars, exitReported, sent>>

(* Mutant: EndTime itself belongs to the simulated time.                    *)
LoopCheck_PastEnd ==
    /\ pc = "check"
    /\ \/ /\ interval <= NumIntervals /\ ~cancelled
          /\ pc' = "advance" /\ scn' = 1 /\ dataPoints' = 0
       \/ /\ interval > NumIntervals \/ cancelled
          /\ pc' = IF ExitAfterEnd /\ ~cancelled THEN "exiting" ELSE "returned"
          /\ UNCHANGED <<scn, dataPoints>>
    /\ UNCHANGED <<i, interval, loaded, workerVars, progress, template,
                   churnVars, draws, envVars, exitReported, sent>>

LoopCheck ==
    /\ pc = "check"
    /\ \/ /\ interval < NumIntervals /\ ~cancelled
          /\ pc' = "advance" /\ scn' = 1 /\ dataPoints' = 0
       \/ /\ interval < NumIntervals /\ cancelled
          /\ pc' = "returned"
          /\ UNCHANGED <<scn, dataPoints>>
       \/ /\ interval >= NumIntervals
          /\ pc' = IF ExitAfterEnd THEN "exiting" ELSE "returned"
          /\ UNCHANGED <<scn, dataPoints>>
    /\ UNCHANGED <<i, interval, loaded, workerVars, progress, template,
                   churnVars, draws, envVars, exitReported, sent>>

(* Mutant: a cancellation leaves the loop instead of the goroutine.         *)
Pace_Break ==
    /\ pc = "pace"
    /\ \/ /\ RealTime => tick
          /\ tick' = FALSE
          /\ pc' = "check"
          /\ interval' = interval + 1
          /\ sent' = NothingSent
       \/ /\ RealTime /\ cancelled
          /\ pc' = IF ExitAfterEnd THEN "exiting" ELSE "returned"
          /\ UNCHANGED <<tick, interval, sent>>
    /\ UNCHANGED <<scn, i, loaded, workerVars, countVars, template, churnVars,
                   draws, cancelled, shutdown, exitReported>>

(* The step of the simulated time; in real-time mode after a tick, and the  *)
(* goroutine may return instead when the context is cancelled: with both    *)
(* ready, select picks either.                                              *)
Pace ==
    /\ pc = "pace"
    /\ \/ /\ RealTime => tick
          /\ tick' = FALSE
          /\ pc' = "check"
          /\ interval' = interval + 1
          /\ sent' = NothingSent
       \/ /\ RealTime /\ cancelled
          /\ pc' = "returned"
          /\ UNCHANGED <<tick, interval, sent>>
    /\ UNCHANGED <<scn, i, loaded, workerVars, countVars, template, churnVars,
                   draws, cancelled, shutdown, exitReported>>

(* After the sleep, which nothing interrupts and no check of ctx follows.   *)
ReportExit ==
    /\ pc = "exiting"
    /\ pc' = "returned"
    /\ exitReported' = TRUE
    /\ UNCHANGED <<scn, i, interval, loaded, workerVars, countVars, template,
                   churnVars, draws, envVars, sent>>

-----------------------------------------------------------------------------
(* produceMetrics                                                           *)

(* Advance the template of the scenario: nobody else writes it, and the     *)
(* workers that read it have ended before the next interval.                *)
AdvanceTemplate ==
    /\ pc = "advance" /\ scn \in Scenario
    /\ template' = [template EXCEPT ![scn] = @ + 1]
    /\ draws' = draws + 1
    /\ i' = 0
    /\ pc' = IF Concurrency[scn] = 0 THEN "inline" ELSE "spawn"
    /\ UNCHANGED <<scn, interval, loaded, workerVars, countVars, churnVars,
                   envVars, exitReported, sent>>

AllScenariosStarted ==
    /\ pc = "advance" /\ scn \notin Scenario
    /\ pc' = "wait"
    /\ UNCHANGED <<scn, i, interval, loaded, workerVars, countVars, template,
                   churnVars, draws, envVars, exitReported, sent>>

(* produceMetricsForInstance on the generator goroutine, with baseRand.     *)
EmitInline ==
    /\ pc = "inline" /\ i < Scale[scn]
    /\ sent' = [sent EXCEPT ![<<scn, i>>] = @ + 1]
    /\ draws' = draws + 1
    /\ pc' = "load"
    /\ UNCHANGED <<scn, i, interval, loaded, workerVars, countVars, template,
                   churnVars, envVars, exitReported>>

LoadDataPoints ==
    /\ pc = "load"
    /\ loaded' = dataPoints
    /\ pc' = "store"
    /\ UNCHANGED <<scn, i, interval, workerVars, countVars, template,
                   churnVars, draws, envVars, exitReported, sent>>

StoreDataPoints ==
    /\ pc = "store"
    /\ dataPoints' = loaded + Points[scn]
    /\ loaded' = 0
    /\ i' = i + 1
    /\ pc' = "inline"
    /\ UNCHANGED <<scn, interval, workerVars, progress, template, churnVars,
                   draws, envVars, exitReported, sent>>

InlineDone ==
    /\ pc = "inline" /\ i >= Scale[scn]
    /\ scn' = scn + 1
    /\ pc' = "advance"
    /\ UNCHANGED <<i, interval, loaded, workerVars, countVars, template,
                   churnVars, draws, envVars, exitReported, sent>>

(* Mutant: the worker is not added to the WaitGroup.                        *)
SpawnWorker_NoAdd ==
    /\ pc = "spawn" /\ i < Concurrency[scn]
    /\ draws' = draws + 1
    /\ seed' = [seed EXCEPT ![<<scn, i>>] = draws + 1]
    /\ wpc' = [wpc EXCEPT ![<<scn, i>>] = "emit"]
    /\ j' = [j EXCEPT ![<<scn, i>>] = 0]
    /\ i' = i + 1
    /\ UNCHANGED <<pc, scn, interval, loaded, wg, countVars, template,
                   churnVars, envVars, exitReported, sent>>

(* getNewRand, wg.Add(1) and the go statement.                              *)
SpawnWorker ==
    /\ pc = "spawn" /\ i < Concurrency[scn]
    /\ LET w == <<scn, i>>
       IN  /\ draws' = draws + 1
           /\ seed' = [seed EXCEPT ![w] = draws + 1]
           /\ wg' = wg \cup {w}
           /\ wpc' = [wpc EXCEPT ![w] = "emit"]
           /\ j' = [j EXCEPT ![w] = 0]
    /\ i' = i + 1
    /\ UNCHANGED <<pc, scn, interval, loaded, countVars, template, churnVars,
                   envVars, exitReported, sent>>

SpawnDone ==
    /\ pc = "spawn" /\ i >= Concurrency[scn]
    /\ scn' = scn + 1
    /\ pc' = "advance"
    /\ UNCHANGED <<i, interval, loaded, workerVars, countVars, template,
                   churnVars, draws, envVars, exitReported, sent>>

(* Mutant: produceMetrics returns without waiting.                          *)
WaitForWorkers_NoWait ==
    /\ pc = "wait"
    /\ progress' = progress + dataPoints
    /\ scn' = 1
    /\ pc' = "churn"
    /\ UNCHANGED <<i, interval, loaded, workerVars, dataPoints, template,
                   churnVars, draws, envVars, exitReported, sent>>

(* wg.Wait(), the return of produceMetrics and progress.datapoints.Add.     *)
WaitForWorkers ==
    /\ pc = "wait" /\ wg = {}
    /\ progress' = progress + dataPoints
    /\ scn' = 1
    /\ pc' = "churn"
    /\ UNCHANGED <<i, interval, loaded, workerVars, dataPoints, template,
                   churnVars, draws, envVars, exitReported, sent>>

-----------------------------------------------------------------------------
(* applyChurn: one scenario per step.  Rendering a resource may fail: the   *)
(* identifier is used up and the slot keeps its instance.                   *)
ApplyChurn ==
    /\ pc = "churn" /\ scn \in Scenario
    /\ LET churn == NextChurnCount(remainder[scn], Rate[scn])
           ids == ReplacementIDs(nextID[scn], churn)
       IN  \E rendered \in SUBSET ids :
             /\ remainder' = [remainder EXCEPT
                                ![scn] = NextChurnRemainder(@, Rate[scn])]
             /\ nextID' = [nextID EXCEPT ![scn] = @ + churn]
             /\ instances' = [instances EXCEPT
                                ![scn] = Replaced(@, Scale[scn], rendered, 0)]
             /\ draws' = draws + churn
    /\ scn' = scn + 1
    /\ UNCHANGED <<pc, i, interval, loaded, workerVars, countVars, template,
                   envVars, exitReported, sent>>

ChurnDone ==
    /\ pc = "churn" /\ scn \notin Scenario
    /\ pc' = "pace"
    /\ UNCHANGED <<scn, i, interval, loaded, workerVars, countVars, template,
                   churnVars, draws, envVars, exitReported, sent>>

-----------------------------------------------------------------------------
(* A worker goroutine                                                       *)

(* Mutant: the worker draws from baseRand.                                  *)
WorkerEmit_BaseRand(w) ==
    /\ wpc[w] = "emit" /\ j[w] < PerWorker(w)
    /\ sent' = [sent EXCEPT ![<<w[1], SlotOf(w, j[w])>>] = @ + 1]
    /\ draws' = draws + 1
    /\ wpc' = [wpc EXCEPT ![w] = "count"]
    /\ UNCHANGED <<mainVars, j, seed, wg, countVars, template, churnVars,
                   envVars, exitReported>>

(* produceMetricsForInstance with the rng of the worker.                    *)
WorkerEmit(w) ==
    /\ wpc[w] = "emit" /\ j[w] < PerWorker(w)
    /\ sent' = [sent EXCEPT ![<<w[1], SlotOf(w, j[w])>>] = @ + 1]
    /\ wpc' = [wpc EXCEPT ![w] = "count"]
    /\ UNCHANGED <<mainVars, j, seed, wg, countVars, template, churnVars,
                   draws, envVars, exitReported>>

(* atomic.AddUint64(dataPoints, ...)                                        *)
WorkerCount(w) ==
    /\ wpc[w] = "count"
    /\ dataPoints' = dataPoints + Points[w[1]]
    /\ j' = [j EXCEPT ![w] = @ + 1]
    /\ wpc' = [wpc EXCEPT ![w] = "emit"]
    /\ UNCHANGED <<mainVars, seed, wg, progress, template, churnVars, draws,
                   envVars, exitReported, sent>>

(* Mutant: wg.Done() is not called.                                         *)
WorkerDone_NoDone(w) ==
    /\ wpc[w] = "emit" /\ j[w] >= PerWorker(w)
    /\ wpc' = [wpc EXCEPT ![w] = "idle"]
    /\ UNCHANGED <<mainVars, j, seed, wg, countVars, template, churnVars,
                   draws, envVars, exitReported, sent>>

(* The deferred wg.Done().                                                  *)
WorkerDone(w) ==
    /\ wpc[w] = "emit" /\ j[w] >= PerWorker(w)
    /\ wg' = wg \ {w}
    /\ wpc' = [wpc EXCEPT ![w] = "idle"]
    /\ UNCHANGED <<mainVars, j, seed, countVars, template, churnVars, draws,
                   envVars, exitReported, sent>>

-----------------------------------------------------------------------------
(* The collector                                                            *)

(* The context given to Start is cancelled by the collector.                *)
CancelParent ==
    /\ pc # "created" /\ ~cancelled
    /\ cancelled' = TRUE
    /\ UNCHANGED <<mainVars, workerVars, countVars, template, churnVars,
                   draws, tick, shutdown, exitReported, sent>>

(* Shutdown: r.cancel is nil when Start was not called.                     *)
Shutdown ==
    /\ shutdown = "no"
    /\ shutdown' = "waiting"
    /\ cancelled' = (cancelled \/ pc # "created")
    /\ UNCHANGED <<mainVars, workerVars, countVars, template, churnVars,
                   draws, tick, exitReported, sent>>

(* Mutant: Shutdown cancels and does not wait.                              *)
ShutdownReturns_NoWait ==
    /\ shutdown = "waiting"
    /\ shutdown' = "returned"
    /\ UNCHANGED <<mainVars, workerVars, countVars, template, churnVars,
                   draws, tick, cancelled, exitReported, sent>>

(* r.wg.Wait() in Shutdown returns when no goroutine was started or it has  *)
(* ended.                                                                   *)
ShutdownReturns ==
    /\ shutdown = "waiting" /\ pc \in {"created", "returned"}
    /\ shutdown' = "returned"
    /\ UNCHANGED <<mainVars, workerVars, countVars, template, churnVars,
                   draws, tick, cancelled, exitReported, sent>>

(* The ticker; ticks that find the channel full are dropped.                *)
TickerFires ==
    /\ RealTime /\ pc \notin {"created", "returned"}
    /\ ~tick
    /\ tick' = TRUE
    /\ UNCHANGED <<mainVars, workerVars, countVars, template, churnVars,
                   draws, cancelled, shutdown, exitReported, sent>>

(* Nothing is left to do.                                                   *)
Terminated ==
    /\ shutdown = "returned"
    /\ UNCHANGED vars

-----------------------------------------------------------------------------
MainNext ==
    \/ LoopCheck \/ Pace \/ ReportExit
    \/ AdvanceTemplate \/ AllScenariosStarted
    \/ EmitInline \/ LoadDataPoints \/ StoreDataPoints \/ InlineDone
    \/ SpawnWorker \/ SpawnDone \/ WaitForWorkers
    \/ ApplyChurn \/ ChurnDone

WorkerNext(w) == WorkerEmit(w) \/ WorkerCount(w) \/ WorkerDone(w)

Next ==
    \/ Start \/ MainNext
    \/ \E w \in Worker : WorkerNext(w)
    \/ CancelParent \/ Shutdown \/ ShutdownReturns
    \/ TickerFires \/ Terminated

(* The Go scheduler runs every goroutine that can run; the ticker ticks; a  *)
(* consumer returns from ConsumeMetrics.  Nothing obliges the collector to  *)
(* start the receiver or to shut it down.                                   *)
Fairness ==
    /\ WF_vars(MainNext)
    /\ \A w \in Worker : WF_vars(WorkerNext(w))
    /\ WF_vars(TickerFires)
    /\ WF_vars(ShutdownReturns)

Spec == Init /\ [][Next]_vars
FairSpec == Spec /\ Fairness

-----------------------------------------------------------------------------
(* Properties                                                               *)

MainPC == {"created", "check", "advance", "inline", "load", "store", "spawn",
           "wait", "churn", "pace", "exiting", "returned"}

(* Every variable stays in its range.                                       *)
MainTypeOK ==
    /\ pc \in MainPC /\ scn \in 1 .. (NumScenarios + 1) /\ i \in Nat
    /\ interval \in 0 .. NumIntervals /\ loaded \in Nat

WorkerTypeOK ==
    /\ wpc \in [Worker -> {"idle", "emit", "count"}]
    /\ j \in [Worker -> Nat] /\ seed \in [Worker -> Nat]
    /\ wg \in SUBSET Worker

DataTypeOK ==
    /\ dataPoints \in Nat /\ progress \in Nat
    /\ template \in [Scenario -> Nat]
    /\ nextID \in [Scenario -> Nat] /\ remainder \in [Scenario -> Nat]
    /\ DOMAIN instances = Scenario
    /\ \A s \in Scenario : DOMAIN instances[s] = Slots(s)
    /\ draws \in Nat
    /\ sent \in [Emitter -> Nat]

EnvTypeOK ==
    /\ tick \in BOOLEAN /\ cancelled \in BOOLEAN
    /\ shutdown \in {"no", "waiting", "returned"}
    /\ exitReported \in BOOLEAN

TypeOK == MainTypeOK /\ WorkerTypeOK /\ DataTypeOK /\ EnvTypeOK

(* The worker is about to read the template and an instance of scenario s.  *)
Reads(w, s) == w[1] = s /\ wpc[w] = "emit" /\ j[w] < PerWorker(w)

(* The generator goroutine advances a template and replaces instances       *)
(* without a lock (receiver.go:355, 326): it is never about to do so while  *)
(* a worker is about to read what it writes.                                *)
NoDataRace ==
    \A w \in Worker, s \in Scenario : Reads(w, s) =>
        /\ ~(pc = "advance" /\ scn = s)
        /\ pc # "churn"

(* What a worker emits comes from the template of the current interval:     *)
(* advanced once per interval, this interval's step included, whatever the  *)
(* progress of the other workers (receiver.go:352-364, 394).                *)
EmitsCurrentTemplate ==
    \A w \in Worker, s \in Scenario :
        Reads(w, s) => template[s] = interval + 1

(* What makes them inductive: the WaitGroup counts exactly the workers that *)
(* run, a worker runs only from its spawning to the end of produceMetrics,  *)
(* and the templates of the scenarios reached so far are one step ahead.    *)
Producing == {"advance", "inline", "load", "store", "spawn", "wait"}
InScenario == {"inline", "load", "store", "spawn"}

Spawned(w) ==
    \/ pc \in Producing /\ w[1] < scn
    \/ pc = "spawn" /\ w[1] = scn /\ w[2] < i

Advanced(s) ==
    \/ pc \in {"wait", "churn", "pace"}
    \/ pc = "advance" /\ s < scn
    \/ pc \in InScenario /\ s <= scn

PlacesInv ==
    /\ pc \in InScenario => scn \in Scenario
    /\ pc \in Producing \cup {"churn", "pace"} => interval < NumIntervals

WaitGroupInv ==
    /\ \A w \in Worker : w \in wg <=> wpc[w] # "idle"
    /\ \A w \in Worker : w \in wg => Spawned(w)

TemplateInv ==
    pc # "returned" =>
        \A s \in Scenario :
            template[s] = interval + IF Advanced(s) THEN 1 ELSE 0

BarrierInv == TypeOK /\ PlacesInv /\ WaitGroupInv /\ TemplateInv

(* The values baseRand has yielded before it seeds the workers of scenario  *)
(* s in this interval, had all intervals been run by one goroutine.         *)
IntervalDraws ==
    [s \in Scenario |->
        1 + (IF Concurrency[s] = 0 THEN Scale[s] ELSE Concurrency[s])]
ChurnDraws == [s \in Scenario |-> nextID[s] - Scale[s]]
DrawsBefore(s) ==
    interval * SumFunction(IntervalDraws) + SumFunction(ChurnDraws)
        + SumFunctionOnSet(IntervalDraws, 1 .. (s - 1)) + 1

(* The seed of every running worker is a function of the configuration, the *)
(* interval and the worker alone, not of how the goroutines were            *)
(* interleaved (README: "The seed makes sure that the data generation is    *)
(* deterministic"; receiver.go:373).                                        *)
SeedsIndependentOfSchedule ==
    \A w \in wg : seed[w] = DrawsBefore(w[1]) + w[2] + 1

(* Between two intervals the receiver has counted every data point it       *)
(* emitted: those of the completed intervals and those of the last one,     *)
(* when the goroutine returned before the time advanced.  This is the total *)
(* Shutdown logs (receiver.go:443-444).                                     *)
EmittedPoints ==
    interval * SumFunction([s \in Scenario |-> Scale[s] * Points[s]])
        + SumFunction([e \in Emitter |-> sent[e] * Points[e[1]]])
CountsEveryDataPoint ==
    pc \in {"check", "churn", "pace", "exiting", "returned"} =>
        progress = EmittedPoints

(* The fatal status that ends the collector is reported only when every     *)
(* interval was produced, though a cancellation may stop the generator in   *)
(* any interval (receiver.go:215, 234, 240-252; README: exit_after_end).    *)
ExitOnlyWhenComplete ==
    exitReported => interval = NumIntervals /\ pc = "returned"

(* Once Shutdown has returned nothing is emitted or counted and no status   *)
(* is reported (receiver.go:438-442).                                       *)
QuietAfterShutdown ==
    [][shutdown = "returned" =>
         UNCHANGED <<sent, progress, interval, exitReported>>]_vars

(* The consumer sees complete rounds of emissions (Rounds).                 *)
AbstractRounds == INSTANCE Rounds WITH
    NumRounds <- NumIntervals, round <- interval, sent <- sent,
    over <- pc \in {"exiting", "returned"}
RoundsSpec == AbstractRounds!Spec

(* A call of Shutdown returns, wherever the generator is, provided that the *)
(* consumer does (receiver.go:438-442).                                     *)
ShutdownCompletes == (shutdown = "waiting") ~> (shutdown = "returned")

(* A started generator comes to its end: all intervals are produced, or it  *)
(* was cancelled; with exit_after_end a complete run is reported.           *)
RunsToCompletion ==
    (pc = "check") ~> /\ pc = "returned"
                      /\ interval = NumIntervals \/ cancelled
                      /\ ExitAfterEnd /\ interval = NumIntervals => exitReported
=============================================================================
