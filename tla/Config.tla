------------------------------- MODULE Config -------------------------------
(***************************************************************************)
(* From the configuration to the receiver's parameters: Config.Validate     *)
(* (config.go 117-166), the resolution of the time range (receiver.go       *)
(* 102-112) and the churn rate of a scenario (config.go 45-85).  A time is  *)
(* a number, 0 the zero time.Time, and durations are in the same unit;      *)
(* Second is one second and MaxTime the end of time of run_indefinitely.    *)
(***************************************************************************)
EXTENDS Sequences, ChurnRate

CONSTANTS
    Configs,    \* the configurations a user may write
    Now,        \* the clock when the receiver is built
    Second,
    MaxTime,
    Half        \* half the range of int64

ASSUME TimesAssumption ==
    /\ Now \in Nat /\ Second \in Nat \ {0} /\ MaxTime \in Nat /\ Half \in Nat
    /\ Now < MaxTime

(* What a configuration file can say: a duration and a number may be        *)
(* negative, and the fields of Churn are zero when it is absent.            *)
ChurnCfg == [configured : BOOLEAN, SamplesPerSeries : Int, InstanceLifetime : Int]
ScenarioCfg == [Scale : Int, Concurrency : Int, Churn : ChurnCfg]
ASSUME ConfigsAssumption ==
    \A c \in Configs :
        /\ c \in [StartTime : Nat, EndTime : Nat, StartNowMinus : Int,
                  EndNowMinus : Int, Interval : Int, RealTime : BOOLEAN,
                  RunIndefinitely : BOOLEAN, Scenarios : Seq(ScenarioCfg)]
        /\ \A k \in DOMAIN c.Scenarios : LET churn == c.Scenarios[k].Churn IN
             ~churn.configured =>
                churn.SamplesPerSeries = 0 /\ churn.InstanceLifetime = 0

VARIABLES
    cfg,        \* the configuration; its times change when they are resolved
    written,    \* history: the configuration as the user wrote it
    stage,      \* loaded, rejected, accepted, built
    error,      \* the error Validate returned
    rates       \* per scenario: churnRate

vars == <<cfg, written, stage, error, rates>>

None == "none"

(* Go's n % d # 0, of which the sign of neither matters.                    *)
Abs(n) == IF n < 0 THEN -n ELSE n
Divides_Fits(d, n) == Abs(d) <= Abs(n)    \* mutant: concurrency below scale
Divides(d, n) == Abs(n) % Abs(d) = 0

(* The error of the first check that fails: Validate returns there.         *)
FirstError(checks) ==
    LET failing == {k \in DOMAIN checks : checks[k].fails}
    IN  IF failing = {} THEN None ELSE checks[Min(failing)].error

Check(fails, error_) == [fails |-> fails, error |-> error_]

(* The body of the loop over the scenarios.                                 *)
ScenarioError(scn, interval) ==
    LET churn == scn.Churn
        hasInstanceLifetime == churn.InstanceLifetime # 0
        hasSamplesPerSeries == churn.SamplesPerSeries # 0
    IN  FirstError(<<
          Check(scn.Concurrency # 0 /\ ~Divides(scn.Concurrency, scn.Scale),
                "scale must be a multiple of concurrency"),
          Check(scn.Concurrency < 0, "concurrency must be a positive number"),
          Check(churn.configured /\ scn.Scale <= 0, "scale must be positive"),
          Check(churn.configured /\ hasInstanceLifetime = hasSamplesPerSeries,
                "exactly one of samples_per_series or instance_lifetime"),
          Check(churn.configured /\ churn.SamplesPerSeries < 0,
                "samples_per_series must be at least 1"),
          Check(hasInstanceLifetime /\ churn.InstanceLifetime < 0,
                "instance_lifetime must be positive"),
          Check(hasInstanceLifetime /\ churn.InstanceLifetime < interval,
                "instance_lifetime must be at least interval")>>)

ValidationError(c) ==
    LET header == FirstError(<<
          Check(c.Interval < Second, "interval"),
          Check(c.StartTime > c.EndTime, "start_time must be before end_time"),
          Check(c.RealTime /\ c.StartNowMinus > 0, "start_now_minus with real_time"),
          Check(c.RunIndefinitely /\ (c.EndTime # 0 \/ c.EndNowMinus > 0),
                "run_indefinitely with an end")>>)
        scenario == FirstError([k \in DOMAIN c.Scenarios |->
          Check(ScenarioError(c.Scenarios[k], c.Interval) # None,
                ScenarioError(c.Scenarios[k], c.Interval))])
    IN  IF header # None THEN header ELSE scenario

ResolvedStart(c) == IF c.StartTime = 0 THEN Now - c.StartNowMinus ELSE c.StartTime
(* Mutant: the end of an indefinite run is the current time.                *)
ResolvedEnd_Now(c) == IF c.EndTime # 0 THEN c.EndTime ELSE Now - c.EndNowMinus
ResolvedEnd(c) ==
    IF c.EndTime # 0 THEN c.EndTime
    ELSE IF c.RunIndefinitely THEN MaxTime ELSE Now - c.EndNowMinus

Init ==
    /\ cfg \in Configs /\ written = cfg
    /\ stage = "loaded" /\ error = None /\ rates = <<>>

Validate ==
    /\ stage = "loaded"
    /\ error' = ValidationError(cfg)
    /\ stage' = IF error' = None THEN "accepted" ELSE "rejected"
    /\ UNCHANGED <<cfg, written, rates>>

(* newMetricsGenReceiver, as far as it depends on the configuration alone.  *)
newMetricsGenReceiver ==
    /\ stage = "accepted"
    /\ cfg' = [cfg EXCEPT !.StartTime = ResolvedStart(cfg),
                          !.EndTime = ResolvedEnd(cfg)]
    /\ rates' = [k \in DOMAIN cfg.Scenarios |->
                   newChurnRate(cfg.Scenarios[k].Churn, cfg.Scenarios[k].Scale,
                                cfg.Interval, Half)]
    /\ stage' = "built"
    /\ UNCHANGED <<written, error>>

Ended == stage \in {"built", "rejected"} /\ UNCHANGED vars

Next == Validate \/ newMetricsGenReceiver \/ Ended

Spec == Init /\ [][Next]_vars

-----------------------------------------------------------------------------
(* Properties                                                               *)

BuiltScenarios == IF stage = "built" THEN DOMAIN cfg.Scenarios ELSE {}

(* The workers of an accepted scenario share its instances: the slots       *)
(* j + i*Scale/Concurrency of receiver.go:380, for all workers i and their  *)
(* turns j, are each instance exactly once (config.go:135).                 *)
WorkersShareInstances ==
    \A k \in BuiltScenarios :
        LET scn == cfg.Scenarios[k]
            turns == 0 .. (scn.Scale \div scn.Concurrency - 1)
            slot(i, j) == j + (i * scn.Scale) \div scn.Concurrency
            workers == 0 .. (scn.Concurrency - 1)
        IN  scn.Concurrency > 0 /\ scn.Scale >= 0 =>
              \A n \in 0 .. (scn.Scale - 1) :
                Cardinality({t \in workers \X turns : slot(t[1], t[2]) = n}) = 1

(* The churn rate is exactly the configured one, reduced (config.go:45-46:  *)
(* "sub-interval replacement rates can accumulate exactly"), provided that  *)
(* scale * interval fits an int64; and no more replacements fall due in an  *)
(* interval than there are instances, since no lifetime is shorter than an  *)
(* interval (config.go:161).                                                *)
ChurnRateExact ==
    \A k \in BuiltScenarios :
        LET scn == cfg.Scenarios[k]
            churn == scn.Churn
        IN  churn.configured =>
              /\ enabled(rates[k])
              /\ rates[k].replacements <= scn.Scale * rates[k].intervals
              /\ churn.SamplesPerSeries > 0 =>
                   rates[k].replacements * churn.SamplesPerSeries
                     = scn.Scale * rates[k].intervals
              /\ churn.InstanceLifetime > 0 =>
                   rates[k].replacements * churn.InstanceLifetime
                     = scn.Scale * cfg.Interval * rates[k].intervals

(* A receiver in real time starts at the current time unless start_time     *)
(* says otherwise, and one that runs indefinitely has no reachable end      *)
(* (config.go:126-132).                                                     *)
TimesResolved ==
    stage = "built" =>
        /\ cfg.RealTime /\ written.StartTime = 0 => cfg.StartTime >= Now
        /\ cfg.RunIndefinitely => cfg.EndTime = MaxTime
        /\ written.StartTime # 0 => cfg.StartTime <= cfg.EndTime
=============================================================================
