--------------------------- MODULE Receiver_proof ---------------------------
(***************************************************************************)
(* What the receiver may rely on before and while it runs.  The first part  *)
(* is about every configuration a file can hold: what the validation        *)
(* guarantees for the times, the shares of the workers and the rate of      *)
(* churn.  The second is about the pacing in real time, for every interval  *)
(* and however long the productions take.                                   *)
(***************************************************************************)
EXTENDS Config, RealTime, Lemmas_proof

(* A validated configuration passed every check.                            *)
LEMMA NoErrorNoFailure ==
    ASSUME NEW checks, DOMAIN checks \subseteq Nat, FirstError(checks) = None,
           \A k \in DOMAIN checks : checks[k].fails => checks[k].error # None
    PROVE  \A k \in DOMAIN checks : ~checks[k].fails
<1> DEFINE failing == {k \in DOMAIN checks : checks[k].fails}
<1>1. SUFFICES ASSUME failing # {} PROVE FALSE
  OBVIOUS
<1>2. failing \in SUBSET Nat
  OBVIOUS
<1>3. PICK m \in failing : \A n \in failing : m <= n
  BY <1>1, <1>2, LeastNat
<1>4. Min(failing) \in failing
  BY <1>3 DEF Min
<1>5. checks[Min(failing)].error = None
  BY <1>1 DEF FirstError
<1> QED
  BY <1>4, <1>5

(* What passing them means for the times ...                                *)
TimesAccepted(c) ==
    /\ c.Interval >= Second
    /\ c.StartTime <= c.EndTime
    /\ c.RealTime => c.StartNowMinus <= 0
    /\ c.RunIndefinitely => c.EndTime = 0

(* ... and for a scenario.                                                  *)
ScenarioAccepted(scn, period) ==
    /\ scn.Concurrency >= 0
    /\ scn.Concurrency # 0 => Divides(scn.Concurrency, scn.Scale)
    /\ scn.Churn.configured =>
          /\ scn.Scale > 0
          /\ scn.Churn.SamplesPerSeries >= 0
          /\ (scn.Churn.InstanceLifetime = 0) # (scn.Churn.SamplesPerSeries = 0)
    /\ scn.Churn.InstanceLifetime # 0 =>
          /\ scn.Churn.InstanceLifetime > 0
          /\ scn.Churn.InstanceLifetime >= period

LEMMA ScenarioChecks ==
    ASSUME NEW scn \in ScenarioCfg, NEW period \in Int,
           ScenarioError(scn, period) = None
    PROVE  ScenarioAccepted(scn, period)
<1> DEFINE churn == scn.Churn
           checks == <<
             Check(scn.Concurrency # 0 /\ ~Divides(scn.Concurrency, scn.Scale),
                   "scale must be a multiple of concurrency"),
             Check(scn.Concurrency < 0, "concurrency must be a positive number"),
             Check(churn.configured /\ scn.Scale <= 0, "scale must be positive"),
             Check(churn.configured /\
                     (churn.InstanceLifetime # 0) = (churn.SamplesPerSeries # 0),
                   "exactly one of samples_per_series or instance_lifetime"),
             Check(churn.configured /\ churn.SamplesPerSeries < 0,
                   "samples_per_series must be at least 1"),
             Check(churn.InstanceLifetime # 0 /\ churn.InstanceLifetime < 0,
                   "instance_lifetime must be positive"),
             Check(churn.InstanceLifetime # 0 /\ churn.InstanceLifetime < period,
                   "instance_lifetime must be at least interval")>>
<1>1. FirstError(checks) = None
  BY DEF ScenarioError
<1>2. DOMAIN checks = 1 .. 7 /\ DOMAIN checks \subseteq Nat
  OBVIOUS
<1>3. \A k \in DOMAIN checks : checks[k].error # None
  <2>1. /\ checks[1].error # None /\ checks[2].error # None
        /\ checks[3].error # None /\ checks[4].error # None
        /\ checks[5].error # None /\ checks[6].error # None
        /\ checks[7].error # None
    BY DEF Check, None
  <2> HIDE DEF checks
  <2> QED
    BY <1>2, <2>1
<1>4. \A k \in 1 .. 7 : ~checks[k].fails
  <2> HIDE DEF checks
  <2> QED
    BY <1>1, <1>2, <1>3, NoErrorNoFailure
<1>5. /\ ~checks[1].fails /\ ~checks[2].fails /\ ~checks[3].fails /\ ~checks[4].fails
      /\ ~checks[5].fails /\ ~checks[6].fails /\ ~checks[7].fails
  <2> HIDE DEF checks
  <2> QED
    BY <1>4
<1>6. /\ ~(scn.Concurrency # 0 /\ ~Divides(scn.Concurrency, scn.Scale))
      /\ ~(scn.Concurrency < 0)
      /\ ~(churn.configured /\ scn.Scale <= 0)
      /\ ~(churn.configured /\
             (churn.InstanceLifetime # 0) = (churn.SamplesPerSeries # 0))
      /\ ~(churn.configured /\ churn.SamplesPerSeries < 0)
      /\ ~(churn.InstanceLifetime # 0 /\ churn.InstanceLifetime < 0)
      /\ ~(churn.InstanceLifetime # 0 /\ churn.InstanceLifetime < period)
  BY <1>5 DEF Check
<1>7. /\ scn.Concurrency \in Int /\ scn.Scale \in Int
      /\ churn.SamplesPerSeries \in Int /\ churn.InstanceLifetime \in Int
  BY DEF ScenarioCfg, ChurnCfg
<1> QED
  BY <1>6, <1>7 DEF ScenarioAccepted

LEMMA ConfigFields ==
    ASSUME NEW c \in Configs
    PROVE  /\ c.StartTime \in Nat /\ c.EndTime \in Nat /\ c.Interval \in Int
           /\ c.StartNowMinus \in Int /\ c.EndNowMinus \in Int
           /\ c.RealTime \in BOOLEAN /\ c.RunIndefinitely \in BOOLEAN
           /\ DOMAIN c.Scenarios \subseteq Nat
           /\ \A k \in DOMAIN c.Scenarios : c.Scenarios[k] \in ScenarioCfg
  BY ConfigsAssumption

LEMMA ConfigChecks ==
    ASSUME NEW c \in Configs, ValidationError(c) = None
    PROVE  /\ TimesAccepted(c)
           /\ \A k \in DOMAIN c.Scenarios :
                 ScenarioAccepted(c.Scenarios[k], c.Interval)
<1> DEFINE header == <<
             Check(c.Interval < Second, "interval"),
             Check(c.StartTime > c.EndTime, "start_time must be before end_time"),
             Check(c.RealTime /\ c.StartNowMinus > 0, "start_now_minus with real_time"),
             Check(c.RunIndefinitely /\ (c.EndTime # 0 \/ c.EndNowMinus > 0),
                   "run_indefinitely with an end")>>
           scenario == [k \in DOMAIN c.Scenarios |->
             Check(ScenarioError(c.Scenarios[k], c.Interval) # None,
                   ScenarioError(c.Scenarios[k], c.Interval))]
<1>1. FirstError(header) = None /\ FirstError(scenario) = None
  BY DEF ValidationError
<1>2. TimesAccepted(c)
  <2>1. DOMAIN header = 1 .. 4 /\ DOMAIN header \subseteq Nat
    OBVIOUS
  <2>2. \A k \in DOMAIN header : header[k].error # None
    <3>1. /\ header[1].error # None /\ header[2].error # None
          /\ header[3].error # None /\ header[4].error # None
      BY DEF Check, None
    <3> HIDE DEF header
    <3> QED
      BY <2>1, <3>1
  <2>3. ~header[1].fails /\ ~header[2].fails /\ ~header[3].fails /\ ~header[4].fails
    <3> HIDE DEF header
    <3> QED
      BY <1>1, <2>1, <2>2, NoErrorNoFailure
  <2>4. /\ ~(c.Interval < Second) /\ ~(c.StartTime > c.EndTime)
        /\ ~(c.RealTime /\ c.StartNowMinus > 0)
        /\ ~(c.RunIndefinitely /\ (c.EndTime # 0 \/ c.EndNowMinus > 0))
    BY <2>3 DEF Check
  <2> QED
    BY <2>4, ConfigFields, TimesAssumption DEF TimesAccepted
<1>3. ASSUME NEW k \in DOMAIN c.Scenarios
      PROVE  ScenarioAccepted(c.Scenarios[k], c.Interval)
  <2>1. DOMAIN scenario \subseteq Nat /\ k \in DOMAIN scenario
    BY ConfigFields
  <2>2. \A l \in DOMAIN scenario : scenario[l].fails => scenario[l].error # None
    BY DEF Check
  <2>3. ~scenario[k].fails
    <3> HIDE DEF scenario
    <3> QED
      BY <1>1, <2>1, <2>2, NoErrorNoFailure
  <2>4. ScenarioError(c.Scenarios[k], c.Interval) = None
    BY <2>3 DEF Check
  <2> QED
    BY <2>4, ConfigFields, ScenarioChecks
<1> QED
  BY <1>2, <1>3

-----------------------------------------------------------------------------
(* The inductive invariant: the configuration is the written one, with its  *)
(* times resolved once the receiver is built, and no receiver is built from *)
(* one that was not accepted.                                               *)
Resolved(c) == [c EXCEPT !.StartTime = ResolvedStart(c), !.EndTime = ResolvedEnd(c)]
RatesOf(c) ==
    [k \in DOMAIN c.Scenarios |->
        newChurnRate(c.Scenarios[k].Churn, c.Scenarios[k].Scale, c.Interval, Half)]

ConfigInv ==
    /\ written \in Configs
    /\ stage \in {"loaded", "rejected", "accepted", "built"}
    /\ stage # "built" => cfg = written
    /\ stage \in {"accepted", "built"} => ValidationError(written) = None
    /\ stage = "built" => cfg = Resolved(written) /\ rates = RatesOf(written)

LEMMA ConfigInvInit == Init => ConfigInv
  BY DEF Init, ConfigInv

LEMMA ConfigInvStep == ConfigInv /\ [Next]_vars => ConfigInv'
<1> SUFFICES ASSUME ConfigInv, [Next]_vars PROVE ConfigInv'
  OBVIOUS
<1>1. CASE Validate
  BY <1>1 DEF Validate, ConfigInv
<1>2. CASE newMetricsGenReceiver
  BY <1>2 DEF newMetricsGenReceiver, ConfigInv, Resolved, RatesOf
<1>3. CASE UNCHANGED vars
  BY <1>3 DEF vars, ConfigInv
<1> QED
  BY <1>1, <1>2, <1>3 DEF Next, Ended

THEOREM ConfigCorrect == Spec => []ConfigInv
  BY ConfigInvInit, ConfigInvStep, PTL DEF Spec

(* What the receiver is built from.                                         *)
LEMMA Built ==
    ASSUME ConfigInv, stage = "built"
    PROVE  /\ TimesAccepted(written)
           /\ cfg.StartTime = ResolvedStart(written)
           /\ cfg.EndTime = ResolvedEnd(written)
           /\ cfg.RealTime = written.RealTime
           /\ cfg.RunIndefinitely = written.RunIndefinitely
           /\ cfg.Interval = written.Interval
           /\ cfg.Scenarios = written.Scenarios
           /\ \A k \in DOMAIN written.Scenarios :
                 /\ written.Scenarios[k] \in ScenarioCfg
                 /\ ScenarioAccepted(written.Scenarios[k], written.Interval)
<1>1. written \in Configs /\ cfg = Resolved(written) /\ ValidationError(written) = None
  BY DEF ConfigInv
<1>2. written \in [StartTime : Nat, EndTime : Nat, StartNowMinus : Int,
                   EndNowMinus : Int, Interval : Int, RealTime : BOOLEAN,
                   RunIndefinitely : BOOLEAN, Scenarios : Seq(ScenarioCfg)]
  BY <1>1, ConfigsAssumption
<1>3. /\ cfg.StartTime = ResolvedStart(written)
      /\ cfg.EndTime = ResolvedEnd(written)
      /\ cfg.RealTime = written.RealTime
      /\ cfg.RunIndefinitely = written.RunIndefinitely
      /\ cfg.Interval = written.Interval
      /\ cfg.Scenarios = written.Scenarios
  BY <1>1, <1>2 DEF Resolved
<1> QED
  BY <1>1, <1>3, ConfigChecks, ConfigFields

(* The time range of a built receiver is the one that was validated         *)
(* (config.go:121-132, receiver.go:102-112).                                *)
THEOREM RangeResolved == Spec => []TimesResolved
<1>1. ASSUME ConfigInv PROVE TimesResolved
  <2>1. SUFFICES ASSUME stage = "built"
        PROVE  /\ cfg.RealTime /\ written.StartTime = 0 => cfg.StartTime >= Now
               /\ cfg.RunIndefinitely => cfg.EndTime = MaxTime
               /\ written.StartTime # 0 => cfg.StartTime <= cfg.EndTime
    BY DEF TimesResolved
  <2>2. /\ TimesAccepted(written)
        /\ cfg.StartTime = ResolvedStart(written)
        /\ cfg.EndTime = ResolvedEnd(written)
        /\ cfg.RealTime = written.RealTime
        /\ cfg.RunIndefinitely = written.RunIndefinitely
    BY <1>1, <2>1, Built
  <2>3. written \in Configs
    BY <1>1 DEF ConfigInv
  <2> QED
    BY <2>2, <2>3, ConfigFields, TimesAssumption
       DEF TimesAccepted, ResolvedStart, ResolvedEnd
<1> QED
  BY <1>1, ConfigCorrect, PTL

-----------------------------------------------------------------------------
(* The shares of the workers                                                *)

(* A turn of a worker and the instance it emits, of c workers with p turns.  *)
Places(c, p) == (0 .. (c - 1)) \X (0 .. (p - 1))
PlacesOf(c, p, n) == {t \in Places(c, p) : t[2] + t[1] * p = n}

LEMMA OneTurnPerInstance ==
    ASSUME NEW c \in Nat \ {0}, NEW p \in Nat, NEW n \in 0 .. (c * p - 1)
    PROVE  \E t : PlacesOf(c, p, n) = {t}
<1>1. n \in Nat /\ n < c * p
  <2>1. PICK cp \in Nat : cp = c * p
    OBVIOUS
  <2> QED
    BY <2>1
<1>2. p # 0
  BY <1>1
<1> DEFINE x == n \div p
           k == n % p
<1>3. n = x * p + k /\ x \in Int /\ k \in 0 .. (p - 1)
  BY <1>1, <1>2, DivModSum
<1> HIDE DEF x, k
<1>4. x \in 0 .. (c - 1)
  <2>1. x >= 0
    <3>1. SUFFICES ASSUME x <= -1 PROVE FALSE
      BY <1>3
    <3>2. PICK d \in Nat : x = -1 - d
      BY <1>3, <3>1
    <3>3. PICK dp \in Nat : dp = d * p
      OBVIOUS
    <3>4. x * p = -p - dp
      BY <3>2, <3>3
    <3> QED
      BY <1>1, <1>3, <3>3, <3>4
  <2>2. x < c
    <3>1. SUFFICES ASSUME x >= c PROVE FALSE
      BY <1>3
    <3>2. PICK d \in Nat : x = c + d
      BY <1>3, <3>1
    <3>3. PICK dp \in Nat, cp \in Nat : dp = d * p /\ cp = c * p
      OBVIOUS
    <3>4. x * p = cp + dp
      BY <3>2, <3>3
    <3> QED
      BY <1>1, <1>3, <3>3, <3>4
  <2> QED
    BY <1>3, <2>1, <2>2
<1>5. ASSUME NEW u \in (0 .. (c - 1)) \X (0 .. (p - 1)), u[2] + u[1] * p = n
      PROVE  u = <<x, k>>
  <2>1. PICK y \in 0 .. (c - 1), l \in 0 .. (p - 1) : u = <<y, l>>
    OBVIOUS
  <2>2. l + y * p = k + x * p /\ x \in Nat /\ y \in Nat
    BY <1>3, <1>4, <1>5, <2>1
  <2>3. x = y /\ k = l
    BY <1>3, <2>2, QuotientUnique
  <2> QED
    BY <2>1, <2>3
<1>6. <<x, k>> \in (0 .. (c - 1)) \X (0 .. (p - 1)) /\ k + x * p = n
  BY <1>3, <1>4
<1>7. <<x, k>> \in PlacesOf(c, p, n)
  BY <1>6 DEF PlacesOf, Places
<1>8. \A u \in PlacesOf(c, p, n) : u = <<x, k>>
  BY <1>5 DEF PlacesOf, Places
<1>9. PlacesOf(c, p, n) = {<<x, k>>}
  BY <1>7, <1>8
<1> QED
  BY <1>9

(* Each instance is a turn of exactly one worker (config.go:135,            *)
(* receiver.go:369-380).                                                    *)
SharedBy(c, n) ==
    LET turns == 0 .. (n \div c - 1)
        workers == 0 .. (c - 1)
    IN  \A m \in 0 .. (n - 1) :
          Cardinality({t \in workers \X turns : t[2] + (t[1] * n) \div c = m}) = 1

LEMMA SharedByWorkers ==
    ASSUME NEW c \in Nat \ {0}, NEW n \in Nat, Divides(c, n)
    PROVE  SharedBy(c, n)
<1> DEFINE p == n \div c
           places == Places(c, p)
<1>1. n = p * c + (n % c) /\ p \in Int /\ n % c = 0
  <2>1. Abs(n) = n /\ Abs(c) = c
    BY DEF Abs
  <2> QED
    BY <2>1, DivModSum DEF Divides
<1>2. n = c * p /\ p \in Nat
  <2> HIDE DEF p
  <2>1. PICK q \in Int : q = p * c
    BY <1>1
  <2>2. n = c * p
    BY <1>1, <2>1
  <2>3. ASSUME p <= -1 PROVE FALSE
    <3>1. PICK d \in Nat : p = -1 - d
      BY <1>1, <2>3
    <3>2. PICK cd \in Nat : cd = c * d
      OBVIOUS
    <3>3. c * p = -c - cd
      BY <3>1, <3>2
    <3> QED
      BY <2>2, <3>2, <3>3
  <2> QED
    BY <1>1, <2>2, <2>3
<1> HIDE DEF p
<1>3. \A x \in Nat : (x * n) \div c = x * p
  BY <1>2, DivProduct
<1>4. \A t \in places : t[2] + (t[1] * n) \div c = t[2] + t[1] * p
  <2>1. \A t \in places : t[1] \in Nat
    BY <1>2 DEF Places
  <2> HIDE DEF places
  <2> QED
    BY <1>3, <2>1
<1>5. ASSUME NEW m \in 0 .. (n - 1)
      PROVE  Cardinality({t \in places : t[2] + (t[1] * n) \div c = m}) = 1
  <2>1. PICK t : PlacesOf(c, p, m) = {t}
    <3>1. p \in Nat /\ m \in 0 .. (c * p - 1)
      BY <1>2
    <3> QED
      BY <3>1, OneTurnPerInstance
  <2>2. {u \in places : u[2] + (u[1] * n) \div c = m} = {t}
    <3> HIDE DEF places
    <3>1. places = Places(c, p)
      BY DEF places
    <3> QED
      BY <1>4, <2>1, <3>1 DEF PlacesOf
  <2> QED
    BY <2>2, FS_Singleton
<1> QED
  BY <1>5 DEF SharedBy, Places, p

THEOREM InstancesShared == Spec => []WorkersShareInstances
<1>1. ASSUME ConfigInv PROVE WorkersShareInstances
  <2>1. ASSUME NEW k \in BuiltScenarios, cfg.Scenarios[k].Concurrency > 0,
               cfg.Scenarios[k].Scale >= 0
        PROVE  SharedBy(cfg.Scenarios[k].Concurrency, cfg.Scenarios[k].Scale)
    <3> DEFINE scn == cfg.Scenarios[k]
    <3>1. stage = "built" /\ k \in DOMAIN cfg.Scenarios
      BY <2>1 DEF BuiltScenarios
    <3>2. scn \in ScenarioCfg /\ ScenarioAccepted(scn, written.Interval)
      BY <1>1, <3>1, Built
    <3>3. scn.Concurrency \in Nat \ {0} /\ scn.Scale \in Nat
      BY <2>1, <3>2 DEF ScenarioCfg
    <3> QED
      BY <3>2, <3>3, SharedByWorkers DEF ScenarioAccepted
  <2> QED
    BY <2>1 DEF WorkersShareInstances, SharedBy
<1> QED
  BY <1>1, ConfigCorrect, PTL

-----------------------------------------------------------------------------
(* The rate of churn                                                        *)

(* The products of newChurnRate fit an int64.                               *)
ProductsFit ==
    \A c \in Configs : \A k \in DOMAIN c.Scenarios :
        c.Scenarios[k].Scale * c.Interval < Half

RateIs(rate, scn, period) ==
    /\ enabled(rate)
    /\ rate.replacements <= scn.Scale * rate.intervals
    /\ scn.Churn.SamplesPerSeries > 0 =>
         rate.replacements * scn.Churn.SamplesPerSeries
           = scn.Scale * rate.intervals
    /\ scn.Churn.InstanceLifetime > 0 =>
         rate.replacements * scn.Churn.InstanceLifetime
           = scn.Scale * period * rate.intervals

(* At most as many replacements as instances in each interval, when the     *)
(* unit of the rate is at least one of those it is counted in.              *)
LEMMA AtMostScale ==
    ASSUME NEW n \in Nat, NEW unit \in Nat \ {0}, NEW den \in Nat, unit <= den,
           NEW r \in Nat, NEW i \in Nat, r * den = (n * unit) * i
    PROVE  r <= n * i
<1>1. r * unit <= r * den
  OBVIOUS
<1>2. (n * unit) * i = (n * i) * unit
  OBVIOUS
<1>3. PICK p \in Nat : p = n * i
  OBVIOUS
<1>4. r * unit <= p * unit
  BY <1>1, <1>2, <1>3
<1>5. \A x, y, u \in Nat : u > 0 /\ x > y => x * u > y * u
  OBVIOUS
<1> QED
  BY <1>3, <1>4, <1>5

LEMMA RateOfAccepted ==
    ASSUME NEW scn \in ScenarioCfg, NEW period \in Nat \ {0},
           scn.Churn.configured, ScenarioAccepted(scn, period),
           scn.Scale * period < Half,
           NEW rate, rate = newChurnRate(scn.Churn, scn.Scale, period, Half)
    PROVE  RateIs(rate, scn, period)
<1> DEFINE n == scn.Scale
           s == scn.Churn.SamplesPerSeries
           l == scn.Churn.InstanceLifetime
<1>1. n \in Nat \ {0} /\ s \in Nat /\ l \in Nat /\ (l = 0) # (s = 0)
  BY DEF ScenarioCfg, ChurnCfg, ScenarioAccepted
<1>2. CASE s > 0
  <2>1. rate = reduceChurnRate(n, s) /\ s \in Nat \ {0} /\ l = 0
    BY <1>1, <1>2 DEF newChurnRate
  <2>2. /\ rate.replacements \in Nat \ {0} /\ rate.intervals \in Nat \ {0}
        /\ rate.replacements * s = n * rate.intervals
    BY <1>1, <2>1, ReducedRate
  <2>3. rate.replacements <= n * rate.intervals
    BY <1>1, <2>1, <2>2, AtMostScale, n * 1 = n
  <2> QED
    BY <2>1, <2>2, <2>3 DEF RateIs, enabled
<1>3. CASE ~(s > 0)
  <2>1. s = 0 /\ l \in Nat \ {0}
    BY <1>1, <1>3
  <2>2. PICK m \in Nat \ {0} : m = n * period
    <3>1. \A x, y \in Nat \ {0} : x * y \in Nat \ {0}
      OBVIOUS
    <3> QED
      BY <1>1, <3>1
  <2>3. Wrap(n * period, Half) = m
    BY <2>2, WrapFits, TimesAssumption
  <2>4. rate = reduceChurnRate(m, l)
    BY <1>3, <2>3 DEF newChurnRate
  <2>5. /\ rate.replacements \in Nat \ {0} /\ rate.intervals \in Nat \ {0}
        /\ rate.replacements * l = m * rate.intervals
    BY <2>1, <2>2, <2>4, ReducedRate
  <2>6. period <= l
    BY <1>1, <2>1 DEF ScenarioAccepted
  <2>7. rate.replacements <= n * rate.intervals
    BY <1>1, <2>1, <2>2, <2>5, <2>6, AtMostScale
  <2> QED
    BY <2>1, <2>2, <2>5, <2>7 DEF RateIs, enabled
<1> QED
  BY <1>2, <1>3

(* The rate of every scenario with churn is the configured one              *)
(* (config.go:45-78), and at most one replacement per instance falls due in *)
(* an interval (config.go:161), as long as scale * interval fits an int64.  *)
THEOREM RatesExact ==
    ASSUME ProductsFit
    PROVE  Spec => []ChurnRateExact
<1>1. ASSUME ConfigInv PROVE ChurnRateExact
  <2>1. ASSUME NEW k \in BuiltScenarios, cfg.Scenarios[k].Churn.configured
        PROVE  RateIs(rates[k], cfg.Scenarios[k], cfg.Interval)
    <3> DEFINE scn == written.Scenarios[k]
    <3>1. stage = "built" /\ k \in DOMAIN cfg.Scenarios
      BY <2>1 DEF BuiltScenarios
    <3>2. /\ cfg.Scenarios = written.Scenarios /\ cfg.Interval = written.Interval
          /\ TimesAccepted(written)
      BY <1>1, <3>1, Built
    <3>3. scn \in ScenarioCfg /\ ScenarioAccepted(scn, written.Interval)
      BY <1>1, <3>1, <3>2, Built
    <3>4. written \in Configs /\ rates = RatesOf(written)
      BY <1>1, <3>1 DEF ConfigInv
    <3>5. written.Interval \in Nat \ {0}
      BY <3>2, <3>4, ConfigFields, TimesAssumption DEF TimesAccepted
    <3>6. /\ scn.Scale * written.Interval < Half
          /\ rates[k] = newChurnRate(scn.Churn, scn.Scale, written.Interval, Half)
      BY <3>1, <3>2, <3>4 DEF ProductsFit, RatesOf
    <3> QED
      BY <2>1, <3>2, <3>3, <3>5, <3>6, RateOfAccepted
  <2> QED
    BY <2>1 DEF ChurnRateExact, RateIs
<1> QED
  BY <1>1, ConfigCorrect, PTL

-----------------------------------------------------------------------------
(* Multiples of the interval.                                               *)
LEMMA NextMultiple ==
    ASSUME NEW n \in Nat
    PROVE  /\ n * Interval \in Nat
           /\ (n + 1) * Interval = n * Interval + Interval
  BY IntervalAssumption

LEMMA MultiplesGrow ==
    ASSUME NEW n \in Nat, NEW m \in Nat
    PROVE  n * Interval <= (n + m) * Interval
<1>1. (n + m) * Interval = n * Interval + m * Interval
  BY IntervalAssumption
<1>2. n * Interval \in Nat /\ m * Interval \in Nat
  BY NextMultiple
<1> QED
  BY <1>1, <1>2

LEMMA TypeStep ==
    ASSUME TypeOK, [ClockNext]_clockVars
    PROVE  TypeOK'
<1> USE IntervalAssumption, DelaysAssumption DEF TypeOK
<1>1. CASE Start
  BY <1>1 DEF Start
<1>2. CASE LoopCheck
  BY <1>2 DEF LoopCheck
<1>3. CASE Produced
  BY <1>3 DEF Produced
<1>4. CASE SelectTick
  BY <1>4 DEF SelectTick
<1>5. CASE SelectDone
  BY <1>5 DEF SelectDone
<1>6. CASE ReportExit
  BY <1>6 DEF ReportExit
<1>7. CASE Cancel
  BY <1>7 DEF Cancel
<1>8. CASE Elapse
  BY <1>8 DEF Elapse
<1>9. CASE UNCHANGED clockVars
  BY <1>9 DEF clockVars
<1> QED
  BY <1>1, <1>2, <1>3, <1>4, <1>5, <1>6, <1>7, <1>8, <1>9 DEF ClockNext, ClockEnded

(* A tick is either consumed, waiting or dropped.                           *)
LEMMA TicksStep ==
    ASSUME TypeOK, TicksAccountedFor, TickerInv, [ClockNext]_clockVars
    PROVE  TicksAccountedFor'
<1> USE DEF TypeOK, TicksAccountedFor
<1>1. CASE Start
  BY <1>1, IntervalAssumption DEF Start, TickerInv
<1>2. CASE LoopCheck
  BY <1>2 DEF LoopCheck
<1>3. CASE Produced
  BY <1>3 DEF Produced
<1>4. CASE SelectTick
  <2>1. interval' + buffered' + dropped' + 1 = interval + buffered + dropped + 1
    BY <1>4 DEF SelectTick
  <2> QED
    BY <1>4, <2>1 DEF SelectTick
<1>5. CASE SelectDone
  BY <1>5 DEF SelectDone
<1>6. CASE ReportExit
  BY <1>6 DEF ReportExit
<1>7. CASE Cancel
  BY <1>7 DEF Cancel
<1>8. CASE Elapse
  <2>1. CASE pc # "created" /\ now + 1 = nextTick
    <3> DEFINE n == interval + buffered + dropped + 1
    <3>1. n \in Nat
      OBVIOUS
    <3>2. interval' + buffered' + dropped' + 1 = n + 1
      BY <1>8, <2>1 DEF Elapse
    <3>3. nextTick = tickerStart + n * Interval
      BY <2>1
    <3> HIDE DEF n
    <3>4. n * Interval \in Nat /\ (n + 1) * Interval = n * Interval + Interval
      BY <3>1, NextMultiple
    <3>5. nextTick' = nextTick + Interval /\ tickerStart' = tickerStart
      BY <1>8, <2>1 DEF Elapse
    <3> QED
      BY <3>2, <3>3, <3>4, <3>5, IntervalAssumption
  <2>2. CASE ~(pc # "created" /\ now + 1 = nextTick)
    BY <1>8, <2>2 DEF Elapse
  <2> QED
    BY <2>1, <2>2
<1>9. CASE UNCHANGED clockVars
  BY <1>9 DEF clockVars
<1> QED
  BY <1>1, <1>2, <1>3, <1>4, <1>5, <1>6, <1>7, <1>8, <1>9 DEF ClockNext, ClockEnded

LEMMA TickerStep ==
    ASSUME TypeOK, TickerInv, [ClockNext]_clockVars
    PROVE  TickerInv'
<1> USE IntervalAssumption DEF TypeOK, TickerInv
<1>1. CASE Start
  BY <1>1 DEF Start
<1>2. CASE LoopCheck
  BY <1>2 DEF LoopCheck
<1>3. CASE Produced
  BY <1>3 DEF Produced
<1>4. CASE SelectTick
  BY <1>4 DEF SelectTick
<1>5. CASE SelectDone
  BY <1>5 DEF SelectDone
<1>6. CASE ReportExit
  BY <1>6 DEF ReportExit
<1>7. CASE Cancel
  BY <1>7 DEF Cancel
<1>8. CASE Elapse
  BY <1>8 DEF Elapse
<1>9. CASE UNCHANGED clockVars
  BY <1>9 DEF clockVars
<1> QED
  BY <1>1, <1>2, <1>3, <1>4, <1>5, <1>6, <1>7, <1>8, <1>9 DEF ClockNext, ClockEnded

(* A production starts only in LoopCheck, and then the ticks the simulated  *)
(* time has consumed lie behind the wall clock.                             *)
LEMMA AheadStep ==
    ASSUME TypeOK, TicksAccountedFor, TickerInv, NeverAhead, [ClockNext]_clockVars
    PROVE  NeverAhead'
<1> USE DEF TypeOK, NeverAhead
<1>1. CASE LoopCheck /\ pc' = "produce"
  <2> DEFINE ticks == interval + buffered + dropped
  <2>1. ticks \in Nat /\ interval + (buffered + dropped) = ticks
    OBVIOUS
  <2>2. nextTick = tickerStart + (ticks + 1) * Interval /\ nextTick <= now + Interval
    BY <1>1 DEF LoopCheck, TicksAccountedFor, TickerInv
  <2>3. interval * Interval <= ticks * Interval
    BY <2>1, MultiplesGrow
  <2>4. started' = now /\ tickerStart' = tickerStart /\ interval' = interval
    BY <1>1 DEF LoopCheck
  <2> HIDE DEF ticks
  <2>5. /\ (ticks + 1) * Interval = ticks * Interval + Interval
        /\ ticks * Interval \in Nat /\ interval * Interval \in Nat
    BY <2>1, NextMultiple
  <2> QED
    BY <2>2, <2>3, <2>4, <2>5, IntervalAssumption
<1>2. CASE pc' # "produce"
  BY <1>2
<1>3. CASE /\ pc = "produce"
           /\ UNCHANGED <<interval, tickerStart, started>>
  BY <1>3
<1>4. \/ LoopCheck /\ pc' = "produce"
      \/ pc' # "produce"
      \/ pc = "produce" /\ UNCHANGED <<interval, tickerStart, started>>
  BY DEF ClockNext, Start, LoopCheck, Produced, SelectTick, SelectDone, ReportExit,
         Cancel, Elapse, ClockEnded, clockVars
<1> QED
  BY <1>1, <1>2, <1>3, <1>4

LEMMA PacingInvInit == ClockInit => PacingInv
  BY DEF ClockInit, PacingInv, TypeOK, TicksAccountedFor, TickerInv, NeverAhead

THEOREM PacingCorrect == ClockSpec => []PacingInv
<1>1. PacingInv /\ [ClockNext]_clockVars => PacingInv'
  BY TypeStep, TicksStep, TickerStep, AheadStep DEF PacingInv
<1> QED
  BY <1>1, PacingInvInit, PTL DEF ClockSpec

(* In real-time mode the simulated time never runs ahead of the wall clock.  *)
THEOREM PacedByTheClock == ClockSpec => []NeverAhead
<1>1. PacingInv => NeverAhead
  BY DEF PacingInv
<1> QED
  BY <1>1, PacingCorrect, PTL

(* Every interval the simulated time is behind is one tick the channel had   *)
(* no room for, or the one tick it holds.                                    *)
THEOREM LagIsDroppedTicks == ClockSpec => []TicksAccountedFor
<1>1. PacingInv => TicksAccountedFor
  BY DEF PacingInv
<1> QED
  BY <1>1, PacingCorrect, PTL

-----------------------------------------------------------------------------
(* Productions in time, and the cancellation                                *)

(* As long as productions are fast no tick is dropped, and none waits.      *)
LEMMA SyncStep ==
    ASSUME PacingInv, SyncInv, [ClockNext]_clockVars
    PROVE  SyncInv'
<1> DEFINE timestamp == tickerStart + interval * Interval
<1> USE IntervalAssumption DEF PacingInv, TypeOK, SyncInv
<1>0. interval * Interval \in Nat /\ timestamp \in Nat
  BY NextMultiple
(* The ticker against the timestamp of the interval, when nothing dropped.  *)
<1>t. ASSUME pc # "created", dropped = 0
      PROVE  /\ buffered = 0 => nextTick = timestamp + Interval
             /\ buffered = 1 => nextTick = timestamp + Interval + Interval
  <2>1. /\ (interval + 1) * Interval = interval * Interval + Interval
        /\ (interval + 1 + 1) * Interval = (interval + 1) * Interval + Interval
    BY NextMultiple
  <2>2. nextTick = tickerStart + (interval + buffered + dropped + 1) * Interval
    BY <1>t DEF TicksAccountedFor
  <2>3. /\ buffered = 0 => interval + buffered + dropped + 1 = interval + 1
        /\ buffered = 1 => interval + buffered + dropped + 1 = interval + 1 + 1
    BY <1>t
  <2> QED
    BY <1>0, <2>1, <2>2, <2>3
<1>1. CASE Start
  BY <1>1 DEF Start, TickerInv
<1>2. CASE LoopCheck
  <2> SUFFICES ASSUME pc' \in {"check", "produce", "pace"}, slowest' <= Interval
               PROVE  SyncInv'
    OBVIOUS
  <2>1. pc' = "produce" /\ left' <= slowest' /\ slowest <= slowest'
    BY <1>2, DelaysAssumption DEF LoopCheck
  <2>2. dropped = 0 /\ buffered = 0 /\ now + Interval = nextTick
    BY <1>2, <2>1 DEF LoopCheck
  <2>3. now = timestamp
    BY <1>0, <1>2, <1>t, <2>2 DEF LoopCheck
  <2>4. /\ left' \in Nat /\ slowest' \in Nat /\ started' = now
        /\ now' = now /\ dropped' = dropped
        /\ interval' = interval /\ tickerStart' = tickerStart
    BY <1>2, <2>1, DelaysAssumption DEF LoopCheck
  <2>5. started' = tickerStart' + interval' * Interval
    BY <2>3, <2>4
  <2>6. now' + left' <= started' + Interval
    <3>1. left' \in Nat /\ left' <= Interval /\ now \in Nat
      BY <2>1, <2>4
    <3>2. \A a, b, c \in Nat : a <= b => c + a <= c + b
      OBVIOUS
    <3>3. now + left' <= now + Interval
      BY <3>1, <3>2, Zenon
    <3> QED
      BY <2>4, <3>3
  <2> QED
    BY <2>1, <2>2, <2>4, <2>5, <2>6
<1>3. CASE Produced
  <2> SUFFICES ASSUME slowest <= Interval
               PROVE  dropped = 0 /\ (buffered = 1 => now + Interval = nextTick)
    BY <1>3 DEF Produced
  <2>1. dropped = 0 /\ started = timestamp /\ now <= started + Interval
    BY <1>3 DEF Produced
  <2>2. buffered = 1 => nextTick = timestamp + Interval + Interval
    BY <1>3, <1>t, <2>1 DEF Produced
  <2>3. nextTick <= now + Interval
    BY <1>3 DEF Produced, TickerInv
  <2> HIDE DEF timestamp
  <2> QED
    BY <1>0, <2>1, <2>2, <2>3
<1>4. CASE SelectTick
  BY <1>4 DEF SelectTick
<1>5. CASE SelectDone
  BY <1>5 DEF SelectDone
<1>6. CASE ReportExit
  BY <1>6 DEF ReportExit
<1>7. CASE Cancel
  BY <1>7 DEF Cancel
<1>8. CASE Elapse
  <2>1. CASE pc = "produce"
    <3> SUFFICES ASSUME slowest <= Interval
                 PROVE  dropped' = 0 /\ now' + left' <= started' + Interval
      BY <1>8, <2>1 DEF Elapse
    <3>1. dropped = 0 /\ started = timestamp /\ now + left <= started + Interval
      BY <2>1
    <3>2. now < started + Interval /\ now' + left' = now + left /\ started' = started
      BY <1>8, <2>1, <3>1 DEF Elapse, Waiting
    <3>3. buffered = 1 => nextTick = timestamp + Interval + Interval
      BY <1>t, <2>1, <3>1
    <3>4. nextTick <= now + Interval
      BY <2>1 DEF TickerInv
    <3> HIDE DEF timestamp
    <3>5. buffered = 0
      BY <1>0, <3>1, <3>2, <3>3, <3>4
    <3> QED
      BY <1>8, <3>1, <3>2, <3>5 DEF Elapse
  <2>2. CASE pc = "pace"
    BY <1>8, <2>2 DEF Elapse, Waiting
  <2>3. CASE pc \notin {"produce", "pace"}
    BY <1>8, <2>3 DEF Elapse, Waiting
  <2> QED
    BY <2>1, <2>2, <2>3
<1>9. CASE UNCHANGED clockVars
  BY <1>9 DEF clockVars
<1> QED
  BY <1>1, <1>2, <1>3, <1>4, <1>5, <1>6, <1>7, <1>8, <1>9 DEF ClockNext, ClockEnded

(* While no production took longer than an interval, every one starts       *)
(* exactly at its timestamp, after any number of intervals.                 *)
THEOREM NoDrift == ClockSpec => []InSyncWhileFast
<1>1. ClockInit => SyncInv
  BY DEF ClockInit, SyncInv
<1>2. PacingInv /\ SyncInv /\ [ClockNext]_clockVars => SyncInv'
  BY SyncStep
<1>3. SyncInv => InSyncWhileFast
  BY DEF SyncInv, InSyncWhileFast
<1> QED
  BY <1>1, <1>2, <1>3, PacingCorrect, PTL DEF ClockSpec

LEMMA StopStep ==
    ASSUME TypeOK, StopInv, [ClockNext]_clockVars
    PROVE  StopInv'
<1> USE DelaysAssumption DEF TypeOK, StopInv, Cancelled, NotCancelled
<1>1. CASE Start
  BY <1>1 DEF Start
<1>2. CASE LoopCheck
  BY <1>2 DEF LoopCheck
<1>3. CASE Produced
  BY <1>3 DEF Produced
<1>4. CASE SelectTick
  BY <1>4 DEF SelectTick
<1>5. CASE SelectDone
  BY <1>5 DEF SelectDone
<1>6. CASE ReportExit
  BY <1>6 DEF ReportExit
<1>7. CASE Cancel
  BY <1>7 DEF Cancel
<1>8. CASE Elapse
  BY <1>8 DEF Elapse, Waiting
<1>9. CASE UNCHANGED clockVars
  BY <1>9 DEF clockVars
<1> QED
  BY <1>1, <1>2, <1>3, <1>4, <1>5, <1>6, <1>7, <1>8, <1>9 DEF ClockNext, ClockEnded

(* After the cancellation only the production in progress, and the sleep    *)
(* before the exit, keep the goroutine from returning.                      *)
THEOREM PromptStop == ClockSpec => []StopsPromptly
<1>1. ClockInit => StopInv
  BY DEF ClockInit, StopInv, Cancelled, NotCancelled
<1>2. PacingInv /\ StopInv /\ [ClockNext]_clockVars => StopInv'
  BY StopStep DEF PacingInv
<1>3. PacingInv /\ StopInv => StopsPromptly
  BY DelaysAssumption DEF PacingInv, TypeOK, StopInv, StopsPromptly, Cancelled, NotCancelled
<1> QED
  BY <1>1, <1>2, <1>3, PacingCorrect, PTL DEF ClockSpec
=============================================================================
