---------------------------- MODULE NumberSeries ----------------------------
(***************************************************************************)
(* One series of numbers (internal/distribution): the data point of the     *)
(* template, which AdvanceDataPoint moves once per interval, and what one   *)
(* instance emits for it, a function of the template, of the instance and   *)
(* of the time alone (InstanceVariationStrategy.ApplyNumber).               *)
(*                                                                         *)
(* Numbers are in fixed point: Unit is 1.0 of the template and Unit * Fine  *)
(* is 1.0 of an emission, which is exact for the multipliers that occur.    *)
(* What a random number generator or a hash yields is chosen freely from    *)
(* its range: a step of the Gaussian walk from Noise, an instance's place   *)
(* in [0, 1) in halves, its temporal noise in [-1, 1] in halves with both   *)
(* ends, and the growth of the counter wave over an interval at the ends of *)
(* its range (0.2, 1.8).                                                    *)
(***************************************************************************)
EXTENDS Integers

CONSTANTS
    Kinds,          \* the metrics: [type, monotonic, temporality, value, hint]
    Seeds,          \* values of the template as it was written
    Noise,          \* NormFloat64() times a standard deviation
    Median,         \* DistributionCfg.MedianMonotonicSum
    Interval,       \* cfg.Interval in seconds
    NumIntervals    \* length of a run

(* 1.0; up to two decimals are the precisions that occur.                   *)
Unit == 100
Quanta == {100, 10, 1}
Unset == 0          \* the metric has no entry in the precision map

Fine == 4000
E(x) == x * Fine    \* a number of the template as a number of an emission

ASSUME KindsAssumption ==
    Kinds \subseteq [type : {"gauge", "sum"}, monotonic : BOOLEAN,
                     temporality : {"cumulative", "delta", "unspecified"},
                     value : {"double", "int"},
                     hint : {"none", "clock", "constant", "current_count",
                             "slow_gauge", "sparse_counter", "stable_binary",
                             "steady_counter"}]
ASSUME NumbersAssumption ==
    /\ Seeds \subseteq Int /\ Noise \subseteq Int
    /\ Median \in Nat /\ Interval \in Nat \ {0} /\ NumIntervals \in Nat

VARIABLES
    kind, seed,     \* the metric and the value its template was written with
    quantum,        \* its precision, as a multiple of 1.0 / Unit
    instance,       \* [unit, base]: the hashes of the instance
    template,       \* the data point of the template
    advances,       \* how often it was advanced
    wave,           \* the integrated counter wave, in tenths
    emitted,        \* the last emission of the instance
    emittedFor,     \* the template it was made from
    phase           \* "advance" or "emit"

rigid == <<kind, seed, quantum, instance>>
vars == <<kind, seed, quantum, instance, template, advances, wave, emitted,
          emittedFor, phase>>

Abs(x) == IF x < 0 THEN -x ELSE x
AtLeast0(x) == IF x < 0 THEN 0 ELSE x
InUnit(x, one) == 0 <= x /\ x <= one

(* math.Round to multiples of q: halves away from zero.                     *)
RoundTo(x, q) == (IF x < 0 THEN -1 ELSE 1) * q * ((2 * Abs(x) + q) \div (2 * q))
roundToPrecision(x, q) == IF q = Unset THEN x ELSE RoundTo(x, q)

bounce_LowEdge(x, one) == Abs(x)    \* mutant: reflected at 0 only
bounceBetweenZeroAndOne(x, one) ==
    LET fractional == Abs(x) % one
    IN  IF (Abs(x) \div one) % 2 = 0 THEN fractional ELSE one - fractional

isMonotonicSum == kind.type = "sum" /\ kind.monotonic
isDelta == kind.type = "sum" /\ kind.temporality = "delta"
isCumulativeMonotonicSum == isMonotonicSum /\ kind.temporality = "cumulative"

(* InferPrecision for a metric with this value: the decimals it needs, or   *)
(* more when another data point of the metric does.  Zeros do not count.    *)
Precisions(k, v) ==
    IF k.value = "int" THEN {Unset}
    ELSE {q \in Quanta : v % q = 0} \cup IF v = 0 THEN {Unset} ELSE {}

-----------------------------------------------------------------------------
(* The step of the template                                                 *)

advanceFloat(v, g) ==
    LET delta == g + IF isMonotonicSum THEN Median ELSE 0
    IN  Abs(IF isDelta THEN delta ELSE v + delta)

(* A gauge outside [0, 1] that would enter is pushed over the edge.         *)
AvoidUnit(x) ==
    IF ~InUnit(x, Unit) THEN x ELSE IF 2 * x < Unit THEN x - Unit ELSE x + Unit

advanceDouble(v, g) ==
    IF kind.type # "gauge" THEN advanceFloat(v, g)
    ELSE IF InUnit(v, Unit) THEN bounceBetweenZeroAndOne(v + g, Unit)
    ELSE AvoidUnit(advanceFloat(v, g))

(* Probabilistic rounding.                                                  *)
advanceInt(v, g) ==
    LET x == advanceFloat(v, g)
        floor == Unit * (x \div Unit)
    IN  IF floor = x THEN {x} ELSE {floor, floor + Unit}

applyCounterDelta(v, delta) == IF isDelta THEN delta ELSE v + delta

(* GenerationHintStrategy.Advance of the hint class.                        *)
Advanced(v) ==
    CASE kind.hint = "clock" -> {v + Interval}
      [] kind.hint = "constant" -> {v}
      [] kind.hint = "current_count" ->
            {AtLeast0(v + step * Unit) : step \in -2 .. 2}
      [] kind.hint = "slow_gauge" ->
            {IF InUnit(v, Unit) THEN bounceBetweenZeroAndOne(Abs(v + g), Unit)
             ELSE Abs(v + g) : g \in Noise}
      [] kind.hint = "sparse_counter" ->
            {applyCounterDelta(v, delta) : delta \in
                {0} \cup {IF g = 0 THEN Unit ELSE Abs(g) : g \in Noise}}
      [] kind.hint = "stable_binary" ->
            {IF RoundTo(v, Unit) <= 0 THEN 0 ELSE Unit}
      [] kind.hint = "steady_counter" ->
            {applyCounterDelta(v, Abs(g + Median)) : g \in Noise}

(* The value written back to a data point of the kind's value type.         *)
AsInt(x) == AtLeast0(RoundTo(x, Unit))

NextValues(v) ==
    IF kind.hint # "none" /\ kind.value = "double"
    THEN {roundToPrecision(x, quantum) : x \in Advanced(v)}
    ELSE IF kind.hint # "none" THEN {AsInt(x) : x \in Advanced(v)}
    ELSE IF kind.value = "double"
    THEN {roundToPrecision(advanceDouble(v, g), quantum) : g \in Noise}
    ELSE UNION {advanceInt(v, g) : g \in Noise}

-----------------------------------------------------------------------------
(* The emission for an instance                                             *)

(* The hint classes that vary nothing.                                      *)
NoVariation_Binary == {"clock", "constant"}    \* mutant: binaries vary
NoVariation == {"clock", "constant", "stable_binary"}

(* strategyFor: the variation of the hint, or of the type of the metric.    *)
Variation ==
    CASE kind.hint \in NoVariation -> "none"
      [] kind.hint = "current_count" -> "count"
      [] kind.hint = "slow_gauge" -> "gauge"
      [] kind.hint \in {"sparse_counter", "steady_counter"} -> "counter"
      [] OTHER -> IF kind.type = "gauge" THEN "gauge" ELSE "counter"

(* x times 1 + unit (gauges) or 0.9 + 0.2 * unit (counters), unit in halves. *)
stableMultiplied(x) ==
    IF Variation = "counter" THEN (x * (18 + 2 * instance.unit)) \div 20
    ELSE (x * (2 + instance.unit)) \div 2

(* x times 1 + 0.08 * noise, noise in halves: in [-1, 1] where it may be    *)
(* negative and mapped to [0, 1] elsewhere.                                 *)
temporalMultiplied_Signed(x, noise, allowNegativeNoise) ==    \* mutant
    (x * (200 + 8 * noise)) \div 200
temporalMultiplied(x, noise, allowNegativeNoise) ==
    (x * (IF allowNegativeNoise THEN 200 + 8 * noise ELSE 200 + 4 * (2 + noise)))
        \div 200

(* Mutant: the wave itself, not its integral.                               *)
counterRateOffset_Wave == E(Median * 2 * instance.unit * (wave % 5)) \div 200
(* CounterBaseDelta * 0.2 * unit * wave                                     *)
counterRateOffset == E(Median * 2 * instance.unit * wave) \div 200

BoundedMultiplier(noise) ==
    LET isUnit == InUnit(template, Unit)
        varied == stableMultiplied(E(template))
        gauge == AtLeast0(temporalMultiplied(varied, noise, isUnit))
    IN  IF template = 0 THEN 0
        ELSE IF isCumulativeMonotonicSum THEN AtLeast0(varied + counterRateOffset)
        ELSE IF Variation = "gauge" /\ isUnit
        THEN bounceBetweenZeroAndOne(gauge, E(Unit))
        ELSE gauge

(* The offset of an instance, plus up to three for the temporal noise.      *)
CurrentCount(noise) ==
    AtLeast0(stableMultiplied(E(template))
             + E(Unit * instance.base) + RoundTo((3 * noise * E(Unit)) \div 2, E(Unit)))

(* writeNumberDataPoint                                                     *)
Written(x) ==
    IF kind.value = "int" THEN AtLeast0(RoundTo(x, E(Unit)))
    ELSE IF quantum = Unset THEN x ELSE RoundTo(x, E(quantum))

ApplyNumber(noise) ==
    IF Variation = "none" THEN E(template)
    ELSE IF Variation = "count" THEN Written(CurrentCount(noise))
    ELSE IF template = 0 THEN 0
    ELSE Written(BoundedMultiplier(noise))

-----------------------------------------------------------------------------
Init ==
    /\ kind \in Kinds /\ seed \in Seeds
    /\ kind.value = "int" => seed % Unit = 0
    /\ quantum \in Precisions(kind, seed)
    /\ instance \in [unit : 0 .. 1, base : {-2, 0, 2}]
    /\ instance.base # 0 => Variation = "count"
    /\ template = seed /\ advances = 0 /\ wave = 0
    /\ emitted = 0 /\ emittedFor = 0 /\ phase = "advance"

AdvanceDataPoint ==
    /\ phase = "advance" /\ advances < NumIntervals
    /\ template' \in NextValues(template)
    /\ advances' = advances + 1
    /\ wave' \in IF advances = 0 THEN {0} ELSE {wave + 2, wave + 18}
    /\ phase' = "emit"
    /\ UNCHANGED <<rigid, emitted, emittedFor>>

EmitForInstance ==
    /\ phase = "emit"
    /\ \E noise \in {-2, 1, 2} : emitted' = ApplyNumber(noise)
    /\ emittedFor' = template
    /\ phase' = "advance"
    /\ UNCHANGED <<rigid, template, advances, wave>>

Ended == phase = "advance" /\ advances >= NumIntervals /\ UNCHANGED vars

Next == AdvanceDataPoint \/ EmitForInstance \/ Ended

Spec == Init /\ [][Next]_vars
-----------------------------------------------------------------------------
(* Properties                                                               *)

(* A double gauge whose template starts as a ratio stays one, in the        *)
(* template and for every instance: reflected at 0 and 1 by the walk        *)
(* (distribution.go:79-80, 128) and by the variation of the instance, which *)
(* may double it (instance_variation.go:216), and not moved out by rounding.*)
RatiosStayRatios ==
    /\ kind.type = "gauge" /\ kind.hint \in {"none", "slow_gauge"}
    /\ kind.value = "double" \/ kind.hint = "slow_gauge"
    /\ InUnit(seed, Unit)
    => InUnit(template, Unit) /\ InUnit(emitted, E(Unit))

(* A gauge above 1 is not pushed below 1 for any instance at any time       *)
(* (instance_variation.go:243-244), although the temporal noise is signed.  *)
GaugesKeptAboveOne ==
    Variation = "gauge" /\ kind.type = "gauge" /\ emittedFor > Unit
        => emitted >= E(Unit)

(* Once normalised a stable_binary is 0 or 1 and never flips, template and  *)
(* emission (generation_hints.go:29), whatever was written in the template. *)
StableBinaryNeverFlips ==
    kind.hint = "stable_binary" /\ advances > 0 =>
        /\ template \in {0, Unit}
        /\ template = Unit <=> 2 * seed >= Unit
        /\ phase = "advance" => emitted = E(template)

(* A cumulative monotonic sum never decreases for an instance, rounding,    *)
(* rate offset and the early return for 0 included                          *)
(* (instance_variation.go:205-209, 287-288; receiver.go:353-354: "this      *)
(* makes sure counters are increasing over time").                          *)
CountersNeverDecrease ==
    [][isCumulativeMonotonicSum /\ seed >= 0 /\ kind.hint \in {"none", "sparse_counter", "steady_counter"}
         => template' >= template /\ emitted' >= emitted]_vars

(* distribution.go:83: "avoid keeping the value locked between 0..1 in      *)
(* successive runs": a gauge that starts outside is never found inside.     *)
GaugeNotLocked ==
    kind.type = "gauge" /\ kind.value = "double" /\ kind.hint = "none"
      /\ ~InUnit(seed, Unit) => ~InUnit(template, Unit)
=============================================================================
