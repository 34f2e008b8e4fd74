------------------------- MODULE NumberSeries_proof -------------------------
(***************************************************************************)
(* What holds of a series of numbers for every seed, every step of the      *)
(* Gaussian walk, every median and interval and a run of every length.      *)
(***************************************************************************)
EXTENDS NumberSeries, TLAPS

-----------------------------------------------------------------------------
(* Reflection and rounding                                                   *)

(* A reflected number is in [0, 1], however far outside it was               *)
(* (distribution.go:128-138).                                                *)
LEMMA BounceInUnit ==
    ASSUME NEW x \in Int, NEW one \in {Unit, E(Unit)}
    PROVE  /\ bounceBetweenZeroAndOne(x, one) \in Int
           /\ InUnit(bounceBetweenZeroAndOne(x, one), one)
<1>1. one \in {100, 400000}
  BY DEF Unit, E, Fine
<1>2. Abs(x) \in Nat
  BY DEF Abs
<1>3. \A y \in Nat : y % one \in Int /\ 0 <= y % one /\ y % one <= one
  BY <1>1
<1> QED
  BY <1>1, <1>2, <1>3 DEF bounceBetweenZeroAndOne, InUnit

(* The units in which values of the template and of emissions are rounded.   *)
RoundingUnit == {1, 10, 100, 4000, 40000, 400000}

LEMMA QuantaRound ==
    /\ Quanta \subseteq RoundingUnit /\ Unit \in RoundingUnit
    /\ \A q \in Quanta : E(q) \in RoundingUnit
    /\ E(Unit) \in RoundingUnit
  BY DEF Quanta, Unit, E, Fine, RoundingUnit

(* Rounding gives the nearest multiple: it never crosses a multiple, keeps   *)
(* multiples, and keeps the order of numbers that are not negative.          *)
LEMMA Rounds ==
    ASSUME NEW q \in RoundingUnit, NEW x \in Int
    PROVE  /\ RoundTo(x, q) \in Int
           /\ RoundTo(x, q) % q = 0
           /\ x >= 0 => RoundTo(x, q) >= 0
           /\ x <= 0 => RoundTo(x, q) <= 0
           /\ x >= 0 /\ x % q = 0 => RoundTo(x, q) = x
<1>1. CASE q = 1
  BY <1>1 DEF RoundTo, Abs
<1>2. CASE q = 10
  BY <1>2 DEF RoundTo, Abs
<1>3. CASE q = 100
  BY <1>3 DEF RoundTo, Abs
<1>4. CASE q = 4000
  BY <1>4 DEF RoundTo, Abs
<1>5. CASE q = 40000
  BY <1>5 DEF RoundTo, Abs
<1>6. CASE q = 400000
  BY <1>6 DEF RoundTo, Abs
<1> QED
  BY <1>1, <1>2, <1>3, <1>4, <1>5, <1>6 DEF RoundingUnit

LEMMA RoundsInOrder ==
    ASSUME NEW q \in RoundingUnit, NEW x \in Nat, NEW y \in Int, x <= y
    PROVE  RoundTo(x, q) <= RoundTo(y, q)
<1>1. CASE q = 1
  BY <1>1 DEF RoundTo, Abs
<1>2. CASE q = 10
  BY <1>2 DEF RoundTo, Abs
<1>3. CASE q = 100
  BY <1>3 DEF RoundTo, Abs
<1>4. CASE q = 4000
  BY <1>4 DEF RoundTo, Abs
<1>5. CASE q = 40000
  BY <1>5 DEF RoundTo, Abs
<1>6. CASE q = 400000
  BY <1>6 DEF RoundTo, Abs
<1> QED
  BY <1>1, <1>2, <1>3, <1>4, <1>5, <1>6 DEF RoundingUnit

(* A number at or above a multiple stays at or above it; one in [0, 1] stays *)
(* there.                                                                    *)
LEMMA RoundsAbove ==
    ASSUME NEW q \in RoundingUnit, NEW x \in Nat, x % q = 0,
           NEW y \in Int, x <= y
    PROVE  RoundTo(y, q) >= x
  BY Rounds, RoundsInOrder

LEMMA RoundsBelow ==
    ASSUME NEW q \in RoundingUnit, NEW x \in Nat, x % q = 0,
           NEW y \in Nat, y <= x
    PROVE  RoundTo(y, q) \in 0 .. x
  BY Rounds, RoundsInOrder

-----------------------------------------------------------------------------
(* Types and grids                                                           *)

(* The numbers are whole, and the template is a multiple of the unit in      *)
(* which it is written: an integer of 1, a double of its precision.          *)
NumbersInv ==
    /\ kind \in Kinds /\ seed \in Int /\ quantum \in Quanta \cup {Unset}
    /\ instance \in [unit : 0 .. 1, base : {-2, 0, 2}]
    /\ template \in Int /\ advances \in Nat /\ wave \in Nat
    /\ emitted \in Int /\ emittedFor \in Int /\ phase \in {"advance", "emit"}
    /\ kind.value = "int" => quantum = Unset /\ template % Unit = 0
    /\ quantum # Unset => template % quantum = 0
    /\ advances = 0 => template = seed /\ wave = 0

LEMMA KindFields ==
    ASSUME NEW k \in Kinds
    PROVE  /\ k.type \in {"gauge", "sum"} /\ k.value \in {"double", "int"}
           /\ k.hint \in {"none", "clock", "constant", "current_count",
                          "slow_gauge", "sparse_counter", "stable_binary",
                          "steady_counter"}
  BY KindsAssumption

LEMMA MedianInt ==
    Median \in Nat /\ Interval \in Nat /\ \A g \in Noise : g \in Int
  BY NumbersAssumption

LEMMA FloatInt ==
    ASSUME NEW v \in Int, NEW g \in Noise
    PROVE  advanceFloat(v, g) \in Nat
<1>1. g \in Int /\ g + Median \in Int /\ g + 0 \in Int
  BY MedianInt
<1> QED
  BY <1>1, MedianInt DEF advanceFloat, Abs

LEMMA HintedInt ==
    ASSUME NumbersInv, kind.hint # "none", NEW v \in Int, NEW x \in Advanced(v)
    PROVE  x \in Int
<1>1. CASE kind.hint = "clock"
  BY <1>1, MedianInt DEF Advanced
<1>2. CASE kind.hint = "constant"
  BY <1>2 DEF Advanced
<1>3. CASE kind.hint = "current_count"
  <2>1. PICK step \in -2 .. 2 : x = AtLeast0(v + step * Unit)
    BY <1>3 DEF Advanced
  <2> QED
    BY <2>1 DEF AtLeast0, Unit
<1>4. CASE kind.hint = "slow_gauge"
  <2>1. PICK g \in Noise :
            x = IF InUnit(v, Unit) THEN bounceBetweenZeroAndOne(Abs(v + g), Unit)
                ELSE Abs(v + g)
    BY <1>4 DEF Advanced
  <2>2. Abs(v + g) \in Int
    BY MedianInt DEF Abs
  <2> QED
    BY <2>1, <2>2, BounceInUnit
<1>5. CASE kind.hint = "sparse_counter"
  <2>1. PICK delta \in {0} \cup {IF g = 0 THEN Unit ELSE Abs(g) : g \in Noise} :
            x = applyCounterDelta(v, delta)
    BY <1>5 DEF Advanced
  <2>2. delta \in Int
    BY MedianInt DEF Abs, Unit
  <2> QED
    BY <2>1, <2>2 DEF applyCounterDelta
<1>6. CASE kind.hint = "stable_binary"
  BY <1>6 DEF Advanced, Unit
<1>7. CASE kind.hint = "steady_counter"
  <2>1. PICK g \in Noise : x = applyCounterDelta(v, Abs(g + Median))
    BY <1>7 DEF Advanced
  <2>2. Abs(g + Median) \in Int
    BY MedianInt DEF Abs
  <2> QED
    BY <2>1, <2>2 DEF applyCounterDelta
<1> QED
  BY <1>1, <1>2, <1>3, <1>4, <1>5, <1>6, <1>7, KindFields DEF NumbersInv

LEMMA DoubleInt ==
    ASSUME NEW v \in Int, NEW g \in Noise
    PROVE  advanceDouble(v, g) \in Int
<1>1. advanceFloat(v, g) \in Int /\ v + g \in Int
  BY FloatInt, MedianInt
<1>2. bounceBetweenZeroAndOne(v + g, Unit) \in Int
  BY <1>1, BounceInUnit
<1>3. AvoidUnit(advanceFloat(v, g)) \in Int
  BY <1>1 DEF AvoidUnit, Unit
<1> QED
  BY <1>1, <1>2, <1>3 DEF advanceDouble

(* The template is written on its grid.                                      *)
LEMMA WrittenOnGrid ==
    ASSUME NumbersInv, NEW x \in Int
    PROVE  /\ roundToPrecision(x, quantum) \in Int
           /\ quantum # Unset => roundToPrecision(x, quantum) % quantum = 0
           /\ AsInt(x) \in Nat /\ AsInt(x) % Unit = 0
<1>1. quantum # Unset => quantum \in RoundingUnit
  BY QuantaRound DEF NumbersInv
<1>2. /\ RoundTo(x, Unit) \in Int /\ RoundTo(x, Unit) % Unit = 0
      /\ 0 % Unit = 0
  BY Rounds, QuantaRound DEF Unit
<1> QED
  BY <1>1, <1>2, Rounds DEF roundToPrecision, AsInt, AtLeast0

LEMMA NextOnGrid ==
    ASSUME NumbersInv, NEW v \in Int, NEW x \in NextValues(v)
    PROVE  /\ x \in Int
           /\ kind.value = "int" => x % Unit = 0
           /\ quantum # Unset => x % quantum = 0
<1>1. kind.value \in {"double", "int"} /\ (kind.value = "int" => quantum = Unset)
  BY KindFields DEF NumbersInv
<1>2. CASE kind.hint # "none" /\ kind.value = "double"
  <2>1. PICK y \in Advanced(v) : x = roundToPrecision(y, quantum)
    BY <1>2 DEF NextValues
  <2> QED
    BY <1>2, <2>1, HintedInt, WrittenOnGrid
<1>3. CASE kind.hint # "none" /\ kind.value = "int"
  <2>1. PICK y \in Advanced(v) : x = AsInt(y)
    BY <1>3 DEF NextValues
  <2> QED
    BY <1>1, <1>3, <2>1, HintedInt, WrittenOnGrid
<1>4. CASE kind.hint = "none" /\ kind.value = "double"
  <2>1. PICK g \in Noise : x = roundToPrecision(advanceDouble(v, g), quantum)
    BY <1>4 DEF NextValues
  <2> QED
    BY <1>4, <2>1, DoubleInt, WrittenOnGrid
<1>5. CASE kind.hint = "none" /\ kind.value = "int"
  <2>1. PICK g \in Noise : x \in advanceInt(v, g)
    BY <1>5 DEF NextValues
  <2>2. PICK y \in Int : y = advanceFloat(v, g)
    BY FloatInt
  <2>3. LET floor == Unit * (y \div Unit)
        IN  x \in IF floor = y THEN {y} ELSE {floor, floor + Unit}
    BY <2>1, <2>2 DEF advanceInt
  <2>4. x \in Int /\ x % Unit = 0
    BY <2>3 DEF Unit
  <2> QED
    BY <1>1, <1>5, <2>4
<1> QED
  BY <1>1, <1>2, <1>3, <1>4, <1>5

-----------------------------------------------------------------------------
(* What an instance emits                                                    *)

NoiseRange == {-2, 1, 2}

(* The multiplier of the instance never makes a number smaller for a gauge,  *)
(* and keeps its sign and the order for a counter                            *)
(* (instance_variation.go:243-249).                                          *)
LEMMA StableMultiplier ==
    ASSUME NumbersInv, NEW x \in Int
    PROVE  /\ stableMultiplied(x) \in Int
           /\ x >= 0 => stableMultiplied(x) >= 0
           /\ Variation # "counter" /\ x >= 0 => stableMultiplied(x) >= x
           /\ \A y \in Int : x <= y => stableMultiplied(x) <= stableMultiplied(y)
<1>1. instance.unit \in {0, 1}
  BY DEF NumbersInv
<1>2. CASE instance.unit = 0
  BY <1>2 DEF stableMultiplied
<1>3. CASE instance.unit = 1
  BY <1>3 DEF stableMultiplied
<1> QED
  BY <1>1, <1>2, <1>3

(* Noise mapped to [0, 1] never makes a number smaller                       *)
(* (instance_variation.go:265-268).                                          *)
LEMMA TemporalMultiplier ==
    ASSUME NEW x \in Int, NEW noise \in NoiseRange, NEW signed \in BOOLEAN
    PROVE  /\ temporalMultiplied(x, noise, signed) \in Int
           /\ ~signed /\ x >= 0 => temporalMultiplied(x, noise, signed) >= x
<1>1. CASE noise = -2
  BY <1>1 DEF temporalMultiplied
<1>2. CASE noise = 1
  BY <1>2 DEF temporalMultiplied
<1>3. CASE noise = 2
  BY <1>3 DEF temporalMultiplied
<1> QED
  BY <1>1, <1>2, <1>3 DEF NoiseRange

(* The rate offset of an instance whose hash has `unit` and that has seen    *)
(* the wave up to w (instance_variation.go:273-285).                         *)
RateOffset(w) == E(Median * 2 * instance.unit * w) \div 200

LEMMA RateOffsetGrows ==
    ASSUME NumbersInv, NEW v \in Nat, NEW w \in Nat, v <= w
    PROVE  /\ RateOffset(v) \in Nat /\ RateOffset(w) \in Nat
           /\ RateOffset(v) <= RateOffset(w)
<1>1. CASE instance.unit = 0
  <2>1. /\ Median * 2 * instance.unit = 0
        /\ 0 * v = 0 /\ 0 * w = 0
    BY <1>1, MedianInt
  <2> QED
    BY <2>1 DEF RateOffset, E, Fine
<1>2. CASE instance.unit = 1
  <2>1. PICK m \in Nat : m = Median * 2 * instance.unit
    BY <1>2, MedianInt
  <2>2. PICK a \in Nat : a = m * v
    OBVIOUS
  <2>3. PICK d \in Nat : w = v + d
    <3>1. w - v \in Nat /\ w = v + (w - v)
      OBVIOUS
    <3> QED
      BY <3>1
  <2>4. PICK b \in Nat : b = m * d
    OBVIOUS
  <2>5. m * w = a + b
    BY <2>2, <2>3, <2>4
  <2>6. RateOffset(v) = (a * 4000) \div 200 /\ RateOffset(w) = ((a + b) * 4000) \div 200
    BY <2>1, <2>2, <2>5 DEF RateOffset, E, Fine
  <2>7. /\ (a * 4000) \div 200 \in Nat /\ ((a + b) * 4000) \div 200 \in Nat
        /\ (a * 4000) \div 200 <= ((a + b) * 4000) \div 200
    OBVIOUS
  <2> QED
    BY <2>6, <2>7
<1> QED
  BY <1>1, <1>2 DEF NumbersInv

LEMMA WriteInt ==
    ASSUME NumbersInv, NEW x \in Int
    PROVE  /\ Written(x) \in Int
           /\ x >= 0 => Written(x) >= 0
           /\ \A y \in Int : 0 <= x /\ x <= y => Written(x) <= Written(y)
           /\ InUnit(x, E(Unit)) => InUnit(Written(x), E(Unit))
           /\ x >= E(Unit) => Written(x) >= E(Unit)
<1>1. /\ E(Unit) \in RoundingUnit
      /\ quantum # Unset => E(quantum) \in RoundingUnit
  BY QuantaRound DEF NumbersInv
<1>2. ASSUME NEW q \in RoundingUnit, E(Unit) % q = 0, E(Unit) \in Nat
      PROVE  /\ RoundTo(x, q) \in Int
             /\ x >= 0 => RoundTo(x, q) >= 0
             /\ \A y \in Int : 0 <= x /\ x <= y => RoundTo(x, q) <= RoundTo(y, q)
             /\ InUnit(x, E(Unit)) => InUnit(RoundTo(x, q), E(Unit))
             /\ x >= E(Unit) => RoundTo(x, q) >= E(Unit)
  <2>1. InUnit(x, E(Unit)) => RoundTo(x, q) \in 0 .. E(Unit)
    BY <1>2, RoundsBelow DEF InUnit
  <2>2. x >= E(Unit) => RoundTo(x, q) >= E(Unit)
    BY <1>2, RoundsAbove
  <2> QED
    BY <1>2, <2>1, <2>2, Rounds, RoundsInOrder DEF InUnit
<1>3. E(Unit) \in Nat /\ E(Unit) % E(Unit) = 0
  BY DEF E, Unit, Fine
<1>4. quantum # Unset => E(Unit) % E(quantum) = 0
  BY DEF E, Unit, Fine, NumbersInv, Quanta
<1>5. CASE kind.value = "int"
  <2> DEFINE q == E(Unit)
  <2>1. \A y \in Int : Written(y) = AtLeast0(RoundTo(y, q))
    BY <1>5 DEF Written
  <2>2. \A y \in Int : RoundTo(y, q) \in Int
    BY <1>1, Rounds
  <2> HIDE DEF q
  <2>3. /\ RoundTo(x, q) \in Int
        /\ x >= 0 => RoundTo(x, q) >= 0
        /\ \A y \in Int : 0 <= x /\ x <= y => RoundTo(x, q) <= RoundTo(y, q)
        /\ InUnit(x, E(Unit)) => InUnit(RoundTo(x, q), E(Unit))
        /\ x >= E(Unit) => RoundTo(x, q) >= E(Unit)
    BY <1>1, <1>2, <1>3 DEF q
  <2>4. E(Unit) \in Int
    BY <1>3
  <2> QED
    BY <2>1, <2>2, <2>3, <2>4 DEF AtLeast0, InUnit
<1>6. CASE kind.value # "int" /\ quantum = Unset
  BY <1>3, <1>6 DEF Written, InUnit
<1>7. CASE kind.value # "int" /\ quantum # Unset
  <2>1. \A y \in Int : Written(y) = RoundTo(y, E(quantum))
    BY <1>7 DEF Written
  <2> QED
    BY <1>1, <1>2, <1>3, <1>4, <1>7, <2>1
<1> QED
  BY <1>5, <1>6, <1>7

LEMMA BoundedInt ==
    ASSUME NumbersInv, NEW noise \in NoiseRange
    PROVE  BoundedMultiplier(noise) \in Nat
<1>1. E(template) \in Int /\ InUnit(template, Unit) \in BOOLEAN
  BY DEF NumbersInv, E, Fine, InUnit
<1> DEFINE varied == stableMultiplied(E(template))
           gauge == AtLeast0(temporalMultiplied(varied, noise, InUnit(template, Unit)))
<1>2. varied \in Int
  BY <1>1, StableMultiplier
<1>3. gauge \in Nat
  BY <1>1, <1>2, TemporalMultiplier DEF AtLeast0
<1>4. counterRateOffset \in Nat
  BY RateOffsetGrows DEF NumbersInv, counterRateOffset, RateOffset
<1>5. AtLeast0(varied + counterRateOffset) \in Nat
  BY <1>2, <1>4 DEF AtLeast0
<1>6. bounceBetweenZeroAndOne(gauge, E(Unit)) \in Nat
  BY <1>3, BounceInUnit DEF InUnit
<1>7. \/ BoundedMultiplier(noise) = 0
      \/ BoundedMultiplier(noise) = AtLeast0(varied + counterRateOffset)
      \/ BoundedMultiplier(noise) = bounceBetweenZeroAndOne(gauge, E(Unit))
      \/ BoundedMultiplier(noise) = gauge
  BY DEF BoundedMultiplier
<1> QED
  BY <1>3, <1>5, <1>6, <1>7

LEMMA EmissionInt ==
    ASSUME NumbersInv, NEW noise \in NoiseRange
    PROVE  ApplyNumber(noise) \in Int
<1>1. E(template) \in Int
  BY DEF NumbersInv, E, Fine
<1>2. CurrentCount(noise) \in Int
  <2>1. /\ E(Unit * instance.base) \in Int /\ (3 * noise * E(Unit)) \div 2 \in Int
        /\ stableMultiplied(E(template)) \in Int
    BY <1>1, StableMultiplier DEF NumbersInv, E, Fine, Unit, NoiseRange
  <2>2. RoundTo((3 * noise * E(Unit)) \div 2, E(Unit)) \in Int
    BY <2>1, Rounds, QuantaRound
  <2> QED
    BY <2>1, <2>2 DEF CurrentCount, AtLeast0
<1>3. BoundedMultiplier(noise) \in Int
  BY BoundedInt
<1> QED
  BY <1>1, <1>2, <1>3, WriteInt DEF ApplyNumber

-----------------------------------------------------------------------------
(* The run                                                                   *)

LEMMA NumbersInit == ASSUME Init PROVE NumbersInv
<1>1. /\ kind \in Kinds /\ seed \in Int
      /\ instance \in [unit : 0 .. 1, base : {-2, 0, 2}]
      /\ template = seed /\ advances = 0 /\ wave = 0
      /\ emitted = 0 /\ emittedFor = 0 /\ phase = "advance"
      /\ kind.value = "int" => seed % Unit = 0
  BY NumbersAssumption DEF Init
<1>2. /\ quantum \in Quanta \cup {Unset}
      /\ kind.value = "int" => quantum = Unset
      /\ quantum # Unset => seed % quantum = 0
  BY DEF Init, Precisions, Unset
<1> QED
  BY <1>1, <1>2 DEF NumbersInv

LEMMA NumbersStep == ASSUME NumbersInv, [Next]_vars PROVE NumbersInv'
<1>1. CASE AdvanceDataPoint
  <2>1. /\ UNCHANGED <<kind, seed, quantum, instance, emitted, emittedFor>>
        /\ advances' = advances + 1 /\ phase' = "emit"
        /\ template' \in NextValues(template)
    BY <1>1 DEF AdvanceDataPoint, rigid
  <2>2. wave' \in Nat
    BY <1>1 DEF AdvanceDataPoint, NumbersInv
  <2>3. /\ template' \in Int
        /\ kind.value = "int" => template' % Unit = 0
        /\ quantum # Unset => template' % quantum = 0
    BY <2>1, NextOnGrid DEF NumbersInv
  <2>4. advances \in Nat /\ advances' \in Nat /\ advances' # 0
    BY <2>1 DEF NumbersInv
  <2> QED
    BY <2>1, <2>2, <2>3, <2>4 DEF NumbersInv
<1>2. CASE EmitForInstance
  <2>1. /\ UNCHANGED <<kind, seed, quantum, instance, template, advances, wave>>
        /\ emittedFor' = template /\ phase' = "advance"
    BY <1>2 DEF EmitForInstance, rigid
  <2>2. PICK noise \in NoiseRange : emitted' = ApplyNumber(noise)
    BY <1>2 DEF EmitForInstance, NoiseRange
  <2>3. emitted' \in Int
    BY <2>2, EmissionInt
  <2> QED
    BY <2>1, <2>3 DEF NumbersInv, Unit
<1>3. CASE UNCHANGED vars
  BY <1>3 DEF NumbersInv, vars, Unit
<1> QED
  BY <1>1, <1>2, <1>3 DEF Next, Ended

THEOREM NumbersCorrect == Spec => []NumbersInv
<1>1. Init => NumbersInv
  BY NumbersInit
<1>2. NumbersInv /\ [Next]_vars => NumbersInv'
  BY NumbersStep
<1> QED
  BY <1>1, <1>2, PTL DEF Spec

-----------------------------------------------------------------------------
(* Ratios                                                                    *)

IsRatio ==
    /\ kind.type = "gauge" /\ kind.hint \in {"none", "slow_gauge"}
    /\ kind.value = "double" \/ kind.hint = "slow_gauge"
    /\ InUnit(seed, Unit)

LEMMA AtLeastNat ==
    ASSUME NEW x \in Int
    PROVE  AtLeast0(x) \in Nat /\ AtLeast0(x) >= x /\ AtLeast0(x) \in Int
  BY DEF AtLeast0

LEMMA UnitRounds ==
    ASSUME NumbersInv, NEW x \in Int, InUnit(x, Unit)
    PROVE  /\ InUnit(roundToPrecision(x, quantum), Unit)
           /\ InUnit(AsInt(x), Unit)
<1>1. x \in 0 .. Unit /\ Unit \in Nat
  BY DEF InUnit, Unit
<1>2. quantum # Unset => quantum \in RoundingUnit /\ Unit % quantum = 0
  BY QuantaRound DEF NumbersInv, Quanta, Unit
<1>3. quantum # Unset => RoundTo(x, quantum) \in 0 .. Unit
  BY <1>1, <1>2, RoundsBelow
<1>4. RoundTo(x, Unit) \in 0 .. Unit
  <2>1. Unit % Unit = 0
    BY DEF Unit
  <2> QED
    BY <1>1, <2>1, QuantaRound, RoundsBelow
<1> QED
  BY <1>1, <1>3, <1>4 DEF roundToPrecision, AsInt, AtLeast0, InUnit

(* The walk of a ratio is reflected at 0 and 1, with or without a hint.      *)
LEMMA RatioAdvances ==
    ASSUME NumbersInv, IsRatio, InUnit(template, Unit),
           NEW x \in NextValues(template)
    PROVE  InUnit(x, Unit)
<1>1. template \in Int /\ kind.type = "gauge" /\ kind.value \in {"double", "int"}
  BY KindFields DEF NumbersInv, IsRatio
<1>2. CASE kind.hint = "slow_gauge"
  <2>1. ASSUME NEW y \in Advanced(template)
        PROVE  y \in Int /\ InUnit(y, Unit)
    <3>1. PICK g \in Noise : y = bounceBetweenZeroAndOne(Abs(template + g), Unit)
      BY <1>2, <2>1 DEF Advanced
    <3>2. Abs(template + g) \in Int
      BY <1>1, MedianInt DEF Abs
    <3> QED
      BY <3>1, <3>2, BounceInUnit
  <2>2. PICK y \in Advanced(template) :
            x \in {roundToPrecision(y, quantum), AsInt(y)}
    BY <1>2 DEF NextValues
  <2> QED
    BY <2>1, <2>2, UnitRounds
<1>3. CASE kind.hint = "none"
  <2>1. kind.value = "double"
    BY <1>3 DEF IsRatio
  <2>2. PICK g \in Noise : x = roundToPrecision(advanceDouble(template, g), quantum)
    BY <1>3, <2>1 DEF NextValues
  <2>3. advanceDouble(template, g) = bounceBetweenZeroAndOne(template + g, Unit)
    BY <1>1 DEF advanceDouble
  <2>4. template + g \in Int
    BY <1>1, MedianInt
  <2>5. /\ advanceDouble(template, g) \in Int
        /\ InUnit(advanceDouble(template, g), Unit)
    BY <2>3, <2>4, BounceInUnit
  <2> QED
    BY <2>2, <2>5, UnitRounds
<1> QED
  BY <1>2, <1>3 DEF IsRatio

(* The emission of a ratio is reflected as well, although the instance may   *)
(* double it (instance_variation.go:212-218).                                *)
LEMMA RatioEmits ==
    ASSUME NumbersInv, IsRatio, InUnit(template, Unit), NEW noise \in NoiseRange
    PROVE  InUnit(ApplyNumber(noise), E(Unit))
<1>1. Variation = "gauge" /\ ~isCumulativeMonotonicSum /\ template \in Int
  BY DEF IsRatio, Variation, NoVariation, isCumulativeMonotonicSum,
         isMonotonicSum, NumbersInv
<1>2. InUnit(0, E(Unit))
  BY DEF InUnit, E, Unit, Fine
<1>3. CASE template = 0
  BY <1>1, <1>2, <1>3 DEF ApplyNumber
<1>4. CASE template # 0
  <2> DEFINE gauge == AtLeast0(temporalMultiplied(
                          stableMultiplied(E(template)), noise, InUnit(template, Unit)))
  <2>1. gauge \in Int
    <3>1. E(template) \in Int /\ InUnit(template, Unit) \in BOOLEAN
      BY <1>1 DEF E, Fine, InUnit
    <3>2. stableMultiplied(E(template)) \in Int
      BY <3>1, StableMultiplier
    <3>3. temporalMultiplied(stableMultiplied(E(template)), noise,
                             InUnit(template, Unit)) \in Int
      BY <3>1, <3>2, TemporalMultiplier
    <3> QED
      BY <3>3, AtLeastNat
  <2>2. BoundedMultiplier(noise) = bounceBetweenZeroAndOne(gauge, E(Unit))
    BY <1>1, <1>4 DEF BoundedMultiplier
  <2> HIDE DEF gauge
  <2>3. /\ BoundedMultiplier(noise) \in Int
        /\ InUnit(BoundedMultiplier(noise), E(Unit))
    BY <2>1, <2>2, BounceInUnit
  <2>4. ApplyNumber(noise) = Written(BoundedMultiplier(noise))
    BY <1>1, <1>4 DEF ApplyNumber
  <2> QED
    BY <2>3, <2>4, WriteInt
<1> QED
  BY <1>3, <1>4

(* A ratio is never moved out of [0, 1] (distribution.go:79-80, 128;         *)
(* instance_variation.go:216).                                               *)
THEOREM RatiosReflected == Spec => []RatiosStayRatios
<1>1. Init => RatiosStayRatios
  BY DEF Init, RatiosStayRatios, InUnit, E, Unit, Fine
<1>2. ASSUME NumbersInv, RatiosStayRatios, [Next]_vars
      PROVE  RatiosStayRatios'
  <2>1. IsRatio => InUnit(template, Unit) /\ InUnit(emitted, E(Unit))
    BY <1>2 DEF RatiosStayRatios, IsRatio
  <2>2. SUFFICES ASSUME IsRatio'
                 PROVE  (InUnit(template, Unit) /\ InUnit(emitted, E(Unit)))'
    BY DEF RatiosStayRatios, IsRatio
  <2>3. CASE AdvanceDataPoint
    <3>1. /\ UNCHANGED <<kind, seed, emitted>>
          /\ template' \in NextValues(template)
      BY <2>3 DEF AdvanceDataPoint, rigid
    <3>2. IsRatio
      BY <2>2, <3>1 DEF IsRatio
    <3>3. InUnit(template', Unit) /\ InUnit(emitted', E(Unit))
      BY <1>2, <2>1, <3>1, <3>2, RatioAdvances
    <3> QED
      BY <3>3 DEF InUnit, E
  <2>4. CASE EmitForInstance
    <3>1. UNCHANGED <<kind, seed, template>>
      BY <2>4 DEF EmitForInstance, rigid
    <3>2. PICK noise \in NoiseRange : emitted' = ApplyNumber(noise)
      BY <2>4 DEF EmitForInstance, NoiseRange
    <3>3. IsRatio
      BY <2>2, <3>1 DEF IsRatio
    <3>4. InUnit(template', Unit) /\ InUnit(emitted', E(Unit))
      BY <1>2, <2>1, <3>1, <3>2, <3>3, RatioEmits
    <3> QED
      BY <3>4 DEF InUnit, E
  <2>5. CASE UNCHANGED vars
    BY <2>1, <2>2, <2>5 DEF vars, IsRatio, InUnit, E
  <2> QED
    BY <1>2, <2>3, <2>4, <2>5 DEF Next, Ended
<1> QED
  BY <1>1, <1>2, NumbersCorrect, PTL DEF Spec

-----------------------------------------------------------------------------
(* Gauges above 1                                                            *)

LEMMA EmitsAboveOne ==
    ASSUME NumbersInv, Variation = "gauge", kind.type = "gauge",
           template > Unit, NEW noise \in NoiseRange
    PROVE  ApplyNumber(noise) >= E(Unit)
<1>1. PICK one \in Nat : one = E(Unit)
  BY DEF E, Fine, Unit
<1>2. /\ template \in Int /\ template # 0 /\ InUnit(template, Unit) = FALSE
      /\ E(template) \in Int /\ E(template) >= one /\ E(template) >= 0
      /\ ~isCumulativeMonotonicSum
  BY <1>1 DEF NumbersInv, InUnit, E, Fine, Unit, isCumulativeMonotonicSum,
              isMonotonicSum
<1> DEFINE x == stableMultiplied(E(template))
           y == temporalMultiplied(x, noise, FALSE)
<1>3. x \in Int /\ x >= E(template)
  BY <1>2, StableMultiplier
<1>4. x >= one /\ x >= 0
  BY <1>2, <1>3
<1>5. y \in Int /\ y >= x
  BY <1>3, <1>4, TemporalMultiplier
<1>6. BoundedMultiplier(noise) = AtLeast0(y)
  BY <1>2 DEF BoundedMultiplier
<1> HIDE DEF x, y
<1>7. AtLeast0(y) \in Int /\ AtLeast0(y) >= y
  BY <1>5, AtLeastNat
<1>8. AtLeast0(y) >= one
  BY <1>3, <1>4, <1>5, <1>7
<1>9. ApplyNumber(noise) = Written(AtLeast0(y))
  BY <1>2, <1>6 DEF ApplyNumber
<1> QED
  BY <1>1, <1>7, <1>8, <1>9, WriteInt

(* No instance ever reports a gauge above 1 as a ratio                       *)
(* (instance_variation.go:243-244).                                          *)
THEOREM AboveOneKept == Spec => []GaugesKeptAboveOne
<1>1. Init => GaugesKeptAboveOne
  BY DEF Init, GaugesKeptAboveOne, Unit
<1>2. ASSUME NumbersInv, GaugesKeptAboveOne, [Next]_vars
      PROVE  GaugesKeptAboveOne'
  <2>1. CASE AdvanceDataPoint
    BY <1>2, <2>1
       DEF AdvanceDataPoint, rigid, GaugesKeptAboveOne, Variation, E
  <2>2. CASE EmitForInstance
    <3>1. UNCHANGED kind /\ emittedFor' = template
      BY <2>2 DEF EmitForInstance, rigid
    <3>2. PICK noise \in NoiseRange : emitted' = ApplyNumber(noise)
      BY <2>2 DEF EmitForInstance, NoiseRange
    <3>3. Variation = "gauge" /\ kind.type = "gauge" /\ template > Unit
            => emitted' >= E(Unit)
      BY <1>2, <3>2, EmitsAboveOne
    <3> QED
      BY <3>1, <3>3 DEF GaugesKeptAboveOne, Variation, E
  <2>3. CASE UNCHANGED vars
    BY <1>2, <2>3 DEF vars, GaugesKeptAboveOne, Variation, E
  <2> QED
    BY <1>2, <2>1, <2>2, <2>3 DEF Next, Ended
<1> QED
  BY <1>1, <1>2, NumbersCorrect, PTL DEF Spec

-----------------------------------------------------------------------------
(* Binary series                                                             *)

(* The binary of a number: 1 from a half on.                                 *)
LEMMA BinaryRounds ==
    ASSUME NEW v \in Int
    PROVE  RoundTo(v, Unit) <= 0 <=> ~(2 * v >= Unit)
  BY DEF RoundTo, Abs, Unit

LEMMA BinaryKept ==
    ASSUME NumbersInv, NEW x \in {0, Unit}
    PROVE  roundToPrecision(x, quantum) = x /\ AsInt(x) = x
<1>1. x \in Nat /\ x % Unit = 0
  BY DEF Unit
<1>2. quantum # Unset => quantum \in RoundingUnit /\ x % quantum = 0
  BY QuantaRound DEF NumbersInv, Quanta, Unit
<1> QED
  BY <1>1, <1>2, Rounds, QuantaRound DEF roundToPrecision, AsInt, AtLeast0

LEMMA BinaryAdvances ==
    ASSUME NumbersInv, kind.hint = "stable_binary", NEW v \in Int,
           NEW x \in NextValues(v)
    PROVE  x = IF 2 * v >= Unit THEN Unit ELSE 0
<1>1. PICK y \in Advanced(v) : x \in {roundToPrecision(y, quantum), AsInt(y)}
  BY DEF NextValues
<1>2. y = IF 2 * v >= Unit THEN Unit ELSE 0
  BY <1>1, BinaryRounds DEF Advanced
<1>3. y \in {0, Unit}
  BY <1>2
<1> QED
  BY <1>1, <1>2, <1>3, BinaryKept

(* A binary series keeps the side it was written on                          *)
(* (generation_hints.go:29).                                                 *)
THEOREM BinaryNeverFlips == Spec => []StableBinaryNeverFlips
<1>1. Init => StableBinaryNeverFlips
  BY DEF Init, StableBinaryNeverFlips
<1>2. ASSUME NumbersInv, StableBinaryNeverFlips, [Next]_vars
      PROVE  StableBinaryNeverFlips'
  <2>1. /\ template \in Int /\ seed \in Int /\ advances \in Nat
        /\ advances = 0 => template = seed
    BY <1>2 DEF NumbersInv
  <2>2. CASE AdvanceDataPoint
    <3>1. /\ UNCHANGED <<kind, seed>> /\ phase' = "emit"
          /\ template' \in NextValues(template)
      BY <2>2 DEF AdvanceDataPoint, rigid
    <3>2. SUFFICES ASSUME kind.hint = "stable_binary"
                   PROVE  /\ template' \in {0, Unit}
                          /\ template' = Unit <=> 2 * seed >= Unit
      BY <3>1 DEF StableBinaryNeverFlips, Unit
    <3>3. template' = IF 2 * template >= Unit THEN Unit ELSE 0
      BY <1>2, <2>1, <3>1, <3>2, BinaryAdvances
    <3>4. 2 * template >= Unit <=> 2 * seed >= Unit
      BY <1>2, <2>1, <3>2 DEF StableBinaryNeverFlips, Unit
    <3> QED
      BY <3>3, <3>4 DEF Unit
  <2>3. CASE EmitForInstance
    <3>1. UNCHANGED <<kind, seed, template, advances>>
      BY <2>3 DEF EmitForInstance, rigid
    <3>2. kind.hint = "stable_binary" => emitted' = E(template)
      BY <2>3 DEF EmitForInstance, ApplyNumber, Variation, NoVariation
    <3> QED
      BY <1>2, <3>1, <3>2 DEF StableBinaryNeverFlips, E, Unit
  <2>4. CASE UNCHANGED vars
    BY <1>2, <2>4 DEF vars, StableBinaryNeverFlips, E, Unit
  <2> QED
    BY <1>2, <2>2, <2>3, <2>4 DEF Next, Ended
<1> QED
  BY <1>1, <1>2, NumbersCorrect, PTL DEF Spec

-----------------------------------------------------------------------------
(* Counters                                                                  *)

IsCounter ==
    /\ isCumulativeMonotonicSum /\ seed >= 0
    /\ kind.hint \in {"none", "sparse_counter", "steady_counter"}

(* The increment of a counter, a Gaussian step around the median, is not     *)
(* negative: with the defaults, a median of 100 and a deviation of 1, this   *)
(* excludes only steps of more than a hundred deviations.                    *)
MedianCovers == \A g \in Noise : g + Median >= 0

(* The value a counter moves to before it is written.                        *)
LEMMA CounterMoves ==
    ASSUME NumbersInv, MedianCovers, IsCounter, template >= 0
    PROVE  /\ kind.hint # "none" =>
                \A y \in Advanced(template) : y \in Int /\ y >= template
           /\ \A g \in Noise : advanceFloat(template, g) >= template
           /\ ~isDelta /\ isMonotonicSum /\ template \in Int
<1>1. ~isDelta /\ isMonotonicSum /\ template \in Int
  BY DEF IsCounter, isCumulativeMonotonicSum, isDelta, NumbersInv
<1>2. ASSUME NEW g \in Noise
      PROVE  advanceFloat(template, g) >= template
  <2>1. g \in Int /\ g + Median \in Int /\ g + Median >= 0
    BY MedianInt DEF MedianCovers
  <2> QED
    BY <1>1, <2>1 DEF advanceFloat, Abs
<1>3. ASSUME NEW y \in Advanced(template), kind.hint = "sparse_counter"
      PROVE  y \in Int /\ y >= template
  <2>1. PICK delta \in {0} \cup {IF g = 0 THEN Unit ELSE Abs(g) : g \in Noise} :
            y = applyCounterDelta(template, delta)
    BY <1>3 DEF Advanced
  <2>2. delta \in Nat
    BY MedianInt DEF Abs, Unit
  <2> QED
    BY <1>1, <2>1, <2>2 DEF applyCounterDelta
<1>4. ASSUME NEW y \in Advanced(template), kind.hint = "steady_counter"
      PROVE  y \in Int /\ y >= template
  <2>1. PICK g \in Noise : y = applyCounterDelta(template, Abs(g + Median))
    BY <1>4 DEF Advanced
  <2>2. Abs(g + Median) \in Nat
    BY MedianInt DEF Abs
  <2> QED
    BY <1>1, <2>1, <2>2 DEF applyCounterDelta
<1> QED
  BY <1>1, <1>2, <1>3, <1>4 DEF IsCounter

(* Writing a value that is not below the template does not go below it       *)
(* either: the template is a multiple of what is rounded to.                 *)
LEMMA WritesAbove ==
    ASSUME NumbersInv, template >= 0, NEW x \in Int, x >= template
    PROVE  /\ roundToPrecision(x, quantum) >= template
           /\ kind.value = "int" => AsInt(x) >= template
<1>1. template \in Nat
  BY DEF NumbersInv
<1>2. quantum # Unset => quantum \in RoundingUnit /\ template % quantum = 0
  BY QuantaRound DEF NumbersInv
<1>3. kind.value = "int" => RoundTo(x, Unit) >= template
  BY <1>1, QuantaRound, RoundsAbove DEF NumbersInv
<1>4. RoundTo(x, Unit) \in Int
  BY QuantaRound, Rounds
<1> QED
  BY <1>1, <1>2, <1>3, <1>4, RoundsAbove DEF roundToPrecision, AsInt, AtLeast0

LEMMA CounterAdvances ==
    ASSUME NumbersInv, MedianCovers, IsCounter, template >= 0,
           NEW x \in NextValues(template)
    PROVE  x >= template
<1>1. kind.type = "sum" /\ kind.value \in {"double", "int"} /\ template \in Int
  BY KindFields
     DEF IsCounter, isCumulativeMonotonicSum, isMonotonicSum, NumbersInv
<1>2. CASE kind.hint # "none"
  <2>1. PICK y \in Advanced(template) :
            \/ x = roundToPrecision(y, quantum)
            \/ kind.value = "int" /\ x = AsInt(y)
    BY <1>1, <1>2 DEF NextValues
  <2>2. y \in Int /\ y >= template
    BY <1>2, <2>1, CounterMoves
  <2> QED
    BY <2>1, <2>2, WritesAbove
<1>3. CASE kind.hint = "none" /\ kind.value = "double"
  <2>1. PICK g \in Noise :
            x = roundToPrecision(advanceDouble(template, g), quantum)
    BY <1>3 DEF NextValues
  <2>2. advanceDouble(template, g) = advanceFloat(template, g)
    BY <1>1 DEF advanceDouble
  <2>3. /\ advanceFloat(template, g) \in Int
        /\ advanceFloat(template, g) >= template
    BY <1>1, FloatInt, CounterMoves
  <2> QED
    BY <2>1, <2>2, <2>3, WritesAbove
<1>4. CASE kind.hint = "none" /\ kind.value = "int"
  <2>1. PICK g \in Noise : x \in advanceInt(template, g)
    BY <1>4 DEF NextValues
  <2>2. PICK y \in Int : y = advanceFloat(template, g) /\ y >= template
    BY <1>1, FloatInt, CounterMoves
  <2>3. LET floor == Unit * (y \div Unit)
        IN  x \in IF floor = y THEN {y} ELSE {floor, floor + Unit}
    BY <2>1, <2>2 DEF advanceInt
  <2>4. template % Unit = 0
    BY <1>4 DEF NumbersInv
  <2> QED
    BY <1>1, <2>2, <2>3, <2>4 DEF Unit
<1> QED
  BY <1>1, <1>2, <1>3, <1>4

(* What an instance emits for a counter at value v and wave w: nothing of    *)
(* the noise, and in the order of v and w.                                   *)
CounterEmission(v, w) ==
    IF v = 0 THEN 0
    ELSE Written(AtLeast0(stableMultiplied(E(v)) + RateOffset(w)))

LEMMA CounterEmits ==
    ASSUME NumbersInv, IsCounter, NEW noise \in NoiseRange
    PROVE  ApplyNumber(noise) = CounterEmission(template, wave)
<1>1. Variation = "counter"
  BY DEF IsCounter, Variation, NoVariation, isCumulativeMonotonicSum,
         isMonotonicSum
<1>2. counterRateOffset = RateOffset(wave)
  BY DEF counterRateOffset, RateOffset
<1> QED
  BY <1>1, <1>2
     DEF ApplyNumber, BoundedMultiplier, CounterEmission, IsCounter

LEMMA CounterEmissionGrows ==
    ASSUME NumbersInv, NEW u \in Nat, NEW v \in Int, u <= v,
           NEW y \in Nat, NEW z \in Nat, y <= z
    PROVE  /\ CounterEmission(u, y) \in Int /\ CounterEmission(u, y) >= 0
           /\ CounterEmission(u, y) <= CounterEmission(v, z)
<1>1. E(u) \in Nat /\ E(v) \in Nat /\ E(u) <= E(v)
  BY DEF E, Fine
<1>2. PICK a \in Nat, b \in Nat :
          a = stableMultiplied(E(u)) /\ b = stableMultiplied(E(v)) /\ a <= b
  BY <1>1, StableMultiplier
<1>3. PICK c \in Nat, d \in Nat :
          c = RateOffset(y) /\ d = RateOffset(z) /\ c <= d
  BY RateOffsetGrows
<1>4. AtLeast0(a + c) = a + c /\ AtLeast0(b + d) = b + d
  BY DEF AtLeast0
<1>5. a + c \in Int /\ b + d \in Int /\ 0 <= a + c /\ a + c <= b + d /\ 0 <= b + d
  BY <1>2, <1>3
<1>6. /\ Written(a + c) \in Int /\ Written(a + c) >= 0
      /\ Written(b + d) \in Int /\ Written(b + d) >= 0
      /\ Written(a + c) <= Written(b + d)
  BY <1>5, WriteInt
<1>7. /\ CounterEmission(u, y) = IF u = 0 THEN 0 ELSE Written(a + c)
      /\ CounterEmission(v, z) = IF v = 0 THEN 0 ELSE Written(b + d)
  BY <1>2, <1>3, <1>4 DEF CounterEmission
<1> QED
  BY <1>6, <1>7

(* The inductive invariant: the last emission is not above the next one.     *)
CounterInv ==
    IsCounter => template >= 0 /\ emitted <= CounterEmission(template, wave)

LEMMA CounterStep ==
    ASSUME NumbersInv, MedianCovers, CounterInv, IsCounter, [Next]_vars
    PROVE  /\ template' >= template /\ emitted' >= emitted
           /\ CounterInv'
<1>1. /\ template \in Nat /\ wave \in Nat /\ emitted \in Int
      /\ emitted <= CounterEmission(template, wave)
  BY DEF NumbersInv, CounterInv
<1>2. CASE AdvanceDataPoint
  <2>1. /\ UNCHANGED <<kind, seed, quantum, instance, emitted>>
        /\ template' \in NextValues(template)
    BY <1>2 DEF AdvanceDataPoint, rigid
  <2>2. wave' \in Nat /\ wave <= wave'
    BY <1>1, <1>2 DEF AdvanceDataPoint, NumbersInv
  <2>3. template' \in Int /\ template <= template'
    BY <1>1, <2>1, NextOnGrid, CounterAdvances
  <2>4. /\ CounterEmission(template, wave) \in Int
        /\ CounterEmission(template, wave) <= CounterEmission(template', wave')
        /\ CounterEmission(template', wave') \in Int
    BY <1>1, <2>2, <2>3, CounterEmissionGrows
  <2>5. emitted <= CounterEmission(template', wave')
    BY <1>1, <2>4
  <2>6. CounterInv'
    BY <1>1, <2>1, <2>3, <2>5
       DEF CounterInv, CounterEmission, Written, stableMultiplied, Variation,
           RateOffset
  <2> QED
    BY <1>1, <2>1, <2>3, <2>6
<1>3. CASE EmitForInstance
  <2>1. UNCHANGED <<kind, seed, quantum, instance, template, wave>>
    BY <1>3 DEF EmitForInstance, rigid
  <2>2. PICK noise \in NoiseRange : emitted' = ApplyNumber(noise)
    BY <1>3 DEF EmitForInstance, NoiseRange
  <2>3. emitted' = CounterEmission(template, wave)
    BY <2>2, CounterEmits
  <2>4. CounterEmission(template, wave) \in Int
    BY <1>1, CounterEmissionGrows
  <2>5. emitted' <= CounterEmission(template, wave)
    BY <2>3, <2>4
  <2>6. CounterInv'
    BY <1>1, <2>1, <2>5
       DEF CounterInv, CounterEmission, Written, stableMultiplied, Variation,
           RateOffset
  <2> QED
    BY <1>1, <2>1, <2>3, <2>6
<1>4. CASE UNCHANGED vars
  <2>1. UNCHANGED <<kind, seed, quantum, instance, template, wave, emitted>>
    BY <1>4 DEF vars
  <2>2. CounterInv'
    BY <1>1, <2>1
       DEF CounterInv, CounterEmission, Written, stableMultiplied, Variation,
           RateOffset
  <2> QED
    BY <1>1, <2>1, <2>2
<1> QED
  BY <1>2, <1>3, <1>4 DEF Next, Ended

LEMMA CounterRigid ==
    ASSUME [Next]_vars, ~IsCounter
    PROVE  CounterInv'
<1>1. UNCHANGED <<kind, seed>>
  BY DEF Next, AdvanceDataPoint, EmitForInstance, Ended, vars, rigid
<1>2. ~IsCounter'
  BY <1>1 DEF IsCounter, isCumulativeMonotonicSum, isMonotonicSum
<1> QED
  BY <1>2 DEF CounterInv

LEMMA CounterInit ==
    ASSUME Init
    PROVE  CounterInv
<1>1. NumbersInv /\ template = seed /\ emitted = 0 /\ wave \in Nat
  BY NumbersInit DEF Init
<1> QED
  BY <1>1, CounterEmissionGrows DEF CounterInv, IsCounter, NumbersInv

(* Neither the template nor what an instance emits of a counter ever goes    *)
(* back (receiver.go:353-354; instance_variation.go:205-209, 287-288).       *)
THEOREM CountersGrow ==
    ASSUME MedianCovers
    PROVE  Spec => CountersNeverDecrease
<1> DEFINE Growing ==
        isCumulativeMonotonicSum /\ seed >= 0 /\ kind.hint \in {"none", "sparse_counter", "steady_counter"}
          => template' >= template /\ emitted' >= emitted
<1>1. NumbersInv /\ CounterInv /\ [Next]_vars => CounterInv'
  BY CounterStep, CounterRigid
<1>2. NumbersInv /\ CounterInv /\ [Next]_vars => [Growing]_vars
  BY CounterStep DEF IsCounter
<1>3. Init => CounterInv
  BY CounterInit
<1>4. CountersNeverDecrease <=> [][Growing]_vars
  BY DEF CountersNeverDecrease
<1> QED
  BY <1>1, <1>2, <1>3, <1>4, NumbersCorrect, PTL DEF Spec

=============================================================================
