----------------------------- MODULE Histograms -----------------------------
(***************************************************************************)
(* One series of histograms: the data point of the template, which          *)
(* AdvanceDataPoint moves once per interval, and what one instance emits.   *)
(* A delta exponential histogram is generated anew, a cumulative one is     *)
(* merged with a generated one (internal/expohistogen); its emission scales *)
(* each bucket by a factor that hashes the bucket's index.  An explicit     *)
(* histogram walks, in the template and once more in each emission.         *)
(*                                                                         *)
(* Buckets are a function from the indices in use to their counts.  At      *)
(* scale s an octave has 2^s buckets; those of MaxScale are the positions   *)
(* in which values are measured.  Sums and the zero threshold are left out. *)
(***************************************************************************)
EXTENDS Integers, FiniteSets, Bags, Functions

CONSTANTS
    Kinds,          \* what the metric is: "explicit", "delta", "cumulative"
    Samples,        \* the loaded samples: [scale, zero, pos, neg]
    Instances,      \* [pos, neg]: per bucket index an instance's factor in tenths
    Explicit,       \* bucket counts of explicit histograms as written
    Noise,          \* NormFloat64() times the standard deviation
    MaxScale,       \* 20, of go-expohisto
    MaxSize,        \* cumulativeMaxSize
    Base,           \* no position is below -Base
    Lowered,        \* <<index, scale>>: midpoints that math.Exp2 rounds down
    NumIntervals    \* length of a run

(* The counts of the buckets in use, none of which is empty.                *)
Populated(b) ==
    IsFiniteSet(DOMAIN b) /\ DOMAIN b \subseteq Int /\ b \in [DOMAIN b -> Nat \ {0}]

ASSUME SamplesAssumption ==
    \A s \in Samples :
        /\ s.scale \in 0 .. MaxScale /\ s.zero \in Nat
        /\ Populated(s.pos) /\ Populated(s.neg)
ASSUME ExplicitAssumption ==
    /\ \A b \in Explicit : IsFiniteSet(DOMAIN b) /\ b \in [DOMAIN b -> Nat]
    /\ \A g \in Noise : g \in Int
ASSUME NumbersAssumption ==
    MaxScale \in Nat /\ Base \in Nat /\ NumIntervals \in Nat
(* As 320 is: half of a span that is too large is then at least MaxSize / 2. *)
ASSUME SizeAssumption == MaxSize \in Nat \ {0} /\ MaxSize % 2 = 0

VARIABLES
    kind, instance, \* the metric, and the hashes of the instance
    template,       \* the data point of the template
    intervals,      \* how often it was advanced
    observed,       \* history: the observations generated into it
    values,         \* history: the least and greatest value among them
    emitted,        \* the last emission of the instance
    phase           \* "construct", "advance" or "emit"

vars == <<kind, instance, template, intervals, observed, values, emitted, phase>>

Lowest(b) == CHOOSE i \in DOMAIN b : \A j \in DOMAIN b : i <= j
Highest(b) == CHOOSE i \in DOMAIN b : \A j \in DOMAIN b : i >= j

(* The counts of b summed over the indices that f maps to the same index.   *)
Regrouped(b, f) ==
    [j \in Range(f) |-> SumFunctionOnSet(b, {i \in DOMAIN b : f[i] = j})]

Pow2[n \in Nat] == IF n = 0 THEN 1 ELSE 2 * Pow2[n - 1]

(* The functions with f[i] \in S[i].                                        *)
EachOf(S) == {f \in [DOMAIN S -> UNION Range(S)] : \A i \in DOMAIN S : f[i] \in S[i]}

(* min and max of a data point: set together or not at all.                 *)
Unset == <<>>
Hull(e, f) ==
    IF e = Unset THEN f ELSE IF f = Unset THEN e
    ELSE <<IF e[1] < f[1] THEN e[1] ELSE f[1], IF e[2] > f[2] THEN e[2] ELSE f[2]>>

InBuckets(h) == SumFunction(h.pos) + SumFunction(h.neg)
Total(h) == InBuckets(h) + h.zero

Histogram(b) ==
    [scale |-> 0, zero |-> 0, pos |-> b, neg |-> EmptyBag,
     count |-> SumFunction(b), range |-> Unset]

-----------------------------------------------------------------------------
(* Generation                                                               *)

Adjusted(c) == (4 * c + 5) \div 10 .. (16 * c + 5) \div 10

(* The counts that are left, each where it is moved to.                     *)
Shifted(n, d) ==
    LET kept == {i \in DOMAIN n : n[i] > 0}
    IN  Regrouped(Restrict(n, kept), [i \in kept |-> i + d[i]])

(* Each count is scaled by 0.4 to 1.6, rounded, and kept or moved by one.   *)
Shaken(b) ==
    {Shifted(n, d) :
       n \in EachOf([i \in DOMAIN b |-> Adjusted(b[i])]), d \in [DOMAIN b -> -1 .. 1]}

randomizeBuckets_Once(b) == Shaken(b)    \* mutant: no second try
(* Tried again until a bucket is left.                                      *)
randomizeBuckets(b) == IF b = EmptyBag THEN {b} ELSE Shaken(b) \ {EmptyBag}

(* The magnitudes of values in bucket i of scale s.                         *)
Magnitudes(i, s) ==
    LET width == Pow2[MaxScale - s]
    IN  (Base + i * width) .. (Base + (i + 1) * width - 1)

(* Least and greatest of one magnitude drawn per populated bucket.          *)
randomizedBucketSummary(b, s) ==
    IF b = EmptyBag THEN {Unset}
    ELSE {e \in Magnitudes(Lowest(b), s) \X Magnitudes(Highest(b), s) :
            Lowest(b) = Highest(b) => e[1] = e[2]}

(* The range of both sides together.                                        *)
RangeOf(pos, neg) == Hull(pos, IF neg = Unset THEN Unset ELSE <<-neg[2], -neg[1]>>)

(* What GenerateInto may write: the count leaves out the zero bucket.       *)
Generated ==
    UNION {UNION {{[scale |-> s.scale, zero |-> s.zero, pos |-> p, neg |-> n,
                    count |-> SumFunction(p) + SumFunction(n), range |-> RangeOf(e, f)] :
                     e \in randomizedBucketSummary(p, s.scale),
                     f \in randomizedBucketSummary(n, s.scale)} :
                   p \in randomizeBuckets(s.pos), n \in randomizeBuckets(s.neg)} :
           s \in Samples}

-----------------------------------------------------------------------------
(* Merge                                                                    *)

bucketMidpoint_NoScale(i, s) == i    \* mutant: the scale is not applied
(* The position of the midpoint of bucket i of scale s.  It is a boundary at *)
(* every finer scale, and a float: on either side of it, but always on the   *)
(* same.  At MaxScale no boundary is near.                                   *)
bucketMidpoint(i, s) ==
    IF s = MaxScale THEN i
    ELSE (2 * i + 1) * Pow2[MaxScale - s - 1] - IF <<i, s>> \in Lowered THEN 1 ELSE 0

(* Mutant: the loop over the buckets ends one early.                        *)
Replayed_DropsLast(b, s) ==
    LET c == Restrict(b, {i \in DOMAIN b : \E j \in DOMAIN b : i < j})
    IN  Regrouped(c, [i \in DOMAIN c |-> bucketMidpoint(i, s)])
Replayed(b, s) == Regrouped(b, [i \in DOMAIN b |-> bucketMidpoint(i, s)])

(* go-expohisto: both sides at the finest scale at which they fit.          *)
AtScale(b, s) == Regrouped(b, [p \in DOMAIN b |-> p \div Pow2[MaxScale - s]])
Fits(b, s) ==
    b = EmptyBag \/ LET c == AtScale(b, s) IN Highest(c) - Lowest(c) < MaxSize
FinestScale(pos, neg) ==
    IF pos = EmptyBag /\ neg = EmptyBag THEN 0
    ELSE CHOOSE s \in 0 .. MaxScale :
            /\ Fits(pos, s) /\ Fits(neg, s)
            /\ \A t \in s + 1 .. MaxScale : ~(Fits(pos, t) /\ Fits(neg, t))

(* Both histograms are replayed into one accumulator, and min and max taken *)
(* from what they were before, unless nothing but zeros was there.          *)
MergedRange_Latest(h, d) ==    \* mutant: those of the delta replace them
    IF d.range = Unset THEN h.range ELSE d.range
MergedRange(h, d) ==
    IF h.count = 0
    THEN IF d.range = Unset /\ h.zero + d.zero > 0 THEN <<0, 0>> ELSE d.range
    ELSE Hull(h.range, d.range)

MergeInto(h, d) ==
    LET pos == Replayed(h.pos, h.scale) (+) Replayed(d.pos, d.scale)
        neg == Replayed(h.neg, h.scale) (+) Replayed(d.neg, d.scale)
        s == FinestScale(pos, neg)
        zero == h.zero + d.zero
    IN  [scale |-> s, zero |-> zero, pos |-> AtScale(pos, s), neg |-> AtScale(neg, s),
         count |-> SumFunction(pos) + SumFunction(neg) + zero,
         range |-> MergedRange(h, d)]

-----------------------------------------------------------------------------
(* Variation for an instance                                                *)

(* Mutant: the factor of the place in the slice, not of the bucket.         *)
varyBucketCounts_BySlice(b, factor) ==
    [i \in DOMAIN b |->
        LET c == (b[i] * factor[i - Lowest(b)] + 5) \div 10 IN IF c < 1 THEN 1 ELSE c]
(* Populated buckets stay populated.                                        *)
varyBucketCounts(b, factor) ==
    [i \in DOMAIN b |->
        LET c == (b[i] * factor[i] + 5) \div 10 IN IF c < 1 THEN 1 ELSE c]

ApplyExponentialHistogramVariation(h, identity) ==
    LET pos == varyBucketCounts(h.pos, identity.pos)
        neg == varyBucketCounts(h.neg, identity.neg)
    IN  [h EXCEPT !.pos = pos, !.neg = neg,
                  !.count = SumFunction(pos) + SumFunction(neg) + h.zero]

(* Explicit buckets take a step of their own each, mirrored at 0.           *)
Stepped(c) == {IF c + g < 0 THEN -(c + g) ELSE c + g : g \in Noise}
Walked(h) ==
    {Histogram(b) : b \in EachOf([i \in DOMAIN h.pos |-> Stepped(h.pos[i])])}

-----------------------------------------------------------------------------
Init ==
    /\ kind \in Kinds /\ instance \in Instances
    /\ IF kind = "explicit"
       THEN template \in {Histogram(b) : b \in Explicit} /\ phase = "advance"
       ELSE template = Histogram(EmptyBag) /\ phase = "construct"
    /\ intervals = 0 /\ observed = Total(template) /\ values = Unset
    /\ emitted = template

(* Start of the scenario: an exponential histogram is generated.            *)
Construct ==
    /\ phase = "construct" /\ phase' = "advance"
    /\ template' \in Generated
    /\ observed' = Total(template') /\ values' = template'.range
    /\ UNCHANGED <<kind, instance, intervals, emitted>>

AdvanceDataPoint ==
    /\ phase = "advance" /\ intervals < NumIntervals
    /\ intervals' = intervals + 1 /\ phase' = "emit"
    /\ \/ kind = "explicit" /\ template' \in Walked(template)
          /\ observed' = Total(template') /\ UNCHANGED values
       \/ kind = "delta" /\ template' \in Generated
          /\ observed' = Total(template') /\ values' = template'.range
       \/ /\ kind = "cumulative"
          /\ \E d \in Generated :
                /\ template' = MergeInto(template, d)
                /\ observed' = observed + Total(d)
                /\ values' = Hull(values, d.range)
    /\ UNCHANGED <<kind, instance, emitted>>

(* The instance works on a copy of the template.                            *)
EmitForInstance ==
    /\ phase = "emit" /\ phase' = "advance"
    /\ IF kind = "explicit" THEN emitted' \in Walked(template)
       ELSE emitted' = ApplyExponentialHistogramVariation(template, instance)
    /\ UNCHANGED <<kind, instance, template, intervals, observed, values>>

Ended == phase = "advance" /\ intervals >= NumIntervals /\ UNCHANGED vars

Next == Construct \/ AdvanceDataPoint \/ EmitForInstance \/ Ended

Spec == Init /\ [][Next]_vars
-----------------------------------------------------------------------------
(* Properties                                                               *)

(* No observation is lost or counted twice by generating, replaying at      *)
(* another scale and merging, although the count of a generated histogram   *)
(* leaves out its zero bucket (expohistogen.go:65) and a merge replaces the *)
(* count; and what is emitted counts its own buckets, zero bucket included  *)
(* (expohistogen_test.go:307, instance_variation_test.go:506).              *)
ObservationsConserved ==
    /\ Total(template) = observed
    /\ template.count \in {Total(template), InBuckets(template)}
    /\ intervals > 0 /\ phase = "advance" => emitted.count = Total(emitted)

(* A generated or merged histogram is never empty for an instance           *)
(* (expohistogen.go:237: "Will never return empty buckets if the input is   *)
(* non-empty"; instance_variation.go:372-373).                              *)
NeverEmpty ==
    kind # "explicit" /\ intervals > 0 /\ phase = "advance" => emitted.count > 0

(* The min and max of a cumulative histogram are those of all values        *)
(* generated for it, or 0 if it has zeros, and not of the midpoints that    *)
(* are replayed (expohistogen.go:89-90); the instance keeps them.           *)
RangeIsExact ==
    kind # "explicit" /\ phase # "construct" =>
        /\ IF values = Unset
           THEN template.range \in {Unset, <<0, 0>>}
           ELSE template.range \in {values} \cup
                    IF template.zero > 0 THEN {Hull(values, <<0, 0>>)} ELSE {}
        /\ intervals > 0 /\ phase = "advance" => emitted.range = template.range

(* The counts of b, of scale s, by the buckets of a coarser scale t.        *)
Coarser(b, s, t) == Regrouped(b, [i \in DOMAIN b |-> i \div Pow2[s - t]])

(* A merge replays every bucket through one value, a boundary of all finer  *)
(* scales that floating point puts on either side (expohistogen.go:164-168). *)
(* The scale may come back up for that, by one and no more; and at the      *)
(* coarser of both scales no observation has left its bucket, wherever the  *)
(* values fall and whatever is merged.                                      *)
BucketsStayInPlace ==
    [][kind = "cumulative" /\ intervals > 0 /\ phase = "advance" /\ intervals' # intervals =>
        /\ template.pos # EmptyBag \/ template.neg # EmptyBag =>
              template'.scale <= template.scale + 1
        /\ LET common == IF template.scale < template'.scale
                          THEN template.scale ELSE template'.scale
           IN  \A side \in {"pos", "neg"} :
                LET before == Coarser(template[side], template.scale, common)
                    after == Coarser(template'[side], template'.scale, common)
                IN  \A i \in DOMAIN before : i \in DOMAIN after /\ after[i] >= before[i]]_vars

(* As long as no merge changes the scale, no bucket and no count of a       *)
(* cumulative exponential histogram decreases for an instance: its factors  *)
(* belong to the buckets (instance_variation_test.go:531-533).              *)
CountsGrowAtScale ==
    [][kind = "cumulative" /\ intervals > 1 /\ phase = "emit"
         /\ emitted.scale = template.scale =>
            /\ emitted'.count >= emitted.count
            /\ \A i \in DOMAIN emitted.pos : emitted'.pos[i] >= emitted.pos[i]
            /\ \A i \in DOMAIN emitted.neg : emitted'.neg[i] >= emitted.neg[i]]_vars

(* receiver_test.go:586-587: "cumulative count should grow monotonically",  *)
(* whatever the scale.                                                      *)
CountsGrow ==
    [][kind = "cumulative" /\ intervals > 1 /\ phase = "emit"
         => emitted'.count >= emitted.count]_vars
=============================================================================
