---------------------------- MODULE Churn_proof ----------------------------
(***************************************************************************)
(* For every scale, rate, interval and choice of renderings that fail: the  *)
(* pace of the replacements is exactly the configured one over any number   *)
(* of intervals, replacement is round-robin, no instance is replaced before *)
(* it emitted, and every one emits exactly the configured samples.          *)
(***************************************************************************)
EXTENDS Churn, Lemmas_proof

LEMMA DivUnique ==
    ASSUME NEW a \in Int, NEW b \in Int, b > 0, NEW q \in Int, b * q <= a, a < b * q + b
    PROVE  q = a \div b
OBVIOUS

LEMMA ModUnique ==
    ASSUME NEW a \in Int, NEW b \in Int, b > 0, NEW q \in Int, NEW r \in Int,
           a = b * q + r, 0 <= r, r < b
    PROVE  r = a % b
OBVIOUS

(* Numbers of one residue class are at least n apart.                       *)
LEMMA NextOfClass ==
    ASSUME NEW n \in Int, n > 0, NEW a \in Int, NEW b \in Int, a % n = b % n,
           NEW next \in Int, a < next, next <= a + n, next <= b, b < next + n
    PROVE  b = a + n
<1>1. a = (a \div n) * n + (a % n) /\ b = (b \div n) * n + (a % n)
  <2>1. a = (a \div n) * n + (a % n)
    BY DivModSum
  <2>2. b = (b \div n) * n + (b % n)
    BY DivModSum
  <2> QED
    BY <2>1, <2>2
<1>2. DEFINE x == a \div n
             y == b \div n
<1>3. x \in Int /\ y \in Int
  BY DivModSum
<1>4. b - a = (y - x) * n
  BY <1>1, <1>3
<1> HIDE DEF x, y
<1>5. 0 < b - a /\ b - a < 2 * n
  OBVIOUS
<1>6. y - x = 1
  BY <1>3, <1>4, <1>5
<1> QED
  BY <1>3, <1>4, <1>6

LEMMA SameClass ==
    ASSUME NEW n \in Int, n > 0, NEW a \in Int
    PROVE  (a + n) % n = a % n
<1>1. PICK q \in Int, r \in Int : a = q * n + r /\ 0 <= r /\ r < n /\ r = a % n
  BY DivModSum
<1>2. a + n = n * (q + 1) + r
  BY <1>1
<1> QED
  BY <1>1, <1>2, ModUnique

-----------------------------------------------------------------------------
(* The pace: what was consumed and the fraction carried over are together   *)
(* what is due.                                                             *)
RateOK ==
    /\ cfg \in Configs
    /\ rate = newChurnRate(cfg.churn, cfg.scale, cfg.interval, Half)
    /\ rate.replacements \in Nat \ {0} /\ rate.intervals \in Nat \ {0}

PaceInv ==
    /\ RateOK
    /\ interval \in Nat /\ nextReplacementInstanceID \in Int
    /\ churnRemainder \in 0 .. rate.intervals - 1
    /\ (nextReplacementInstanceID - cfg.scale) * rate.intervals + churnRemainder
         = interval * rate.replacements

LEMMA ConfigOK ==
    ASSUME NEW c \in Configs
    PROVE  /\ c.scale \in Nat \ {0} /\ c.interval \in Nat \ {0}
           /\ Configured(c).num \in Nat /\ Configured(c).den \in Nat \ {0}
           /\ Configured(c).num <= c.scale * Configured(c).den
<1>1. Valid(c)
  BY ConfigsAssumption
<1>2. CASE c.churn.SamplesPerSeries > 0
  <2>1. \A s \in Nat, k \in Nat \ {0} : s <= s * k
    OBVIOUS
  <2> QED
    BY <1>1, <1>2, <2>1 DEF Valid, Configured
<1>3. CASE ~(c.churn.SamplesPerSeries > 0)
  <2>1. /\ c.churn.InstanceLifetime \in Nat \ {0}
        /\ c.churn.InstanceLifetime >= c.interval
    BY <1>1, <1>3 DEF Valid
  <2>2. \A s, i, l \in Nat : i <= l => s * i \in Nat /\ s * i <= s * l
    OBVIOUS
  <2> QED
    BY <1>1, <1>3, <2>1, <2>2 DEF Valid, Configured
<1> QED
  BY <1>1, <1>2, <1>3 DEF Valid

(* The rate of a scenario is the configured one.                            *)
LEMMA RateExact ==
    ASSUME NEW c \in Configs,
           NEW r, r = newChurnRate(c.churn, c.scale, c.interval, Half)
    PROVE  /\ r.replacements \in Nat \ {0} /\ r.intervals \in Nat \ {0}
           /\ r.replacements * Configured(c).den = Configured(c).num * r.intervals
<1>1. Valid(c)
  BY ConfigsAssumption
<1>2. CASE c.churn.SamplesPerSeries > 0
  <2>1. r = reduceChurnRate(c.scale, c.churn.SamplesPerSeries)
    BY <1>1, <1>2 DEF Valid, newChurnRate
  <2>2. c.scale \in Nat \ {0} /\ c.churn.SamplesPerSeries \in Nat \ {0}
    BY <1>1, <1>2 DEF Valid
  <2> QED
    BY <1>2, <2>1, <2>2, ReducedRate DEF Configured
<1>3. CASE ~(c.churn.SamplesPerSeries > 0)
  <2>1. c.churn.InstanceLifetime \in Nat \ {0}
    BY <1>1, <1>3 DEF Valid
  <2>2. c.scale * c.interval \in Nat \ {0} /\ c.scale * c.interval < Half /\ Half \in Nat
    <3>1. \A s, i \in Nat \ {0} : s * i \in Nat \ {0}
      OBVIOUS
    <3> QED
      BY <1>1, <3>1, BoundsAssumption DEF Valid
  <2>3. r = reduceChurnRate(c.scale * c.interval, c.churn.InstanceLifetime)
    <3>1. Wrap(c.scale * c.interval, Half) = c.scale * c.interval
      BY <2>2, WrapFits
    <3> QED
      BY <1>1, <1>3, <3>1 DEF Valid, newChurnRate
  <2> QED
    BY <1>3, <2>1, <2>2, <2>3, ReducedRate DEF Configured
<1> QED
  BY <1>2, <1>3

LEMMA PaceInit == ASSUME Init PROVE PaceInv
<1>1. RateOK
  BY RateExact DEF Init, RateOK
<1>2. cfg.scale \in Nat
  BY <1>1, ConfigOK DEF RateOK
<1> QED
  BY <1>1, <1>2 DEF Init, PaceInv, RateOK

(* How many replacements are due in an interval.                            *)
LEMMA ChurnOfInterval ==
    ASSUME PaceInv, NEW churn, churn = NextChurnCount(churnRemainder, rate),
           NEW remainder, remainder = NextChurnRemainder(churnRemainder, rate)
    PROVE  /\ churn \in Int /\ remainder \in 0 .. rate.intervals - 1
           /\ churnRemainder + rate.replacements = churn * rate.intervals + remainder
<1>1. enabled(rate)
  BY DEF PaceInv, RateOK, enabled
<1>2. churnRemainder + rate.replacements \in Int /\ rate.intervals \in Int /\ rate.intervals > 0
  BY DEF PaceInv, RateOK
<1>3. /\ churn = (churnRemainder + rate.replacements) \div rate.intervals
      /\ remainder = (churnRemainder + rate.replacements) % rate.intervals
  BY <1>1 DEF NextChurnCount, NextChurnRemainder
<1> QED
  BY <1>2, <1>3, DivModSum

LEMMA PaceStep == ASSUME PaceInv, [Next]_vars PROVE PaceInv'
<1>1. CASE applyChurn
  <2> DEFINE churn == NextChurnCount(churnRemainder, rate)
             remainder == NextChurnRemainder(churnRemainder, rate)
  <2>1. /\ nextReplacementInstanceID' = nextReplacementInstanceID + churn
        /\ churnRemainder' = remainder /\ interval' = interval + 1
        /\ UNCHANGED <<cfg, rate>>
    BY <1>1 DEF applyChurn
  <2>2. /\ churn \in Int /\ remainder \in 0 .. rate.intervals - 1
        /\ churnRemainder + rate.replacements = churn * rate.intervals + remainder
    BY ChurnOfInterval
  <2> HIDE DEF churn, remainder
  <2> DEFINE due == nextReplacementInstanceID - cfg.scale
  <2>3. /\ due \in Int /\ rate.replacements \in Int /\ rate.intervals \in Int
        /\ interval \in Int /\ churnRemainder \in Int /\ remainder \in Int
        /\ due * rate.intervals + churnRemainder = interval * rate.replacements
    BY <2>2, ConfigOK DEF PaceInv, RateOK
  <2>4. nextReplacementInstanceID' - cfg.scale = due + churn
    BY <2>1, <2>2, ConfigOK DEF PaceInv, RateOK
  <2> HIDE DEF due
  <2>5. (due + churn) * rate.intervals + remainder = (interval + 1) * rate.replacements
    <3>1. PICK I \in Int : rate.intervals = I
      BY <2>3
    <3>2. PICK R \in Int : rate.replacements = R
      BY <2>3
    <3> QED
      BY <2>2, <2>3, <3>1, <3>2
  <2> QED
    BY <2>1, <2>2, <2>4, <2>5 DEF PaceInv, RateOK
<1>2. CASE produceMetrics
  BY <1>2 DEF produceMetrics, PaceInv, RateOK
<1>3. CASE UNCHANGED vars
  BY <1>3 DEF vars, PaceInv, RateOK
<1> QED
  BY <1>1, <1>2, <1>3 DEF Next, Ended

(* From the reduced rate to the configured one.                             *)
LEMMA WholePart ==
    ASSUME NEW due \in Int, NEW I \in Int, I > 0, NEW rem \in Int, 0 <= rem, rem < I,
           NEW k \in Int, NEW R \in Int, NEW num \in Int, NEW den \in Int, den > 0,
           due * I + rem = k * R, R * den = num * I
    PROVE  due = (k * num) \div den
<1>1. (k * num) * I = (due * den) * I + rem * den
  <2>1. (k * num) * I = (k * R) * den
    OBVIOUS
  <2> QED
    BY <2>1
<1>2. 0 <= rem * den /\ rem * den < den * I
  OBVIOUS
<1>3. \A x, y, r \in Int : x * I = y * I + r /\ 0 <= r /\ r < den * I => y <= x /\ x < y + den
  OBVIOUS
<1>4. due * den <= k * num /\ k * num < due * den + den
  BY <1>1, <1>2, <1>3
<1> QED
  BY <1>4, DivUnique

LEMMA PaceMatchesRate == ASSUME PaceInv PROVE ReplacementsMatchRate
<1> DEFINE due == nextReplacementInstanceID - cfg.scale
           num == Configured(cfg).num
           den == Configured(cfg).den
<1>1. /\ due \in Int /\ num \in Int /\ den \in Int /\ den > 0
      /\ rate.intervals \in Int /\ rate.intervals > 0 /\ rate.replacements \in Int
      /\ interval \in Int /\ churnRemainder \in Int
      /\ 0 <= churnRemainder /\ churnRemainder < rate.intervals
  BY ConfigOK DEF PaceInv, RateOK
<1>2. /\ due * rate.intervals + churnRemainder = interval * rate.replacements
      /\ rate.replacements * den = num * rate.intervals
  BY RateExact DEF PaceInv, RateOK
<1> HIDE DEF due, num, den
<1>3. PICK I \in Int : rate.intervals = I
  BY <1>1
<1>4. PICK R \in Int : rate.replacements = R
  BY <1>1
<1>5. due = (interval * num) \div den
  BY <1>1, <1>2, <1>3, <1>4, WholePart
<1> QED
  BY <1>5 DEF ReplacementsMatchRate, due, num, den

(* After any number of intervals exactly the whole part of what the         *)
(* configured rate gives was replaced.                                      *)
THEOREM ExactPace == Spec => []ReplacementsMatchRate
  BY PaceInit, PaceStep, PaceMatchesRate, PTL DEF Spec

-----------------------------------------------------------------------------
(* No more replacements fall due in an interval than there are slots        *)
(* (config.go:152, 161).                                                    *)
LEMMA ChurnAtMostScale ==
    ASSUME PaceInv, NEW churn, churn = NextChurnCount(churnRemainder, rate)
    PROVE  churn \in 0 .. cfg.scale
<1> DEFINE remainder == NextChurnRemainder(churnRemainder, rate)
           num == Configured(cfg).num
           den == Configured(cfg).den
           n == cfg.scale
<1>1. /\ churn \in Int /\ remainder \in Int /\ 0 <= remainder /\ remainder < rate.intervals
      /\ churnRemainder + rate.replacements = churn * rate.intervals + remainder
  BY ChurnOfInterval DEF PaceInv, RateOK
<1>2. /\ n \in Int /\ n > 0 /\ num \in Int /\ den \in Int /\ den > 0 /\ num <= n * den
      /\ churnRemainder \in Int /\ 0 <= churnRemainder /\ churnRemainder < rate.intervals
      /\ rate.replacements * den = num * rate.intervals
  BY ConfigOK, RateExact DEF PaceInv, RateOK
<1>3. PICK I \in Int : rate.intervals = I /\ I > 0
  BY DEF PaceInv, RateOK
<1>4. PICK R \in Int : rate.replacements = R /\ R > 0
  BY DEF PaceInv, RateOK
<1> HIDE DEF remainder, num, den, n
<1>5. R <= n * I
  <2>1. num * I <= (n * den) * I
    BY <1>2, <1>3
  <2>2. R * den <= (n * I) * den
    BY <1>2, <1>3, <1>4, <2>1
  <2> QED
    BY <1>2, <1>3, <1>4, <2>2
<1>6. -I < churn * I /\ churn * I < (n + 1) * I
  BY <1>1, <1>2, <1>3, <1>4, <1>5
<1>7. -1 < churn /\ churn < n + 1
  BY <1>1, <1>2, <1>3, <1>6
<1> QED
  BY <1>1, <1>2, <1>7 DEF n

(* Which identifier of an interval is due in a slot: the next of its class, *)
(* if it is reached.                                                        *)
NextOfSlot(id, n, next, churn, slot) ==
    /\ (id + n) % n = slot
    /\ \A d \in next .. next + churn - 1 : d % n = slot => d = id + n
    /\ id + n \in next .. next + churn - 1 =>
         id + n < next + churn /\ next + churn <= id + n + n
    /\ id + n \notin next .. next + churn - 1 =>
         id < next + churn /\ next + churn <= id + n

LEMMA DueInSlot ==
    ASSUME NEW n \in Int, n > 0, NEW next \in Int, NEW churn \in 0 .. n,
           NEW slot, NEW id \in Int, id % n = slot, id < next, next <= id + n
    PROVE  NextOfSlot(id, n, next, churn, slot)
<1>1. (id + n) % n = slot
  BY SameClass
<1>2. ASSUME NEW d \in next .. next + churn - 1, d % n = slot PROVE d = id + n
  <2>1. PICK b \in Int : b = d
    BY <1>2
  <2>2. next <= b /\ b < next + n /\ id % n = b % n
    BY <1>2, <2>1
  <2>3. b = id + n
    BY <2>2, NextOfClass
  <2> QED
    BY <2>1, <2>3
<1>3. PICK k \in Int : churn = k /\ 0 <= k /\ k <= n
  OBVIOUS
<1>4. id + n \in next .. next + churn - 1 => id + n < next + churn /\ next + churn <= id + n + n
  BY <1>3
<1>5. id + n \notin next .. next + churn - 1 => id < next + churn /\ next + churn <= id + n
  BY <1>3
<1> QED
  BY <1>1, <1>2, <1>4, <1>5 DEF NextOfSlot

(* What a slot holds, with m failures since, when `next` is the next        *)
(* identifier.                                                              *)
SlotOK(inst, m, next, n, slot) ==
    LET id == inst - InstanceOffset + m * n
    IN  id % n = slot /\ id < next /\ next <= id + n

LEMMA SlotIs ==
    ASSUME NEW inst, NEW m, NEW next, NEW n, NEW slot, NEW id,
           inst - InstanceOffset + m * n = id, id % n = slot, id < next, next <= id + n
    PROVE  SlotOK(inst, m, next, n, slot)
BY DEF SlotOK

(* One slot over one interval: its replacement arrives, fails or is not     *)
(* due.                                                                     *)
LEMMA SlotStep ==
    ASSUME NEW n \in Int, n > 0, NEW next \in Int, NEW churn \in 0 .. n, NEW slot,
           NEW inst \in Int, NEW m \in Nat, SlotOK(inst, m, next, n, slot),
           NEW rendered, rendered \subseteq ReplacementIDs(next, churn)
    PROVE  /\ \A d \in rendered : d % n = slot =>
                /\ \A e \in rendered : e % n = slot => e = d
                /\ d \in Int /\ SlotOK(d + InstanceOffset, 0, next + churn, n, slot)
           /\ (\E d \in ReplacementIDs(next, churn) : d % n = slot) =>
                SlotOK(inst, m + 1, next + churn, n, slot)
           /\ ~(\E d \in ReplacementIDs(next, churn) : d % n = slot) =>
                SlotOK(inst, m, next + churn, n, slot)
<1>0. PICK offset \in Int : offset = InstanceOffset
  BY BoundsAssumption
<1>1. PICK id \in Int : id = inst - offset + m * n
  BY <1>0
<1>2. id % n = slot /\ id < next /\ next <= id + n
  BY <1>0, <1>1 DEF SlotOK
<1>3. NextOfSlot(id, n, next, churn, slot)
  BY <1>2, DueInSlot
<1>4. ASSUME NEW d \in rendered, d % n = slot
      PROVE  /\ \A e \in rendered : e % n = slot => e = d
             /\ d \in Int /\ SlotOK(d + InstanceOffset, 0, next + churn, n, slot)
  <2>1. rendered \subseteq next .. next + churn - 1
    BY DEF ReplacementIDs
  <2>2. \A e \in rendered : e % n = slot => e = id + n
    BY <1>3, <2>1 DEF NextOfSlot
  <2>3. d = id + n
    BY <1>4, <2>2
  <2>4. id + n < next + churn /\ next + churn <= id + n + n /\ (id + n) % n = slot
    BY <1>3, <2>1, <2>3 DEF NextOfSlot
  <2>5. PICK x \in Int : x = id + n
    OBVIOUS
  <2>6. x % n = slot /\ x < next + churn /\ next + churn <= x + n
    BY <2>4, <2>5
  <2>7. (x + InstanceOffset) - InstanceOffset + 0 * n = x
    BY <1>0
  <2>8. SlotOK(x + InstanceOffset, 0, next + churn, n, slot)
    BY <2>6, <2>7, SlotIs, Zenon
  <2> QED
    BY <2>2, <2>3, <2>5, <2>8
<1>5. inst - InstanceOffset + (m + 1) * n = id + n
  BY <1>0, <1>1
<1>6. ASSUME NEW d \in ReplacementIDs(next, churn), d % n = slot
      PROVE  SlotOK(inst, m + 1, next + churn, n, slot)
  <2>1. id + n \in next .. next + churn - 1
    BY <1>3, <1>6 DEF ReplacementIDs, NextOfSlot
  <2> QED
    BY <1>3, <1>5, <2>1 DEF SlotOK, NextOfSlot
<1>7. ASSUME ~(\E d \in ReplacementIDs(next, churn) : d % n = slot)
      PROVE  SlotOK(inst, m, next + churn, n, slot)
  <2>1. id + n \notin next .. next + churn - 1
    BY <1>3, <1>7 DEF ReplacementIDs, NextOfSlot
  <2>2. id < next + churn /\ next + churn <= id + n
    BY <1>3, <2>1 DEF NextOfSlot
  <2> QED
    BY <1>0, <1>1, <1>2, <2>2 DEF SlotOK
<1> QED
  BY <1>4, <1>6, <1>7

(* A slot holds the latest of its class but for its failures, and when      *)
(* churn is applied every instance has emitted.                             *)
SlotInv ==
    /\ PaceInv
    /\ instances \in [Slots -> Int]
    /\ samples \in [Slots -> Nat] /\ missed \in [Slots -> Nat]
    /\ \A slot \in Slots : SlotOK(instances[slot], missed[slot],
                                  nextReplacementInstanceID, cfg.scale, slot)
    /\ phase = "churn" => \A slot \in Slots : samples[slot] > 0

LEMMA SmallMod ==
    ASSUME NEW n \in Int, NEW a \in Int, 0 <= a, a < n
    PROVE  a % n = a
BY ModUnique

LEMMA SlotInit == ASSUME Init PROVE SlotInv
<1>1. PaceInv /\ cfg.scale \in Int
  BY PaceInit, ConfigOK DEF PaceInv, RateOK
<1>2. InstanceOffset \in Nat
  BY BoundsAssumption
<1>3. /\ instances = [slot \in Slots |-> slot + InstanceOffset]
      /\ samples = [slot \in Slots |-> 0] /\ missed = [slot \in Slots |-> 0]
      /\ nextReplacementInstanceID = cfg.scale /\ phase = "produce"
  BY DEF Init
<1>4. ASSUME NEW slot \in Slots
      PROVE  SlotOK(instances[slot], missed[slot], nextReplacementInstanceID, cfg.scale, slot)
  <2>1. PICK n \in Int : n = cfg.scale
    BY <1>1
  <2>2. PICK x \in Int : x = slot /\ 0 <= x /\ x < n
    BY <1>1, <2>1 DEF Slots
  <2>3. x % n = x
    BY <2>1, <2>2, SmallMod
  <2>4. (x + InstanceOffset) - InstanceOffset + 0 * n = x
    BY <1>2, <2>1, <2>2
  <2>5. x < n /\ n <= x + n
    BY <2>1, <2>2
  <2>6. SlotOK(x + InstanceOffset, 0, n, n, x)
    BY <2>3, <2>4, <2>5, SlotIs, Zenon
  <2> QED
    BY <1>3, <2>1, <2>2, <2>6
<1>5. instances \in [Slots -> Int] /\ samples \in [Slots -> Nat] /\ missed \in [Slots -> Nat]
  BY <1>1, <1>2, <1>3 DEF Slots
<1> QED
  BY <1>1, <1>3, <1>4, <1>5 DEF SlotInv

(* The instance a slot holds after its interval.                            *)
LEMMA Arrival ==
    ASSUME NEW n, NEW rendered, NEW slot, NEW d \in rendered, d % n = slot, d \in Int,
           \A e \in rendered : e % n = slot => e = d
    PROVE  Max({id \in rendered : id % n = slot}) = d
<1>1. {id \in rendered : id % n = slot} = {d}
  OBVIOUS
<1>2. Max({d}) = d
  BY DEF Max
<1> QED
  BY <1>1, <1>2

LEMMA SlotStepOfChurn == ASSUME SlotInv, applyChurn PROVE SlotInv'
<1> DEFINE churn == NextChurnCount(churnRemainder, rate)
           next == nextReplacementInstanceID
           ids == ReplacementIDs(next, churn)
           due(slot, some) == \E id \in some : id % cfg.scale = slot
<1>1. PaceInv' /\ cfg.scale \in Nat \ {0} /\ next \in Int /\ churn \in 0 .. cfg.scale
  BY PaceStep, ConfigOK, ChurnAtMostScale DEF SlotInv, PaceInv, RateOK, Next
<1>2. PICK rendered \in IF cfg \in Failing THEN SUBSET ids ELSE {ids} :
        /\ instances' = Replaced(instances, cfg.scale, rendered, InstanceOffset)
        /\ samples' = [slot \in Slots |->
              IF due(slot, rendered) THEN 0 ELSE samples[slot]]
        /\ missed' = [slot \in Slots |->
              IF due(slot, rendered) THEN 0
              ELSE IF due(slot, ids) THEN missed[slot] + 1
              ELSE missed[slot]]
        /\ nextReplacementInstanceID' = next + churn
  BY Zenon DEF applyChurn
<1>2a. rendered \subseteq ids
  BY <1>2
<1>3. UNCHANGED cfg /\ Slots' = Slots /\ phase' = "produce"
  BY DEF applyChurn, Slots
<1> HIDE DEF churn, next, ids, due
<1>4. instances' = [slot \in Slots |->
         IF due(slot, rendered)
         THEN Max({id \in rendered : id % cfg.scale = slot}) + InstanceOffset
         ELSE instances[slot]]
  BY <1>2 DEF Replaced, Slots, due
<1>5. ASSUME NEW slot \in Slots
      PROVE  /\ instances'[slot] \in Int /\ samples'[slot] \in Nat /\ missed'[slot] \in Nat
             /\ SlotOK(instances'[slot], missed'[slot], next + churn, cfg.scale, slot)
  <2>1. PICK inst \in Int, m \in Nat :
          /\ inst = instances[slot] /\ m = missed[slot]
          /\ SlotOK(inst, m, next, cfg.scale, slot)
    BY DEF SlotInv, next
  <2>2. /\ \A d \in rendered : d % cfg.scale = slot =>
             /\ \A e \in rendered : e % cfg.scale = slot => e = d
             /\ d \in Int /\ SlotOK(d + InstanceOffset, 0, next + churn, cfg.scale, slot)
        /\ (\E d \in ids : d % cfg.scale = slot) =>
             SlotOK(inst, m + 1, next + churn, cfg.scale, slot)
        /\ ~(\E d \in ids : d % cfg.scale = slot) =>
             SlotOK(inst, m, next + churn, cfg.scale, slot)
    <3>1. PICK n \in Int : n = cfg.scale /\ n > 0
      BY <1>1
    <3>2. PICK x \in Int : x = next
      BY <1>1
    <3>3. rendered \subseteq ReplacementIDs(x, churn) /\ churn \in 0 .. n
      BY <1>1, <1>2a, <3>1, <3>2 DEF ids
    <3> QED
      BY <2>1, <3>1, <3>2, <3>3, SlotStep DEF ids
  <2>3. CASE due(slot, rendered)
    <3>1. PICK d \in rendered : d % cfg.scale = slot
      BY <2>3 DEF due
    <3>2. Max({id \in rendered : id % cfg.scale = slot}) = d /\ d \in Int
      BY <2>2, <3>1, Arrival
    <3>3. instances'[slot] = d + InstanceOffset /\ samples'[slot] = 0 /\ missed'[slot] = 0
      BY <1>2, <1>4, <2>3, <3>2
    <3> QED
      BY <2>2, <3>1, <3>2, <3>3, BoundsAssumption
  <2>4. CASE ~due(slot, rendered) /\ due(slot, ids)
    <3>1. /\ instances'[slot] = inst /\ samples'[slot] = samples[slot]
          /\ missed'[slot] = m + 1
      BY <1>2, <1>4, <2>1, <2>4
    <3> QED
      BY <2>1, <2>2, <2>4, <3>1 DEF due, SlotInv
  <2>5. CASE ~due(slot, rendered) /\ ~due(slot, ids)
    <3>1. /\ instances'[slot] = inst /\ samples'[slot] = samples[slot]
          /\ missed'[slot] = m
      BY <1>2, <1>4, <2>1, <2>5
    <3> QED
      BY <2>1, <2>2, <2>5, <3>1 DEF due, SlotInv
  <2> QED
    BY <2>3, <2>4, <2>5
<1>6. /\ instances' \in [Slots -> Int] /\ samples' \in [Slots -> Nat]
      /\ missed' \in [Slots -> Nat]
  <2>1. /\ instances' = [slot \in Slots |-> instances'[slot]]
        /\ samples' = [slot \in Slots |-> samples'[slot]]
        /\ missed' = [slot \in Slots |-> missed'[slot]]
    BY <1>2, <1>4
  <2> QED
    BY <1>5, <2>1
<1> QED
  BY <1>1, <1>2, <1>3, <1>5, <1>6 DEF SlotInv

LEMMA SlotStepOfNext == ASSUME SlotInv, [Next]_vars PROVE SlotInv'
<1>1. PaceInv'
  BY PaceStep DEF SlotInv
<1>2. CASE applyChurn
  BY <1>2, SlotStepOfChurn
<1>3. CASE produceMetrics
  <2>1. /\ samples' = [slot \in Slots |-> samples[slot] + 1]
        /\ UNCHANGED <<cfg, instances, nextReplacementInstanceID, missed>>
        /\ Slots' = Slots
    BY <1>3 DEF produceMetrics, Slots
  <2>2. \A slot \in Slots : samples'[slot] \in Nat /\ samples'[slot] > 0
    BY <2>1 DEF SlotInv
  <2>3. samples' \in [Slots -> Nat]
    BY <2>1 DEF SlotInv
  <2> QED
    BY <1>1, <2>1, <2>2, <2>3 DEF SlotInv
<1>4. CASE Ended \/ UNCHANGED vars
  BY <1>1, <1>4 DEF SlotInv, Ended, vars, Slots
<1> QED
  BY <1>2, <1>3, <1>4 DEF Next

(* Replacement is round-robin: a slot holds the latest of its own           *)
(* identifiers, or an earlier one for each failure since.                   *)
THEOREM RoundRobin == Spec => []LatestUnlessMissed
<1>1. SlotInv => LatestUnlessMissed
  BY DEF SlotInv, LatestUnlessMissed, SlotOK
<1> QED
  BY <1>1, SlotInit, SlotStepOfNext, PTL DEF Spec

(* No instance is replaced before it emitted, and no more are due in an     *)
(* interval than there are slots.                                           *)
THEOREM EmitsBeforeReplaced == Spec => EveryInstanceEmits
<1>1. ASSUME SlotInv, applyChurn
      PROVE  /\ nextReplacementInstanceID' - nextReplacementInstanceID <= cfg.scale
             /\ \A slot \in Slots : Leaves(slot) => samples[slot] > 0
  <2>1. PICK churn \in 0 .. cfg.scale :
          nextReplacementInstanceID' = nextReplacementInstanceID + churn
    BY <1>1, ChurnAtMostScale DEF applyChurn, SlotInv
  <2>2. nextReplacementInstanceID \in Int /\ cfg.scale \in Int
    BY <1>1, ConfigOK DEF SlotInv, PaceInv, RateOK
  <2>3. phase = "churn"
    BY <1>1 DEF applyChurn
  <2> QED
    BY <1>1, <2>1, <2>2, <2>3 DEF SlotInv
<1>2. ASSUME SlotInv, [produceMetrics \/ Ended]_vars
      PROVE  /\ nextReplacementInstanceID' - nextReplacementInstanceID <= cfg.scale
             /\ \A slot \in Slots : Leaves(slot) => samples[slot] > 0
  <2>1. /\ nextReplacementInstanceID \in Int /\ cfg.scale \in Nat
    BY <1>2, ConfigOK DEF SlotInv, PaceInv, RateOK
  <2>2. UNCHANGED <<nextReplacementInstanceID, instances>>
    BY <1>2 DEF produceMetrics, Ended, vars
  <2> QED
    BY <2>1, <2>2 DEF Leaves
<1>3. SlotInv /\ [Next]_vars =>
        [/\ nextReplacementInstanceID' - nextReplacementInstanceID <= cfg.scale
         /\ \A slot \in Slots : Leaves(slot) => samples[slot] > 0]_vars
  BY <1>1, <1>2 DEF Next
<1> QED
  BY <1>3, SlotInit, SlotStepOfNext, PTL DEF Spec, EveryInstanceEmits

-----------------------------------------------------------------------------
(* The samples of a turn: when an identifier falls due, and so how long an   *)
(* instance emits, follows from the pace.                                    *)

(* Identifier d falls due at the end of the t-th interval: the first t for   *)
(* which t * n / k, the replacements due until then, exceeds d - n.          *)
DueAt(d, t, n, k) == (t - 1) * n < (d - n + 1) * k /\ (d - n + 1) * k <= t * n

LEMMA DueWhenConsumed ==
    ASSUME NEW n \in Nat, NEW k \in Nat \ {0}, NEW t \in Nat,
           NEW x \in Int, x = t * n, NEW y \in Int, y = (t + 1) * n,
           NEW d \in Int, x \div k <= d - n, d - n < y \div k
    PROVE  DueAt(d, t + 1, n, k)
<1> DEFINE p == x \div k
           q == y \div k
<1>1. /\ p \in Int /\ x = p * k + (x % k) /\ x % k \in 0 .. (k - 1)
      /\ q \in Int /\ y = q * k + (y % k) /\ y % k \in 0 .. (k - 1)
  BY DivModSum
<1> HIDE DEF p, q
<1>2. PICK e \in Int : e = d - n + 1
  OBVIOUS
<1>3. p + 1 <= e /\ e <= q
  BY <1>1, <1>2 DEF p, q
<1>4. (p + 1) * k <= e * k /\ e * k <= q * k
  <2>1. PICK a \in Nat, b \in Nat : e = p + 1 + a /\ q = e + b
    BY <1>1, <1>3
  <2>2. PICK ak \in Nat, bk \in Nat : ak = a * k /\ bk = b * k
    OBVIOUS
  <2>3. e * k = (p + 1) * k + ak /\ q * k = e * k + bk
    BY <1>1, <2>1, <2>2
  <2>4. (p + 1) * k \in Int /\ e * k \in Int
    BY <1>1
  <2> QED
    BY <2>2, <2>3, <2>4
<1>5. x < e * k /\ e * k <= y
  <2>1. (p + 1) * k = p * k + k /\ p * k \in Int /\ q * k \in Int /\ e * k \in Int
    BY <1>1
  <2> QED
    BY <1>1, <1>4, <2>1
<1> QED
  BY <1>2, <1>5 DEF DueAt

(* Identifiers of a slot fall due k intervals after each other.              *)
LEMMA DueAgain ==
    ASSUME NEW n \in Nat \ {0}, NEW k \in Nat, NEW b \in Int, NEW t \in Int, NEW u \in Int,
           NEW m \in Nat, DueAt(b, t, n, k), DueAt(b + m * n + n, u, n, k)
    PROVE  u - t = k * (1 + m)
<1>1. PICK x \in Int : x = (b - n + 1) * k
  OBVIOUS
<1>2. PICK l \in Int : l = k * (1 + m)
  OBVIOUS
<1>3. (b + m * n + n - n + 1) * k = x + l * n
  BY <1>1, <1>2
<1>4. PICK v \in Int : v = u - l
  OBVIOUS
<1>5. (v - 1) * n < x /\ x <= v * n
  <2>1. (u - 1) * n = (v - 1) * n + l * n /\ u * n = v * n + l * n
    BY <1>4
  <2>2. (v - 1) * n \in Int /\ v * n \in Int /\ l * n \in Int
    OBVIOUS
  <2> QED
    BY <1>3, <2>1, <2>2 DEF DueAt
<1>6. (t - 1) * n < x /\ x <= t * n
  BY <1>1 DEF DueAt
<1>7. ASSUME NEW v1 \in Int, NEW v2 \in Int, v1 < v2, x <= v1 * n, (v2 - 1) * n < x
      PROVE  FALSE
  <2>1. PICK a \in Nat : v2 - 1 = v1 + a
    BY <1>7
  <2>2. PICK an \in Nat : an = a * n
    OBVIOUS
  <2>3. (v2 - 1) * n = v1 * n + an /\ v1 * n \in Int
    BY <2>1, <2>2
  <2> QED
    BY <1>7, <2>2, <2>3
<1>8. v = t
  BY <1>5, <1>6, <1>7
<1> QED
  BY <1>2, <1>4, <1>8

(* The first identifier of a slot after its initial one falls due k          *)
(* intervals after the start at the latest.                                  *)
LEMMA DueFirst ==
    ASSUME NEW n \in Nat \ {0}, NEW k \in Nat, NEW b \in Int, b < n, NEW u \in Int,
           NEW m \in Nat, DueAt(b + m * n + n, u, n, k)
    PROVE  u <= k * (1 + m)
<1>1. PICK x \in Int : x = (b + 1) * k
  OBVIOUS
<1>2. PICK l \in Int, o \in Int : l = k * m /\ o = u - 1 - l
  OBVIOUS
<1>3. (b + m * n + n - n + 1) * k = x + l * n
  BY <1>1, <1>2
<1>4. (u - 1) * n = o * n + l * n /\ o * n \in Int /\ l * n \in Int
  BY <1>2
<1>5. o * n < x
  BY <1>3, <1>4 DEF DueAt
<1>6. x <= k * n
  <2>1. PICK a \in Nat : n = b + 1 + a
    OBVIOUS
  <2>2. PICK ak \in Nat : ak = k * a
    OBVIOUS
  <2>3. k * n = x + ak
    BY <1>1, <2>1, <2>2
  <2> QED
    BY <2>2, <2>3
<1>7. o < k
  <2>1. SUFFICES ASSUME o >= k PROVE FALSE
    OBVIOUS
  <2>2. PICK a \in Nat : o = k + a
    BY <2>1
  <2>3. PICK an \in Nat, kn \in Int : an = a * n /\ kn = k * n
    OBVIOUS
  <2>4. o * n = kn + an
    BY <2>2, <2>3
  <2> QED
    BY <1>5, <1>6, <2>3, <2>4
<1>8. k * (1 + m) = k + l
  BY <1>2
<1> QED
  BY <1>2, <1>7, <1>8

(* An instance has emitted once in every interval since its identifier fell  *)
(* due, an initial one in every interval of the run.                         *)
Elapsed == IF phase = "churn" THEN interval + 1 ELSE interval

TurnOK(inst, emitted, t) ==
    LET b == inst - InstanceOffset
    IN  IF b < cfg.scale THEN emitted = t
        ELSE DueAt(b, t - emitted, cfg.scale, cfg.churn.SamplesPerSeries)

LEMMA TurnIs ==
    ASSUME NEW inst, NEW emitted, NEW t, TurnOK(inst, emitted, t)
    PROVE  IF inst - InstanceOffset < cfg.scale THEN emitted = t
           ELSE DueAt(inst - InstanceOffset, t - emitted, cfg.scale,
                      cfg.churn.SamplesPerSeries)
  BY DEF TurnOK

TurnInv ==
    /\ SlotInv
    /\ cfg.churn.SamplesPerSeries > 0 =>
         \A slot \in Slots : TurnOK(instances[slot], samples[slot], Elapsed)

PaceOfSamples ==
    cfg.churn.SamplesPerSeries > 0 =>
        nextReplacementInstanceID - cfg.scale
          = (interval * cfg.scale) \div cfg.churn.SamplesPerSeries

LEMMA PaceIsRate == PaceInv => PaceOfSamples
<1> SUFFICES ASSUME PaceInv, cfg.churn.SamplesPerSeries > 0
    PROVE  nextReplacementInstanceID - cfg.scale
             = (interval * cfg.scale) \div cfg.churn.SamplesPerSeries
  BY DEF PaceOfSamples
<1>1. ReplacementsMatchRate
  BY PaceMatchesRate
<1>2. /\ Configured(cfg).num = cfg.scale
      /\ Configured(cfg).den = cfg.churn.SamplesPerSeries
  BY DEF Configured
<1> QED
  BY <1>1, <1>2 DEF ReplacementsMatchRate

LEMMA PaceIsRateNext == PaceInv' => PaceOfSamples'
  BY PaceIsRate, PTL

(* What applyChurn renders falls due in this interval.                       *)
LEMMA RenderedDue ==
    ASSUME PaceInv, PaceInv', UNCHANGED cfg, interval' = interval + 1,
           cfg.churn.SamplesPerSeries > 0, NEW d \in Int,
           nextReplacementInstanceID <= d, d < nextReplacementInstanceID'
    PROVE  /\ cfg.scale <= d
           /\ DueAt(d, interval + 1, cfg.scale, cfg.churn.SamplesPerSeries)
<1> DEFINE n == cfg.scale
           k == cfg.churn.SamplesPerSeries
           next == nextReplacementInstanceID
<1>1. n \in Nat \ {0} /\ k \in Nat \ {0} /\ interval \in Nat /\ next \in Int /\ next' \in Int
  BY ConfigsAssumption DEF PaceInv, RateOK, Valid
<1>2. /\ next - n = (interval * n) \div k
      /\ next' - n = ((interval + 1) * n) \div k
  BY PaceIsRate, PaceIsRateNext DEF PaceOfSamples
<1> HIDE DEF n, k, next
<1>3. PICK x \in Nat, y \in Int : x = interval * n /\ y = (interval + 1) * n
  BY <1>1
<1>4. x \div k >= 0
  <2>1. x \div k \in Nat
    BY <1>1
  <2> QED
    BY <2>1
<1>5. x \div k <= d - n /\ d - n < y \div k
  BY <1>1, <1>2, <1>3 DEF next
<1>6. DueAt(d, interval + 1, n, k)
  <2>1. PICK t \in Nat : t = interval
    BY <1>1
  <2>2. x \in Int /\ x = t * n /\ y = (t + 1) * n /\ n \in Nat
    BY <1>1, <1>3, <2>1
  <2>3. DueAt(d, t + 1, n, k)
    BY <1>1, <1>5, <2>2, DueWhenConsumed
  <2> QED
    BY <2>1, <2>3
<1>7. n <= d
  BY <1>1, <1>2, <1>3, <1>4 DEF next
<1> QED
  BY <1>6, <1>7 DEF n, k

(* The instance that arrives in a slot, and the one that leaves it.          *)
Comes(slot, d) ==
    /\ d \in Int /\ nextReplacementInstanceID <= d /\ d < nextReplacementInstanceID'
    /\ instances'[slot] = d + InstanceOffset /\ samples'[slot] = 0
    /\ d = instances[slot] - InstanceOffset + missed[slot] * cfg.scale + cfg.scale

Stays(slot) == instances'[slot] = instances[slot] /\ samples'[slot] = samples[slot]

LEMMA ComesOrStays ==
    ASSUME SlotInv, applyChurn, NEW slot \in Slots
    PROVE  Stays(slot) \/ \E d : Comes(slot, d)
<1> DEFINE churn == NextChurnCount(churnRemainder, rate)
           next == nextReplacementInstanceID
           ids == ReplacementIDs(next, churn)
           due(s, some) == \E id \in some : id % cfg.scale = s
<1>1. cfg.scale \in Nat \ {0} /\ next \in Int /\ churn \in 0 .. cfg.scale
  BY ConfigOK, ChurnAtMostScale DEF SlotInv, PaceInv, RateOK
<1>2. PICK rendered \in IF cfg \in Failing THEN SUBSET ids ELSE {ids} :
        /\ instances' = Replaced(instances, cfg.scale, rendered, InstanceOffset)
        /\ samples' = [s \in Slots |-> IF due(s, rendered) THEN 0 ELSE samples[s]]
        /\ nextReplacementInstanceID' = next + churn
  BY Zenon DEF applyChurn
<1>3. rendered \subseteq ids
  BY <1>2
<1> HIDE DEF churn, next, ids, due
<1>4. instances' = [s \in Slots |->
         IF due(s, rendered)
         THEN Max({id \in rendered : id % cfg.scale = s}) + InstanceOffset
         ELSE instances[s]]
  BY <1>2 DEF Replaced, Slots, due
<1>5. CASE ~due(slot, rendered)
  BY <1>2, <1>4, <1>5 DEF Stays
<1>6. CASE due(slot, rendered)
  <2>1. PICK d \in rendered : d % cfg.scale = slot
    BY <1>6 DEF due
  <2>2. PICK id \in Int :
          /\ id = instances[slot] - InstanceOffset + missed[slot] * cfg.scale
          /\ id % cfg.scale = slot /\ id < next /\ next <= id + cfg.scale
    BY <1>1, BoundsAssumption DEF SlotInv, SlotOK, next
  <2>3. NextOfSlot(id, cfg.scale, next, churn, slot)
    BY <1>1, <2>2, DueInSlot
  <2>4. rendered \subseteq next .. next + churn - 1
    BY <1>3 DEF ids, ReplacementIDs
  <2>5. \A e \in rendered : e % cfg.scale = slot => e = id + cfg.scale
    BY <2>3, <2>4 DEF NextOfSlot
  <2>6. d = id + cfg.scale /\ d \in Int /\ next <= d /\ d < next + churn
    BY <1>1, <2>1, <2>2, <2>4, <2>5
  <2>7. Max({e \in rendered : e % cfg.scale = slot}) = d
    <3>1. \A e \in rendered : e % cfg.scale = slot => e = d
      BY <2>5, <2>6
    <3>2. {e \in rendered : e % cfg.scale = slot} = {d}
      BY <2>1, <3>1, Zenon
    <3>3. Max({d}) = d
      BY <2>6 DEF Max
    <3> QED
      BY <3>2, <3>3
  <2>8. instances'[slot] = d + InstanceOffset /\ samples'[slot] = 0
    BY <1>2, <1>4, <1>6, <2>7
  <2>9. Comes(slot, d)
    BY <1>2, <2>2, <2>6, <2>8 DEF Comes, next
  <2> QED
    BY <2>9
<1> QED
  BY <1>5, <1>6

LEMMA TurnInit == ASSUME Init PROVE TurnInv
<1>1. SlotInv
  BY SlotInit
<1>2. ASSUME NEW slot \in Slots
      PROVE  TurnOK(instances[slot], samples[slot], Elapsed)
  <2>1. /\ instances[slot] = slot + InstanceOffset /\ samples[slot] = 0
        /\ Elapsed = 0
    BY <1>2 DEF Init, Elapsed
  <2>2. slot \in Int /\ slot < cfg.scale /\ InstanceOffset \in Int
    BY <1>1, ConfigOK, BoundsAssumption DEF Slots, SlotInv, PaceInv, RateOK
  <2> QED
    BY <2>1, <2>2 DEF TurnOK
<1> QED
  BY <1>1, <1>2 DEF TurnInv

LEMMA TurnStep == ASSUME TurnInv, [Next]_vars PROVE TurnInv'
<1>1. SlotInv /\ SlotInv'
  BY SlotStepOfNext DEF TurnInv
<1>2. CASE applyChurn
  <2>1. /\ UNCHANGED cfg /\ interval' = interval + 1 /\ Slots' = Slots
        /\ phase = "churn" /\ phase' = "produce"
    BY <1>2 DEF applyChurn, Slots
  <2>2. Elapsed = interval + 1 /\ Elapsed' = interval + 1 /\ interval \in Nat
    BY <1>1, <2>1 DEF Elapsed, SlotInv, PaceInv
  <2>3. ASSUME cfg.churn.SamplesPerSeries > 0, NEW slot \in Slots
        PROVE  TurnOK(instances[slot], samples[slot], Elapsed)'
    <3>1. CASE Stays(slot)
      BY <2>1, <2>2, <2>3, <3>1 DEF TurnInv, TurnOK, Stays
    <3>2. ASSUME NEW d, Comes(slot, d)
          PROVE  TurnOK(instances[slot], samples[slot], Elapsed)'
      <4>1. /\ d \in Int /\ cfg.scale <= d
            /\ DueAt(d, interval + 1, cfg.scale, cfg.churn.SamplesPerSeries)
        BY <1>1, <2>1, <2>3, <3>2, RenderedDue DEF Comes, SlotInv
      <4>2. InstanceOffset \in Int /\ cfg.scale \in Int
        BY <1>1, ConfigOK, BoundsAssumption DEF SlotInv, PaceInv, RateOK
      <4>3. instances'[slot] - InstanceOffset = d /\ samples'[slot] = 0
        BY <3>2, <4>1, <4>2 DEF Comes
      <4>4. interval + 1 - 0 = interval + 1 /\ ~(d < cfg.scale)
        BY <2>2, <4>1, <4>2
      <4> QED
        BY <2>1, <2>2, <4>1, <4>3, <4>4 DEF TurnOK
    <3> QED
      BY <1>1, <1>2, <2>3, <3>1, <3>2, ComesOrStays
  <2> QED
    BY <1>1, <2>1, <2>3 DEF TurnInv
<1>3. CASE produceMetrics
  <2>1. /\ samples' = [slot \in Slots |-> samples[slot] + 1]
        /\ UNCHANGED <<cfg, instances, interval>>
        /\ phase = "produce" /\ phase' = "churn" /\ Slots' = Slots
    BY <1>3 DEF produceMetrics, Slots
  <2>2. Elapsed' = Elapsed + 1 /\ Elapsed \in Nat
    BY <1>1, <2>1 DEF Elapsed, SlotInv, PaceInv
  <2>3. ASSUME cfg.churn.SamplesPerSeries > 0, NEW slot \in Slots
        PROVE  TurnOK(instances[slot], samples[slot], Elapsed)'
    <3>1. samples'[slot] = samples[slot] + 1 /\ samples[slot] \in Nat
      BY <1>1, <2>1, <2>3 DEF SlotInv
    <3>2. TurnOK(instances[slot], samples[slot], Elapsed)
      BY <2>3 DEF TurnInv
    <3>3. /\ Elapsed' - samples'[slot] = Elapsed - samples[slot]
          /\ (samples[slot] = Elapsed => samples'[slot] = Elapsed')
      BY <2>2, <3>1
    <3> QED
      BY <2>1, <3>2, <3>3 DEF TurnOK
  <2> QED
    BY <1>1, <2>1, <2>3 DEF TurnInv
<1>4. CASE Ended \/ UNCHANGED vars
  <2>1. UNCHANGED vars
    BY <1>4 DEF Ended
  <2> QED
    BY <1>1, <2>1 DEF TurnInv, TurnOK, Elapsed, Slots, vars
<1> QED
  BY <1>2, <1>3, <1>4 DEF Next

(* Every instance but the initial ones emits exactly the configured number   *)
(* of samples before its replacement, and as many again for each failure of  *)
(* it (README, samples_per_series; receiver.go:310-345).                     *)
THEOREM ExactTurns == Spec => ExactSamplesPerTurn
<1> DEFINE Turns ==
        \A slot \in Slots :
          LET due == cfg.churn.SamplesPerSeries * (1 + missed[slot])
          IN  Leaves(slot) /\ cfg.churn.SamplesPerSeries > 0 =>
                IF Initial(slot) THEN samples[slot] <= due
                ELSE samples[slot] = due
<1>1. ASSUME TurnInv, [Next]_vars PROVE Turns
  <2>1. SUFFICES ASSUME NEW slot \in Slots, Leaves(slot),
                        cfg.churn.SamplesPerSeries > 0
        PROVE  IF Initial(slot)
               THEN samples[slot] <= cfg.churn.SamplesPerSeries * (1 + missed[slot])
               ELSE samples[slot] = cfg.churn.SamplesPerSeries * (1 + missed[slot])
    OBVIOUS
  <2>2. applyChurn
    BY <1>1, <2>1 DEF Next, produceMetrics, Ended, vars, Leaves
  <2>3. SlotInv /\ SlotInv' /\ UNCHANGED cfg /\ interval' = interval + 1 /\ phase = "churn"
    BY <1>1, <2>2, SlotStepOfNext DEF TurnInv, applyChurn
  <2>4. PICK d : Comes(slot, d)
    BY <2>1, <2>2, <2>3, ComesOrStays DEF Stays, Leaves
  <2> DEFINE n == cfg.scale
             k == cfg.churn.SamplesPerSeries
             m == missed[slot]
             b == instances[slot] - InstanceOffset
             s == samples[slot]
  <2>5. /\ n \in Nat \ {0} /\ k \in Nat /\ m \in Nat /\ b \in Int /\ s \in Nat
        /\ interval \in Nat
    BY <2>1, <2>3, ConfigsAssumption, BoundsAssumption
       DEF SlotInv, PaceInv, RateOK, Valid
  <2>6. d = b + m * n + n /\ DueAt(d, interval + 1, n, k)
    BY <2>1, <2>3, <2>4, RenderedDue DEF Comes, SlotInv
  <2>7. IF b < n THEN s = interval + 1 ELSE DueAt(b, (interval + 1) - s, n, k)
    <3>1. TurnOK(instances[slot], samples[slot], Elapsed) /\ Elapsed = interval + 1
      BY <1>1, <2>1, <2>3 DEF TurnInv, Elapsed
    <3>2. TurnOK(instances[slot], samples[slot], interval + 1)
      BY <3>1
    <3> QED
      BY <3>2, TurnIs
  <2>8. Initial(slot) <=> b < n
    BY DEF Initial
  <2> HIDE DEF n, k, m, b, s
  <2>9. CASE b < n
    <3>1. interval + 1 <= k * (1 + m)
      <4>1. PICK u \in Int : u = interval + 1
        BY <2>5
      <4>2. DueAt(b + m * n + n, u, n, k)
        BY <2>6, <4>1
      <4> QED
        BY <2>5, <2>9, <4>1, <4>2, DueFirst
    <3> QED
      BY <2>7, <2>8, <2>9, <3>1 DEF k, m, s
  <2>10. CASE ~(b < n)
    <3>1. (interval + 1) - ((interval + 1) - s) = k * (1 + m)
      <4>1. PICK u \in Int, v \in Int : u = interval + 1 /\ v = (interval + 1) - s
        BY <2>5
      <4>2. DueAt(b + m * n + n, u, n, k) /\ DueAt(b, v, n, k)
        BY <2>6, <2>7, <2>10, <4>1
      <4> QED
        BY <2>5, <4>1, <4>2, DueAgain
    <3>2. s = k * (1 + m)
      BY <2>5, <3>1
    <3> QED
      BY <2>8, <2>10, <3>2 DEF k, m, s
  <2> QED
    BY <2>9, <2>10
<1>2. TurnInv /\ [Next]_vars => [Turns]_vars
  BY <1>1
<1> QED
  BY <1>2, TurnInit, TurnStep, PTL DEF Spec, ExactSamplesPerTurn

=============================================================================
