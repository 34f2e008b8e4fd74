----------------------------- MODULE ChurnRate -----------------------------
(***************************************************************************)
(* The arithmetic of instance churn (config.go, receiver.go): the rate at   *)
(* which the instances of a scenario are replaced, the accumulation of the  *)
(* fractional rate over the collection intervals, and the round-robin slot  *)
(* a replacement goes to.  No state: Churn and Generator both use these     *)
(* operators.                                                               *)
(***************************************************************************)
EXTENDS Integers, FiniteSetsExt

(* config.go gcdInt64 of a pair of arguments that are not negative.         *)
gcdInt64[ab \in Nat \X Nat] ==
    IF ab[2] = 0 THEN ab[1] ELSE gcdInt64[<<ab[2], ab[1] % ab[2]>>]

NoChurn == [replacements |-> 0, intervals |-> 0]

(* The value of an int64 product, for integers of half range `half`         *)
(* (2^63 in the code).                                                      *)
Wrap(x, half) == ((x + half) % (2 * half)) - half

(* Mutant: only the intervals are divided.                                  *)
reduceChurnRate_OneSide(replacements, intervals) ==
    IF replacements <= 0 \/ intervals <= 0
    THEN NoChurn
    ELSE [replacements |-> replacements,
          intervals |-> intervals \div gcdInt64[<<replacements, intervals>>]]

reduceChurnRate(replacements, intervals) ==
    IF replacements <= 0 \/ intervals <= 0
    THEN NoChurn
    ELSE LET divisor == gcdInt64[<<replacements, intervals>>]
         IN  [replacements |-> replacements \div divisor,
              intervals    |-> intervals \div divisor]

(* churn is NoChurnCfg when the scenario configures none; its two fields    *)
(* are zero when unset.                                                     *)
NoChurnCfg == [configured |-> FALSE, SamplesPerSeries |-> 0, InstanceLifetime |-> 0]

newChurnRate(churn, scale, interval, half) ==
    IF ~churn.configured THEN NoChurn
    ELSE IF churn.SamplesPerSeries > 0
    THEN reduceChurnRate(scale, churn.SamplesPerSeries)
    ELSE reduceChurnRate(Wrap(scale * interval, half), churn.InstanceLifetime)

enabled(rate) == rate.replacements > 0 /\ rate.intervals > 0

(* The whole replacements due this interval, and the fraction carried over. *)
NextChurnCount(remainder, rate) ==
    IF enabled(rate) THEN (remainder + rate.replacements) \div rate.intervals ELSE 0

NextChurnRemainder_Dropped(remainder, rate) == 0    \* mutant: no fraction is kept

(* Mutant: what was consumed is not taken off.                              *)
NextChurnRemainder_Kept(remainder, rate) == remainder + rate.replacements

NextChurnRemainder(remainder, rate) ==
    IF enabled(rate) THEN (remainder + rate.replacements) % rate.intervals ELSE remainder

(* Mutant: the first identifier is skipped.                                 *)
ReplacementIDs_OffByOne(next, churn) == (next + 1) .. (next + churn)

(* The identifiers consumed by `churn` replacements starting at `next`.     *)
ReplacementIDs(next, churn) == next .. (next + churn - 1)

(* The instances of n slots after the identifiers `rendered` were put in    *)
(* their slots in ascending order: the last one to reach a slot stays.      *)
Replaced(instances, n, rendered, offset) ==
    [slot \in 0 .. (n - 1) |->
        LET arrivals == {id \in rendered : id % n = slot}
        IN  IF arrivals = {} THEN instances[slot] ELSE Max(arrivals) + offset]
=============================================================================
