---------------------------- MODULE HistogramsMC ----------------------------
(***************************************************************************)
(* Small instances of Histograms.                                           *)
(***************************************************************************)
EXTENDS Histograms, TLC

AllKinds == {"explicit", "delta", "cumulative"}
Cumulative == {"cumulative"}

(* A fine sample, one a few octaves away, one with negative values and      *)
(* zeros, and one that holds nothing but zeros.                             *)
Sample(s, z, p, n) == [scale |-> s, zero |-> z, pos |-> p, neg |-> n]
Fine == Sample(2, 0, 5 :> 1, EmptyBag)
Far == Sample(0, 0, 2 :> 2, EmptyBag)
Signed == Sample(0, 1, EmptyBag, 0 :> 1)
Zeros == Sample(0, 2, EmptyBag, EmptyBag)
MixedSamples == {Fine, Far, Signed, Zeros}
PositiveSamples == {Fine, Far}

(* All factors low, all high, and alternating ones.                         *)
Indices == -8 .. 20
Factors == {[i \in Indices |-> 8], [i \in Indices |-> 12],
            [i \in Indices |-> IF i % 2 = 0 THEN 12 ELSE 8]}
Hashes == {[pos |-> f, neg |-> f] : f \in Factors}

(* Every fourth bucket's midpoint is rounded down: a span of two buckets    *)
(* that were MaxSize apart may then fit at the finer scale again.           *)
RoundedDown == {<<i, s>> \in Indices \X (0 .. 2) : i % 4 = 1}

Buckets == {[i \in 1 .. 2 |-> 0], [i \in 1 .. 2 |-> i]}
Steps == -2 .. 1
=============================================================================
