--------------------------- MODULE NumberSeriesMC ---------------------------
(***************************************************************************)
(* Small instances of NumberSeries: 1.0 is 100, so a Noise of 5 is half of  *)
(* the last decimal of a metric written with one decimal.                   *)
(***************************************************************************)
EXTENDS NumberSeries

Hints == {"none", "clock", "constant", "current_count", "slow_gauge",
          "sparse_counter", "stable_binary", "steady_counter"}
Values == {"double", "int"}

Gauges == [type : {"gauge"}, monotonic : {FALSE}, temporality : {"unspecified"},
           value : Values, hint : Hints]
Sums == [type : {"sum"}, monotonic : BOOLEAN,
         temporality : {"cumulative", "delta", "unspecified"},
         value : Values, hint : Hints]
AllKinds == Gauges \cup Sums

Only(hint, K) == {k \in K : k.hint = hint}
PlainGauges == Only("none", Gauges)

(* Negative, 0, a ratio with one decimal, 1, and numbers just above 1 and   *)
(* well above, with and without decimals.                                   *)
MixedSeeds == {-100, -30, 0, 10, 100, 105, 130}
OutOfUnit == {-100, 130, 300}

NarrowNoise == {-55, -5, 0, 5, 35}
=============================================================================
