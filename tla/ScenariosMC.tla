---------------------------- MODULE ScenariosMC ----------------------------
(***************************************************************************)
(* A small configuration of Scenarios: every outcome of every extension     *)
(* with a template of one loop; nested loops, and loops left by a {{break}} *)
(* or not ranged over, with every outcome; and good templates of two        *)
(* metrics of every type, also without data points, with the same series    *)
(* twice or with a loop around both.                                        *)
(***************************************************************************)
EXTENDS Scenarios

Loop(from, to) == [op |-> "loop", from |-> from, to |-> to]
Take(g, after) == [op |-> "next", loop |-> g, after |-> after]
End(g) == [op |-> "end", loop |-> g]
Point(values) == [op |-> "point", values |-> values]

(* {{range $i := loop from to}} point {{end}} as piece k.                   *)
Ranged(k, from, to) ==
    LET g == <<k, 1>>
        turns == IF from > to THEN 0 ELSE to - from + 1
    IN  [j \in 1 .. 2 * turns + 2 |->
            IF j = 1 THEN Loop(from, to)
            ELSE IF j = 2 * turns + 2 THEN End(g)
            ELSE IF j % 2 = 0 THEN Take(g, <<k, 2 * turns + 3>>) ELSE Point(<<g>>)]

(* In the turns 1 and 2 of a loop a loop from there to 2.                   *)
Nested(k) ==
    LET i == <<k, 1>>
        one == <<k, 3>>
        two == <<k, 10>>
    IN  <<Loop(1, 2), Take(i, <<k, 15>>),
            Loop(1, 2), Take(one, <<k, 9>>), Point(<<i, one>>),
                        Take(one, <<k, 9>>), Point(<<i, one>>), End(one),
          Take(i, <<k, 15>>),
            Loop(2, 2), Take(two, <<k, 14>>), Point(<<i, two>>), End(two),
          End(i)>>

(* Left in the second of three turns, after a loop that nobody ranges over. *)
Left(k) == LET g == <<k, 2>> IN
    <<Loop(7, 8), Loop(1, 3), Take(g, <<k, 6>>), Point(<<g>>), Take(g, <<k, 6>>), Point(<<>>)>>

Metric(name, type, temporality, keys, steps) ==
    [name |-> name, type |-> type, temporality |-> temporality, steps |-> steps,
     resource |-> [key \in keys |-> "written"]]

Sum(k) == Metric("a", "sum", "delta", {"host"}, Ranged(k, 1, 2))
NoSum(k) == Metric("a", "sum", "cumulative", {"host"}, Ranged(k, 1, 0))
Gauge(k) == Metric("b", "gauge", "unspecified", {"zone"}, Ranged(k, 0, 1))
Summary(k) == Metric("b", "summary", "unspecified", {}, <<Point(<<>>)>>)
Buckets(k) == Metric("c", "histogram", "cumulative", {"host", "zone"}, Ranged(k, 1, 2))
Exponential(k) == Metric("c", "exponential", "cumulative", {"host"}, Ranged(k, 1, 1))
Empty(k) == Metric("d", "empty", "unspecified", {"host"}, <<>>)
Metrics(k) == {Sum(k), NoSum(k), Gauge(k), Summary(k), Buckets(k), Exponential(k), Empty(k)}

NestedSum == Metric("a", "sum", "delta", {"host"}, Nested(1))
LeftGauge(k) == Metric("b", "gauge", "unspecified", {"zone"}, Left(k))
Around == LET g == <<1, 1>> IN
    <<Metric("a", "sum", "delta", {"host"}, <<Loop(1, 2), Take(g, <<2, 4>>), Point(<<g>>)>>),
      Metric("b", "sum", "delta", {"host"}, <<Take(g, <<2, 4>>), Point(<<g>>), End(g)>>)>>

AllGood == [e \in DOMAIN Extensions |-> "good"]
LastOnly(content) == <<"missing", "unparsable", content>>
SmallInputs ==
    [files : [DOMAIN Extensions -> Content], source : {<<Sum(1)>>}]
    \cup [files : {LastOnly(c) : c \in Content}, source : {<<NestedSum, LeftGauge(2)>>}]
    \cup [files : {AllGood}, source : Metrics(1) \X Metrics(2)
                                 \cup {<<Summary(1), Buckets(2), Sum(3)>>, Around}]

Overrides == [exponential : BOOLEAN, temporality : Temporalities]
Keys == {"host", "cloud"}
NoOrLargeJitter == {0, 1, 7}
=============================================================================
