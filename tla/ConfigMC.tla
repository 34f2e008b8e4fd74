------------------------------ MODULE ConfigMC ------------------------------
(***************************************************************************)
(* Small configurations for Config.  The clock is at 10; a second is 2.     *)
(***************************************************************************)
EXTENDS Config

Inline == [Scale |-> 1, Concurrency |-> 0, Churn |-> NoChurnCfg]
Base == [StartTime |-> 4, EndTime |-> 8, StartNowMinus |-> 0, EndNowMinus |-> 0,
         Interval |-> 2, RealTime |-> FALSE, RunIndefinitely |-> FALSE,
         Scenarios |-> <<Inline>>]

(* Every combination of the settings of the time range.                     *)
Times ==
    {[Base EXCEPT !.StartTime = st, !.EndTime = et, !.StartNowMinus = snm,
                  !.EndNowMinus = enm, !.Interval = iv, !.RealTime = rt,
                  !.RunIndefinitely = ri] :
        st \in {0, 4, 8}, et \in {0, 4, 8, 12}, snm \in {0, 3, 6},
        enm \in {0, 3, 6}, iv \in {1, 2}, rt \in BOOLEAN, ri \in BOOLEAN}

ChurnCfgs ==
    {[configured |-> TRUE, SamplesPerSeries |-> k, InstanceLifetime |-> l] :
        k \in -1 .. 4, l \in {-2, 0, 1, 2, 3, 5, 6, 7}} \cup {NoChurnCfg}

Scenarios ==
    {[Scale |-> n, Concurrency |-> c, Churn |-> churn] :
        n \in 0 .. 6, c \in -1 .. 3, churn \in ChurnCfgs}

Some == {[Scale |-> 4, Concurrency |-> 3, Churn |-> NoChurnCfg], Inline}

(* Every scenario alone or after another one.                               *)
WithScenarios ==
    {[Base EXCEPT !.Scenarios = <<scn>>, !.Interval = iv] :
        scn \in Scenarios, iv \in {2, 3}}
    \cup {[Base EXCEPT !.Scenarios = <<first, scn>>] :
        first \in Some, scn \in Scenarios}

All == Times \cup WithScenarios
=============================================================================
