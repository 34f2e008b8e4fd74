------------------------------ MODULE ChurnMC ------------------------------
(***************************************************************************)
(* Small configurations of Churn: every scale up to MaxScale with every     *)
(* number of samples up to MaxSamples, and with every lifetime from the     *)
(* interval up to MaxLifetime.  Rates below, at and above one replacement   *)
(* per interval and fractions that reduce and that do not all occur.        *)
(***************************************************************************)
EXTENDS Churn

MaxScale == 6
MaxSamples == 6
MaxLifetime == 7

BySamples ==
    {[scale |-> n, interval |-> 2,
      churn |-> [configured |-> TRUE, SamplesPerSeries |-> k,
                 InstanceLifetime |-> 0]] :
        n \in 1 .. MaxScale, k \in 1 .. MaxSamples}

ByLifetime ==
    {[scale |-> n, interval |-> 2,
      churn |-> [configured |-> TRUE, SamplesPerSeries |-> 0,
                 InstanceLifetime |-> l]] :
        n \in 1 .. MaxScale, l \in 2 .. MaxLifetime}

Both == BySamples \cup ByLifetime

(* Where resources fail to render the runs branch: small scales only.       *)
Few == {c \in Both : c.scale <= 3}
=============================================================================
