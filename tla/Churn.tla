------------------------------- MODULE Churn -------------------------------
(***************************************************************************)
(* The life of the instances of one scenario with churn (config.go 45-85,   *)
(* receiver.go 310-345).  Every collection interval each instance emits one *)
(* sample and then applyChurn replaces the instances that are due, round    *)
(* robin, by new ones.  Rendering the resource of a new instance may fail:  *)
(* its identifier is used up and the old instance goes on.                  *)
(***************************************************************************)
EXTENDS ChurnRate

CONSTANTS
    Configs,        \* [scale, churn, interval] of a scenario with churn
    InstanceOffset, \* cfg.InstanceOffset
    NumIntervals,   \* intervals the run lasts
    Failing,        \* the configurations whose resources may fail to render
    Half            \* half the range of int64

(* Config.Validate (config.go:144-163), and products that fit an int64.     *)
Valid(c) ==
    /\ c.scale \in Nat \ {0} /\ c.interval \in Nat \ {0}
    /\ c.churn.configured = TRUE
    /\ c.churn.SamplesPerSeries \in Nat /\ c.churn.InstanceLifetime \in Nat
    /\ (c.churn.SamplesPerSeries = 0) # (c.churn.InstanceLifetime = 0)
    /\ c.churn.InstanceLifetime # 0 => c.churn.InstanceLifetime >= c.interval
    /\ c.scale * c.interval < Half

(* The configured rate, in replacements per interval (config.go:56-65).     *)
Configured(c) ==
    IF c.churn.SamplesPerSeries > 0
    THEN [num |-> c.scale, den |-> c.churn.SamplesPerSeries]
    ELSE [num |-> c.scale * c.interval, den |-> c.churn.InstanceLifetime]

ASSUME ConfigsAssumption == \A c \in Configs : Valid(c)
ASSUME BoundsAssumption ==
    /\ InstanceOffset \in Nat /\ NumIntervals \in Nat
    /\ Failing \subseteq Configs /\ Half \in Nat

VARIABLES
    cfg,            \* the scenario, one of Configs
    rate,           \* scn.churnRate
    instances,      \* slot -> identifier of its instance
    nextReplacementInstanceID,
    churnRemainder,
    interval,       \* intervals that are over
    phase,          \* "produce" or "churn"
    samples,        \* history: samples the instance of each slot emitted
    missed          \* history: its replacements that failed

vars == <<cfg, rate, instances, nextReplacementInstanceID, churnRemainder,
          interval, phase, samples, missed>>

Slots == 0 .. (cfg.scale - 1)

Init ==
    /\ cfg \in Configs
    /\ rate = newChurnRate(cfg.churn, cfg.scale, cfg.interval, Half)
    /\ instances = [slot \in Slots |-> slot + InstanceOffset]
    /\ nextReplacementInstanceID = cfg.scale
    /\ churnRemainder = 0
    /\ interval = 0
    /\ phase = "produce"
    /\ samples = [slot \in Slots |-> 0]
    /\ missed = samples

(* produceMetrics: every instance emits.                                    *)
produceMetrics ==
    /\ phase = "produce" /\ interval < NumIntervals
    /\ samples' = [slot \in Slots |-> samples[slot] + 1]
    /\ phase' = "churn"
    /\ UNCHANGED <<cfg, rate, instances, nextReplacementInstanceID,
                   churnRemainder, interval, missed>>

(* applyChurn with consumeNextChurnCount, and the step of the time.         *)
applyChurn ==
    /\ phase = "churn"
    /\ LET churn == NextChurnCount(churnRemainder, rate)
           ids == ReplacementIDs(nextReplacementInstanceID, churn)
           due(slot, some) == \E id \in some : id % cfg.scale = slot
       IN  \E rendered \in IF cfg \in Failing THEN SUBSET ids ELSE {ids} :
             /\ instances' = Replaced(instances, cfg.scale, rendered, InstanceOffset)
             /\ samples' = [slot \in Slots |->
                   IF due(slot, rendered) THEN 0 ELSE samples[slot]]
             /\ missed' = [slot \in Slots |->
                   IF due(slot, rendered) THEN 0
                   ELSE IF due(slot, ids) THEN missed[slot] + 1
                   ELSE missed[slot]]
             /\ nextReplacementInstanceID' = nextReplacementInstanceID + churn
             /\ churnRemainder' = NextChurnRemainder(churnRemainder, rate)
    /\ interval' = interval + 1
    /\ phase' = "produce"
    /\ UNCHANGED <<cfg, rate>>

(* EndTime is reached.                                                      *)
Ended ==
    /\ phase = "produce" /\ interval >= NumIntervals
    /\ UNCHANGED vars

Next == produceMetrics \/ applyChurn \/ Ended

Spec == Init /\ [][Next]_vars

-----------------------------------------------------------------------------
(* Properties                                                               *)

(* No fraction of a replacement is lost or gained over the intervals        *)
(* (config.go:45-46, receiver.go:340): after n intervals exactly the whole  *)
(* part of n times the configured rate was consumed, however the fraction   *)
(* was reduced.                                                             *)
ReplacementsMatchRate ==
    nextReplacementInstanceID - cfg.scale
        = (interval * Configured(cfg).num) \div Configured(cfg).den

(* Replacement is round-robin (README, samples_per_series: "Replacement is  *)
(* deterministic and round-robin"): the identifiers created so far fall to  *)
(* the slots in turn, and a slot holds the latest of its own, or an earlier *)
(* one for each failure since.                                              *)
LatestUnlessMissed ==
    \A slot \in Slots :
        LET id == instances[slot] - InstanceOffset + missed[slot] * cfg.scale
        IN  /\ id % cfg.scale = slot
            /\ id < nextReplacementInstanceID
            /\ nextReplacementInstanceID <= id + cfg.scale

Leaves(slot) == instances'[slot] # instances[slot]

(* No instance is replaced before it emitted a sample, and no identifier is *)
(* skipped because two replacements reach one slot in one interval          *)
(* (config.go:152, 161; receiver.go:319-326).                               *)
EveryInstanceEmits ==
    [][/\ nextReplacementInstanceID' - nextReplacementInstanceID <= cfg.scale
       /\ \A slot \in Slots :
            Leaves(slot) => samples[slot] > 0]_vars

Initial(slot) == instances[slot] - InstanceOffset < cfg.scale

(* README, samples_per_series: "the exact number of samples each new time   *)
(* series should emit before its instance is replaced", and the initial     *)
(* ones "may have fewer samples".  When a replacement cannot be rendered    *)
(* the instance goes on: each failure costs it exactly one more turn, of    *)
(* exactly the configured samples.                                          *)
ExactSamplesPerTurn ==
    [][\A slot \in Slots :
         LET due == cfg.churn.SamplesPerSeries * (1 + missed[slot])
         IN  Leaves(slot) /\ cfg.churn.SamplesPerSeries > 0 =>
               IF Initial(slot) THEN samples[slot] <= due
               ELSE samples[slot] = due]_vars
=============================================================================
