----------------------------- MODULE Scenarios -----------------------------
(***************************************************************************)
(* One scenario from its template to what the consumer gets                 *)
(* (receiver.go 114-200, 258-308, 391-436): the template is rendered, its   *)
(* hints are extracted, histograms and temporalities are overridden, the    *)
(* instances' resources are rendered, and the hash and the plan of each     *)
(* series are stored by the index at which ForEachDataPoint visits it.      *)
(* Then each instance emits a copy of the template in every interval, late  *)
(* by a jitter.  Values are those of NumberSeries and Histograms, failing   *)
(* hints those of GenerationHints.                                          *)
(***************************************************************************)
EXTENDS Rendering

CONSTANTS
    Options,        \* [exponential, temporality]: the overrides of a scenario
    Injected,       \* keys of the resource attributes template
    Scale, InstanceOffset, StartTime, EndTime, Interval,
    Jitters         \* |NormFloat64()| times the standard deviation

Types == {"gauge", "sum", "histogram", "exponential", "summary", "empty"}
Temporalities == {"unspecified", "delta", "cumulative"}

(* Every piece is written with [name, type, temporality, resource] besides  *)
(* its steps.                                                               *)
ASSUME SourceAssumption ==
    \A in \in Inputs : \A k \in DOMAIN in.source : LET s == in.source[k] IN
        /\ s.type \in Types /\ s.temporality \in Temporalities
        /\ s.type = "empty" => \A j \in DOMAIN s.steps : s.steps[j].op # "point"
ASSUME OptionsAssumption ==
    Options \subseteq [exponential : BOOLEAN, temporality : Temporalities]
ASSUME NumbersAssumption ==
    /\ Scale \in Nat /\ InstanceOffset \in Nat /\ StartTime \in Nat
    /\ Interval \in Nat \ {0} /\ EndTime \in Nat /\ Jitters \subseteq Nat

VARIABLES
    config,         \* one of Options
    stage,          \* of the construction, then "running" or "failed"
    template,       \* scn.metricsTemplate
    instances,      \* identifier -> resource
    seriesIdentityHashes, seriesPlans,
    currentTime,
    waiting,        \* the instances that have not emitted in this interval
    emitted,        \* what the consumer got last: [instance, points]
    last            \* per instance the timestamp it emitted last, if any

scenarioVars == <<config, stage, template, instances, seriesIdentityHashes,
                  seriesPlans, currentTime, waiting, emitted, last>>
vars == <<renderingVars, scenarioVars>>

None == -1

Init ==
    /\ RenderingInit
    /\ config \in Options /\ stage = "render"
    /\ template = <<>> /\ instances = <<>>
    /\ seriesIdentityHashes = <<>> /\ seriesPlans = <<>>
    /\ currentTime = StartTime /\ waiting = {}
    /\ emitted = [instance |-> None, points |-> <<>>]
    /\ last = <<>>

-----------------------------------------------------------------------------
(* Visiting and overriding                                                  *)

(* The data points <<metric, point>> in the order of ForEachDataPoint.      *)
Visited(ms) == FlattenSeq([k \in DOMAIN ms |-> [l \in DOMAIN ms[k].points |-> <<k, l>>]])

(* What was written in piece k: one stretch of the text.                    *)
PointsOf(k) ==
    LET own == {i \in DOMAIN rendered : rendered[i][1] = k}
    IN  IF own = {} THEN <<>> ELSE SubSeq(rendered, Min(own), Max(own))

(* The text of the rendering as metrics.                                    *)
Unmarshaled ==
    [k \in DOMAIN source |->
        LET own == PointsOf(k)
        IN  [name |-> source[k].name, type |-> source[k].type,
             temporality |-> source[k].temporality, resource |-> source[k].resource,
             points |-> [l \in DOMAIN own |-> [attributes |-> own[l][2], start |-> None]]]]

(* The metric keeps its series, each with its attributes.                   *)
replaceHistogramsWithExponentialHistograms(m) ==
    IF m.type = "histogram" /\ config.exponential THEN [m EXCEPT !.type = "exponential"] ELSE m

(* What the visits of its data points make of a metric.                     *)
Overridden(m) ==
    LET override == config.temporality # "unspecified"
        ours == IF override /\ m.type \in {"sum", "histogram"} THEN config.temporality
                ELSE IF m.type # "exponential" THEN m.temporality
                ELSE IF config.temporality = "cumulative" THEN "cumulative" ELSE "delta"
    IN  IF m.points = <<>> THEN m
        ELSE [m EXCEPT !.temporality = ours,
                       !.points = [l \in DOMAIN @ |-> [@[l] EXCEPT !.start = StartTime]]]

IdentityHash(m, p) == <<m.name, p.attributes>>
PlanNumberSeries(m) == <<m.name, m.type, m.temporality>>
isNumber(m) == m.type \in {"gauge", "sum"}

(* GetResources: the instances by identifier, with every injected key.      *)
Resources ==
    [id \in InstanceOffset .. InstanceOffset + Scale - 1 |-> [key \in Injected |-> <<key, id>>]]

-----------------------------------------------------------------------------
(* Construction                                                             *)

(* An error of the rendering or of the hints is returned.                   *)
ExtractGenerationHints ==
    /\ stage = "render" /\ result # "pending"
    /\ \/ stage' = "failed" /\ UNCHANGED template
       \/ result = "metrics" /\ stage' = "override" /\ template' = Unmarshaled
    /\ UNCHANGED <<renderingVars, config, instances, seriesIdentityHashes, seriesPlans,
                   currentTime, waiting, emitted, last>>

(* Mutant: the temporality is overridden before the histograms are replaced. *)
Override_First ==
    /\ stage = "override" /\ stage' = "resources"
    /\ template' = [k \in DOMAIN template |->
          replaceHistogramsWithExponentialHistograms(Overridden(template[k]))]
    /\ UNCHANGED <<renderingVars, config, instances, seriesIdentityHashes, seriesPlans,
                   currentTime, waiting, emitted, last>>
Override ==
    /\ stage = "override" /\ stage' = "resources"
    /\ template' = [k \in DOMAIN template |->
          Overridden(replaceHistogramsWithExponentialHistograms(template[k]))]
    /\ UNCHANGED <<renderingVars, config, instances, seriesIdentityHashes, seriesPlans,
                   currentTime, waiting, emitted, last>>

GetResources ==
    /\ stage = "resources"
    /\ \/ stage' = "plans" /\ instances' = Resources
       \/ stage' = "failed" /\ Scale > 0 /\ UNCHANGED instances
    /\ UNCHANGED <<renderingVars, config, template, seriesIdentityHashes, seriesPlans,
                   currentTime, waiting, emitted, last>>

(* Mutant: plans for the number series only, one after the other.           *)
Plans_NumbersOnly(visited) ==
    LET numbers == SelectSeq(visited, LAMBDA v : isNumber(template[v[1]]))
    IN  [i \in DOMAIN visited |-> IF i \in DOMAIN numbers
            THEN PlanNumberSeries(template[numbers[i][1]]) ELSE <<>>]
Plans(visited) ==
    [i \in DOMAIN visited |-> LET m == template[visited[i][1]]
        IN  IF isNumber(m) THEN PlanNumberSeries(m) ELSE <<>>]

(* The instances that emit at a time.                                       *)
Due(time) == IF time < EndTime THEN DOMAIN instances ELSE {}

PlanSeries ==
    /\ stage = "plans" /\ stage' = "running"
    /\ LET visited == Visited(template) IN
        /\ seriesIdentityHashes' = [i \in DOMAIN visited |-> LET m == template[visited[i][1]]
                                        IN  IdentityHash(m, m.points[visited[i][2]])]
        /\ seriesPlans' = Plans(visited)
    /\ waiting' = Due(currentTime)
    /\ UNCHANGED <<renderingVars, config, template, instances, currentTime, emitted, last>>

-----------------------------------------------------------------------------
(* Emission                                                                 *)

(* Mutant: the cap is the interval.                                         *)
addJitter_AtInterval(jitter) ==
    currentTime + IF jitter > Interval THEN Interval ELSE jitter
(* The jitter is capped so that the next interval is not reached.           *)
addJitter(jitter) ==
    currentTime + IF jitter >= Interval THEN Interval - 1 ELSE jitter

(* Mutant: all attributes of the instance are put.                          *)
overrideExisting_All(resource, target) ==
    [key \in DOMAIN target \cup DOMAIN resource |->
        IF key \in DOMAIN resource THEN resource[key] ELSE target[key]]
overrideExistingAttributes(resource, target) ==
    [key \in DOMAIN target |->
        IF key \in DOMAIN resource THEN resource[key] ELSE target[key]]

(* Instances emit in slot order, or in any order with workers.              *)
produceMetricsForInstance(id) ==
    /\ stage = "running" /\ id \in waiting
    /\ waiting' = waiting \ {id}
    /\ \E jitter \in Jitters :
        LET visited == Visited(template)
            Emitted(i) ==
                LET m == template[visited[i][1]]
                    p == m.points[visited[i][2]]
                IN  [name |-> m.name, type |-> m.type, temporality |-> m.temporality,
                     resource |-> overrideExistingAttributes(instances[id], m.resource),
                     attributes |-> p.attributes, start |-> p.start,
                     hash |-> seriesIdentityHashes[i], plan |-> seriesPlans[i]]
        IN  /\ emitted' = [instance |-> id, points |-> [i \in DOMAIN visited |-> Emitted(i)]]
            /\ last' = [i \in DOMAIN last \cup {id} |->
                            IF i = id THEN addJitter(jitter) ELSE last[i]]
    /\ UNCHANGED <<renderingVars, config, stage, template, instances, seriesIdentityHashes,
                   seriesPlans, currentTime>>

NextInterval ==
    /\ stage = "running" /\ waiting = {} /\ currentTime < EndTime
    /\ currentTime' = currentTime + Interval /\ waiting' = Due(currentTime')
    /\ UNCHANGED <<renderingVars, config, stage, template, instances, seriesIdentityHashes,
                   seriesPlans, emitted, last>>

Ended ==
    /\ \/ stage = "failed"
       \/ stage = "running" /\ currentTime >= EndTime
    /\ UNCHANGED vars

Render == (Renderer \/ \E g \in Calls(source) : LoopGoroutine(g)) /\ UNCHANGED scenarioVars

Next ==
    \/ Render
    \/ ExtractGenerationHints \/ Override \/ GetResources \/ PlanSeries
    \/ \E id \in DOMAIN instances : produceMetricsForInstance(id)
    \/ NextInterval \/ Ended

Spec == Init /\ [][Next]_vars

(* Goroutines that can run do so.                                           *)
Fairness ==
    /\ WF_vars(Renderer /\ UNCHANGED scenarioVars)
    /\ \A g \in UNION {Calls(in.source) : in \in Inputs} :
          WF_vars(LoopGoroutine(g) /\ UNCHANGED scenarioVars)

FairSpec == Spec /\ Fairness
-----------------------------------------------------------------------------
(* Properties                                                               *)

(* README, histogram_override: "The series and their attributes are         *)
(* preserved", and resources: "injected into all resource metrics for which *)
(* a matching resource attribute key exists".  From the text of the         *)
(* template to the consumer no series is lost, doubled, reordered or given  *)
(* the attributes of another one, and no resource those of another instance; *)
(* every series starts with the run (receiver.go:127-132, 258-297, 396-398). *)
SeriesPreserved ==
    emitted.instance # None =>
        /\ Len(emitted.points) = Len(AsWritten)
        /\ \A i \in DOMAIN AsWritten :
            LET written == source[AsWritten[i][1]]
                point == emitted.points[i]
            IN  /\ point.name = written.name /\ point.attributes = AsWritten[i][2]
                /\ point.start = StartTime
                /\ point.resource = [key \in DOMAIN written.resource |->
                        IF key \in Injected THEN <<key, emitted.instance>>
                        ELSE written.resource[key]]

(* README, temporality_override and histogram_override: what is emitted has *)
(* the type and the temporality the scenario asks for, or those it is       *)
(* written with; exponential histograms are delta unless they are to be     *)
(* cumulative (receiver.go:127-158).                                        *)
OverridesHonoured ==
    emitted.instance # None => \A i \in DOMAIN emitted.points :
        LET written == source[AsWritten[i][1]]
            point == emitted.points[i]
        IN  /\ point.type = IF config.exponential /\ written.type = "histogram"
                            THEN "exponential" ELSE written.type
            /\ point.temporality =
                IF point.type \in {"gauge", "summary"} THEN written.temporality
                ELSE IF config.temporality # "unspecified" THEN config.temporality
                ELSE IF point.type = "exponential" THEN "delta" ELSE written.temporality

(* Each emitted point is varied by its own hash, and a number by the plan   *)
(* made for its own metric: the index at which the series was visited at    *)
(* the start is the one at which it is visited in every emission, with      *)
(* metrics that have no points or are no numbers in between                 *)
(* (receiver.go:172-179, 404-408).                                          *)
PlanPerSeries ==
    emitted.instance # None => \A i \in DOMAIN emitted.points :
        LET point == emitted.points[i]
        IN  /\ point.hash = <<point.name, point.attributes>>
            /\ point.plan = IF isNumber(point)
                            THEN <<point.name, point.type, point.temporality>> ELSE <<>>

(* For one instance, whatever its jitters, each emission is later than the  *)
(* one before and none is before the start time of the series (README,      *)
(* interval_jitter_std_dev: "capped by the interval, so that the next       *)
(* interval will never start at or before the previous one";                *)
(* receiver.go:299-308, 400).                                               *)
TimestampsIncrease ==
    [][\A id \in waiting \ waiting' :
          /\ last'[id] >= StartTime
          /\ id \in DOMAIN last => last'[id] > last[id]]_vars
=============================================================================
