-------------------------- MODULE GenerationHints --------------------------
(***************************************************************************)
(* ExtractGenerationHints (metricstmpl/generation_hints.go): one pass over  *)
(* the metrics of a rendered template checks the hint each one declares in  *)
(* its metadata, against the class list and against the metrics of the same *)
(* name visited before it.  Without errors the hints are removed from the   *)
(* template and returned, one per metric name.                              *)
(***************************************************************************)
EXTENDS Integers, Sequences, FiniteSets

CONSTANTS
    Name,       \* metric names
    Class,      \* the classes that have a strategy
    Templates   \* the templates a user may write

(* What the metadata key of a metric holds, if not a class.                 *)
Absent == "absent"
NonString == "non-string"
BadClass == "unsupported class"
Hint == Class \cup {Absent, NonString, BadClass}

(* `supported`: the metric is a gauge or a sum.                             *)
Metric == [name : Name, supported : BOOLEAN, hint : Hint]

ASSUME ClassAssumption == Class \cap {Absent, NonString, BadClass} = {}
ASSUME TemplatesAssumption == Templates \subseteq Seq(Metric)

VARIABLES
    written,        \* history: the template before the extraction
    template,       \* the template
    next,           \* index of the metric that is visited next
    consistency,    \* per name: what its metrics declared so far
    hints,          \* per name: the hint collected, Absent for none
    errs,           \* the metrics that caused an error
    stage           \* "visiting", "rejected" or "accepted"

vars == <<written, template, next, consistency, hints, errs, stage>>

Init ==
    /\ written \in Templates /\ template = written
    /\ next = 1
    /\ consistency = [n \in Name |->
                        [seen |-> FALSE, hasHint |-> FALSE, hintClass |-> Absent]]
    /\ hints = [n \in Name |-> Absent]
    /\ errs = {}
    /\ stage = "visiting"

(* MetricGenerationHint.Validate *)
Validates(hint) == hint \in Class

(* The metric declares no hint.                                             *)
VisitPlain ==
    /\ stage = "visiting" /\ next \in DOMAIN template
    /\ LET m == template[next]
       IN  /\ m.hint = Absent
           /\ errs' = IF consistency[m.name].hasHint THEN errs \cup {next} ELSE errs
           /\ consistency' = [consistency EXCEPT ![m.name].seen = TRUE]
    /\ next' = next + 1
    /\ UNCHANGED <<written, template, hints, stage>>

(* Mutants: only earlier, or only missing, hints of the name are compared.  *)
Refused_IgnoresPlain(m, state) ==
    \/ ~m.supported \/ m.hint = NonString \/ ~Validates(m.hint)
    \/ state.hasHint /\ state.hintClass # m.hint
Refused_IgnoresClass(m, state) ==
    \/ ~m.supported \/ m.hint = NonString \/ ~Validates(m.hint)
    \/ state.seen /\ ~state.hasHint

(* Why the hint of metric m is refused, given what its name declared so far. *)
Refused(m, state) ==
    \/ ~m.supported
    \/ m.hint = NonString
    \/ ~Validates(m.hint)
    \/ state.seen /\ ~state.hasHint
    \/ state.hasHint /\ state.hintClass # m.hint

VisitHinted ==
    /\ stage = "visiting" /\ next \in DOMAIN template
    /\ LET m == template[next]
       IN  /\ m.hint # Absent
           /\ IF Refused(m, consistency[m.name])
              THEN /\ errs' = errs \cup {next}
                   /\ UNCHANGED <<consistency, hints>>
              ELSE /\ consistency' = [consistency EXCEPT ![m.name] =
                         [seen |-> TRUE, hasHint |-> TRUE, hintClass |-> m.hint]]
                   /\ hints' = [hints EXCEPT ![m.name] = m.hint]
                   /\ UNCHANGED errs
    /\ next' = next + 1
    /\ UNCHANGED <<written, template, stage>>

(* Mutant: the hints are removed before the errors are looked at.           *)
Return_StripsFirst ==
    /\ stage = "visiting" /\ next \notin DOMAIN template
    /\ stage' = IF errs # {} THEN "rejected" ELSE "accepted"
    /\ template' = [k \in DOMAIN template |-> [template[k] EXCEPT !.hint = Absent]]
    /\ UNCHANGED <<written, next, consistency, hints, errs>>

(* All metrics are visited: an error, or the hints and a template without   *)
(* them.                                                                    *)
Return ==
    /\ stage = "visiting" /\ next \notin DOMAIN template
    /\ IF errs # {}
       THEN stage' = "rejected" /\ UNCHANGED template
       ELSE /\ stage' = "accepted"
            /\ template' = [k \in DOMAIN template |->
                              [template[k] EXCEPT !.hint = Absent]]
    /\ UNCHANGED <<written, next, consistency, hints, errs>>

Ended == stage # "visiting" /\ UNCHANGED vars

Next == VisitPlain \/ VisitHinted \/ Return \/ Ended

Spec == Init /\ [][Next]_vars

-----------------------------------------------------------------------------
(* Properties                                                               *)

(* Every variable stays in its range.                                       *)
TypeOK ==
    /\ written \in Seq(Metric) /\ template \in Seq(Metric)
    /\ DOMAIN template = DOMAIN written
    /\ next \in 1 .. (Len(written) + 1)
    /\ consistency \in [Name -> [seen : BOOLEAN, hasHint : BOOLEAN,
                                 hintClass : Class \cup {Absent}]]
    /\ hints \in [Name -> Class \cup {Absent}]
    /\ errs \subseteq DOMAIN written
    /\ stage \in {"visiting", "rejected", "accepted"}

(* A template is well hinted when every hint is a class on a gauge or a sum *)
(* and all metrics of one name declare the same hint or none: a condition   *)
(* on the metrics in which their order plays no part.                       *)
WellHinted(t) ==
    /\ \A k \in DOMAIN t : t[k].hint # Absent => t[k].supported /\ t[k].hint \in Class
    /\ \A k, l \in DOMAIN t : t[k].name = t[l].name => t[k].hint = t[l].hint

(* The single pass accepts exactly the well-hinted templates, wherever in   *)
(* the template the metrics of a family are (generation_hints.go:31-34).    *)
AcceptsWellHinted ==
    /\ stage = "accepted" => WellHinted(written)
    /\ stage = "rejected" => ~WellHinted(written)

(* The map that is returned has the class every metric of the name          *)
(* declared, and no other entry: the template is advanced by it             *)
(* (receiver.go:360).                                                       *)
HintsAsDeclared ==
    stage = "accepted" =>
        /\ \A k \in DOMAIN written : hints[written[k].name] = written[k].hint
        /\ \A n \in Name : hints[n] # Absent =>
               \E k \in DOMAIN written : written[k].name = n

(* The template is not mutated when there are errors, and no hint is left   *)
(* in it otherwise (generation_hints.go:34-35).                             *)
StrippedOnSuccessOnly ==
    /\ stage # "accepted" => template = written
    /\ stage = "accepted" =>
           \A k \in DOMAIN template : template[k] = [written[k] EXCEPT !.hint = Absent]

(* What makes them inductive: as long as there was no error, the state of   *)
(* a name tells what all its metrics visited so far declared; and an error  *)
(* means that the template is not well hinted.                              *)
Visited(n) == {k \in 1 .. (next - 1) : written[k].name = n}
Faithful(n) ==
    /\ consistency[n].seen <=> Visited(n) # {}
    /\ consistency[n].hasHint <=> consistency[n].hintClass # Absent
    /\ hints[n] = consistency[n].hintClass
    /\ \A k \in Visited(n) :
           /\ written[k].hint = consistency[n].hintClass
           /\ written[k].hint # Absent => written[k].supported
    /\ consistency[n].hasHint => consistency[n].seen

PassInv ==
    /\ errs = {} => \A n \in Name : Faithful(n)
    /\ errs # {} => ~WellHinted(written)
    /\ stage # "accepted" => template = written
    /\ stage = "accepted" =>
           /\ errs = {} /\ next = Len(written) + 1
           /\ template = [k \in DOMAIN written |-> [written[k] EXCEPT !.hint = Absent]]
    /\ stage = "rejected" => errs # {}
=============================================================================
