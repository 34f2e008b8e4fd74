----------------------- MODULE GenerationHints_proof -----------------------
(***************************************************************************)
(* Proofs about GenerationHints, for every set of names, of classes and of  *)
(* templates: one pass over the metrics accepts exactly the well-hinted     *)
(* templates and returns what they declare.                                 *)
(***************************************************************************)
EXTENDS GenerationHints, TLAPS

(* The metric that is visited, and what there is to know of it.             *)
LEMMA CurrentMetric ==
    ASSUME TypeOK, stage # "accepted" => template = written,
           stage = "visiting", next \in DOMAIN template
    PROVE  /\ written[next] = template[next] /\ written[next] \in Metric
           /\ next \in DOMAIN written /\ next \in 1 .. Len(written)
  <1>1. next \in 1 .. Len(written) /\ next \in DOMAIN written /\ template = written
    BY DEF TypeOK
  <1>2. QED
    BY <1>1 DEF TypeOK

(* The type invariant is inductive.                                         *)
LEMMA TypeStep ==
    ASSUME TypeOK, stage # "accepted" => template = written, [Next]_vars
    PROVE  TypeOK'
  <1> USE ClassAssumption
  <1>1. CASE VisitPlain
    <2>1. /\ written[next] = template[next] /\ written[next] \in Metric
          /\ next \in DOMAIN written /\ next \in 1 .. Len(written)
      BY <1>1, CurrentMetric DEF VisitPlain
    <2>2. template[next].name \in Name
      BY <2>1 DEF Metric
    <2>3. consistency' \in [Name -> [seen : BOOLEAN, hasHint : BOOLEAN,
                                     hintClass : Class \cup {Absent}]]
      BY <1>1, <2>2 DEF VisitPlain, TypeOK
    <2>4. next' \in 1 .. (Len(written') + 1)
      BY <1>1, <2>1 DEF VisitPlain, TypeOK
    <2>5. QED
      BY <1>1, <2>1, <2>3, <2>4 DEF VisitPlain, TypeOK
  <1>2. CASE VisitHinted
    <2>1. /\ written[next] = template[next] /\ written[next] \in Metric
          /\ next \in DOMAIN written /\ next \in 1 .. Len(written)
      BY <1>2, CurrentMetric DEF VisitHinted
    <2>2. template[next].name \in Name
      BY <2>1 DEF Metric
    <2>3. next' \in 1 .. (Len(written') + 1)
      BY <1>2, <2>1 DEF VisitHinted, TypeOK
    <2>4. CASE Refused(template[next], consistency[template[next].name])
      BY <1>2, <2>1, <2>3, <2>4 DEF VisitHinted, TypeOK
    <2>5. CASE ~Refused(template[next], consistency[template[next].name])
      <3>1. template[next].hint \in Class
        BY <2>5 DEF Refused, Validates
      <3> DEFINE r == [seen |-> TRUE, hasHint |-> TRUE, hintClass |-> template[next].hint]
                 States == [seen : BOOLEAN, hasHint : BOOLEAN,
                            hintClass : Class \cup {Absent}]
      <3>2. consistency' \in [Name -> States]
        <4>1. r \in States
          BY <3>1
        <4>2. consistency \in [Name -> States]
          BY DEF TypeOK
        <4>3. consistency' = [consistency EXCEPT ![template[next].name] = r]
          BY <1>2, <2>5 DEF VisitHinted
        <4> HIDE DEF r, States
        <4>4. QED
          BY <2>2, <4>1, <4>2, <4>3
      <3>3. hints' \in [Name -> Class \cup {Absent}]
        BY <1>2, <2>2, <2>5, <3>1 DEF VisitHinted, TypeOK
      <3>4. QED
        BY <1>2, <2>1, <2>3, <2>5, <3>2, <3>3 DEF VisitHinted, TypeOK
    <2>6. QED
      BY <2>4, <2>5
  <1>3. CASE Return
    <2>1. CASE errs # {}
      BY <1>3, <2>1 DEF Return, TypeOK
    <2>2. CASE errs = {}
      <3> DEFINE stripped == [k \in DOMAIN template |->
                                [template[k] EXCEPT !.hint = Absent]]
      <3>1. template' = stripped
        BY <1>3, <2>2 DEF Return
      <3>2. template \in Seq(Metric) /\ DOMAIN template = 1 .. Len(template)
            /\ Len(template) \in Nat
        BY DEF TypeOK
      <3>3. \A k \in DOMAIN template : [template[k] EXCEPT !.hint = Absent] \in Metric
        <4>1. TAKE k \in DOMAIN template
        <4>2. template[k] \in Metric
          BY <3>2
        <4>3. Absent \in Hint
          BY DEF Hint
        <4> HIDE DEF Hint
        <4>4. QED
          BY <4>2, <4>3 DEF Metric
      <3>4. stripped \in [1 .. Len(template) -> Metric]
        BY <3>2, <3>3
      <3>5. stripped \in Seq(Metric) /\ DOMAIN stripped = DOMAIN template
        BY <3>2, <3>4
      <3>6. QED
        BY <1>3, <2>2, <3>1, <3>5 DEF Return, TypeOK
    <2>3. QED
      BY <2>1, <2>2
  <1>4. CASE Ended \/ UNCHANGED vars
    BY <1>4 DEF Ended, vars, TypeOK
  <1>5. QED
    BY <1>1, <1>2, <1>3, <1>4 DEF Next

(* An unhinted metric: an error exactly if the name had a hint before.      *)
LEMMA PlainStep ==
    ASSUME TypeOK, PassInv, VisitPlain
    PROVE  PassInv'
  <1> DEFINE m == template[next]
  <1> USE ClassAssumption
  <1>1. /\ written[next] = m /\ m \in Metric /\ m.hint = Absent /\ m.name \in Name
        /\ next \in DOMAIN written /\ next \in 1 .. Len(written)
    BY CurrentMetric DEF VisitPlain, PassInv, Metric
  <1>2. ASSUME errs' = {} PROVE \A n \in Name : Faithful(n)'
    <2>1. errs = {} /\ ~consistency[m.name].hasHint
      BY <1>2 DEF VisitPlain
    <2>2. SUFFICES ASSUME NEW n \in Name PROVE Faithful(n)'
      OBVIOUS
    <2>3. Faithful(n)
      BY <2>1 DEF PassInv
    <2>4. Visited(n)' = IF n = m.name THEN Visited(n) \cup {next} ELSE Visited(n)
      BY <1>1 DEF VisitPlain, Visited, TypeOK
    <2>5. CASE n = m.name
      <3>1. /\ consistency'[n].seen = TRUE
            /\ consistency'[n].hasHint = consistency[n].hasHint
            /\ consistency'[n].hintClass = consistency[n].hintClass
        BY <2>5 DEF VisitPlain, TypeOK
      <3>2. consistency[n].hintClass = Absent
        BY <2>1, <2>3, <2>5 DEF Faithful
      <3>3. QED
        BY <1>1, <2>3, <2>4, <2>5, <3>1, <3>2 DEF Faithful, VisitPlain
    <2>6. CASE n # m.name
      <3>1. consistency'[n] = consistency[n]
        BY <2>6 DEF VisitPlain, TypeOK
      <3>2. QED
        BY <2>3, <2>4, <2>6, <3>1 DEF Faithful, VisitPlain
    <2>7. QED
      BY <2>5, <2>6
  <1>3. ASSUME errs' # {} PROVE ~WellHinted(written)
    <2>1. CASE errs # {}
      BY <2>1 DEF PassInv
    <2>2. CASE errs = {}
      <3>1. consistency[m.name].hasHint
        BY <1>3, <2>2 DEF VisitPlain
      <3>2. Faithful(m.name)
        BY <1>1, <2>2 DEF PassInv
      <3>3. PICK k \in Visited(m.name) : TRUE
        BY <3>1, <3>2 DEF Faithful
      <3>4. written[k].hint # Absent /\ written[k].name = m.name /\ k \in DOMAIN written
        BY <1>1, <3>1, <3>2, <3>3 DEF Faithful, Visited, TypeOK
      <3>5. QED
        BY <1>1, <3>4 DEF WellHinted
    <2>3. QED
      BY <2>1, <2>2
  <1>4. QED
    BY <1>2, <1>3 DEF PassInv, VisitPlain

(* A hinted metric: an error exactly if the hint is refused.                *)
LEMMA HintedStep ==
    ASSUME TypeOK, PassInv, VisitHinted
    PROVE  PassInv'
  <1> DEFINE m == template[next]
             state == consistency[m.name]
  <1> USE ClassAssumption
  <1>1. /\ written[next] = m /\ m \in Metric /\ m.hint # Absent /\ m.name \in Name
        /\ next \in DOMAIN written /\ next \in 1 .. Len(written)
    BY CurrentMetric DEF VisitHinted, PassInv, Metric
  <1>2. CASE Refused(m, state)
    <2>1. errs' # {}
      BY <1>2 DEF VisitHinted
    <2>2. ~WellHinted(written)
      <3>1. CASE errs # {}
        BY <3>1 DEF PassInv
      <3>2. CASE errs = {}
        <4>1. Faithful(m.name)
          BY <1>1, <3>2 DEF PassInv
        <4>2. CASE ~m.supported \/ m.hint = NonString \/ ~Validates(m.hint)
          BY <1>1, <4>2 DEF WellHinted, Validates
        <4>3. CASE state.seen /\ state.hintClass # m.hint
          <5>1. PICK k \in Visited(m.name) : TRUE
            BY <4>1, <4>3 DEF Faithful
          <5>2. /\ written[k].hint = state.hintClass /\ written[k].name = m.name
                /\ k \in DOMAIN written
            BY <1>1, <4>1, <5>1 DEF Faithful, Visited, TypeOK
          <5>3. QED
            BY <1>1, <4>3, <5>2 DEF WellHinted
        <4>4. state.seen /\ ~state.hasHint => state.hintClass # m.hint
          BY <1>1, <4>1 DEF Faithful
        <4>5. state.hasHint => state.seen
          BY <4>1 DEF Faithful
        <4>6. QED
          BY <1>2, <4>2, <4>3, <4>4, <4>5 DEF Refused
      <3>3. QED
        BY <3>1, <3>2
    <2>3. QED
      BY <2>1, <2>2 DEF PassInv, VisitHinted
  <1>3. CASE ~Refused(m, state)
    <2>1. /\ m.supported /\ m.hint \in Class
          /\ ~(state.seen /\ ~state.hasHint)
          /\ ~(state.hasHint /\ state.hintClass # m.hint)
      BY <1>3 DEF Refused, Validates
    <2>2. errs' = errs /\ hints' = [hints EXCEPT ![m.name] = m.hint]
          /\ consistency' = [consistency EXCEPT ![m.name] =
                [seen |-> TRUE, hasHint |-> TRUE, hintClass |-> m.hint]]
      BY <1>3 DEF VisitHinted
    <2>3. ASSUME errs = {} PROVE \A n \in Name : Faithful(n)'
      <3>1. SUFFICES ASSUME NEW n \in Name PROVE Faithful(n)'
        OBVIOUS
      <3>2. Faithful(n)
        BY <2>3 DEF PassInv
      <3>3. Visited(n)' = IF n = m.name THEN Visited(n) \cup {next} ELSE Visited(n)
        BY <1>1 DEF VisitHinted, Visited, TypeOK
      <3>4. CASE n = m.name
        <4>1. consistency'[n] = [seen |-> TRUE, hasHint |-> TRUE, hintClass |-> m.hint]
              /\ hints'[n] = m.hint
          BY <2>2, <3>4 DEF TypeOK
        <4>2. \A k \in Visited(n) : written[k].hint = m.hint
          BY <2>1, <3>2, <3>4 DEF Faithful
        <4>3. \A k \in Visited(n)' :
                 /\ written[k].hint = m.hint
                 /\ written[k].supported
          BY <1>1, <2>1, <3>2, <3>3, <3>4, <4>2 DEF Faithful
        <4>4. QED
          BY <1>1, <3>3, <3>4, <4>1, <4>3 DEF Faithful, VisitHinted
      <3>5. CASE n # m.name
        <4>1. consistency'[n] = consistency[n] /\ hints'[n] = hints[n]
          BY <2>2, <3>5 DEF TypeOK
        <4>2. QED
          BY <3>2, <3>3, <3>5, <4>1 DEF Faithful, VisitHinted
      <3>6. QED
        BY <3>4, <3>5
    <2>4. QED
      BY <2>2, <2>3 DEF PassInv, VisitHinted
  <1>4. QED
    BY <1>2, <1>3

(* At the end every metric of the template was visited.                     *)
LEMMA ReturnStep ==
    ASSUME TypeOK, PassInv, Return
    PROVE  PassInv'
  <1>1. template = written /\ next = Len(written) + 1
    BY DEF Return, PassInv, TypeOK
  <1>2. (errs' = {} => \A n \in Name : Faithful(n)') /\ errs' = errs
    BY DEF Return, PassInv, Faithful, Visited
  <1>3. CASE errs # {}
    BY <1>1, <1>2, <1>3 DEF Return, PassInv
  <1>4. CASE errs = {}
    BY <1>1, <1>2, <1>4 DEF Return, PassInv
  <1>5. QED
    BY <1>3, <1>4

LEMMA PassInvStep ==
    ASSUME TypeOK, PassInv, [Next]_vars
    PROVE  TypeOK' /\ PassInv'
  <1>1. TypeOK'
    BY TypeStep DEF PassInv
  <1>2. CASE Ended \/ UNCHANGED vars
    <2>1. UNCHANGED <<written, template, next, consistency, hints, errs, stage>>
      BY <1>2 DEF Ended, vars
    <2>2. \A n \in Name : Faithful(n) => Faithful(n)'
      BY <2>1 DEF Faithful, Visited
    <2>3. QED
      BY <1>1, <2>1, <2>2 DEF PassInv
  <1>3. QED
    BY <1>1, <1>2, PlainStep, HintedStep, ReturnStep DEF Next

(* What the invariant says when the pass is over.                           *)
LEMMA PassInvMeans ==
    ASSUME TypeOK, PassInv
    PROVE  AcceptsWellHinted /\ HintsAsDeclared /\ StrippedOnSuccessOnly
  <1> USE ClassAssumption
  <1>1. ASSUME stage = "accepted"
        PROVE  /\ \A n \in Name : Faithful(n)
               /\ \A k \in DOMAIN written :
                     written[k].name \in Name /\ k \in Visited(written[k].name)
    <2>1. \A n \in Name : Faithful(n)
      BY <1>1 DEF PassInv
    <2>2. next = Len(written) + 1
      BY <1>1 DEF PassInv
    <2>3. ASSUME NEW k \in DOMAIN written
          PROVE  written[k].name \in Name /\ k \in Visited(written[k].name)
      <3>1. written[k] \in Metric /\ k \in 1 .. Len(written)
        BY DEF TypeOK
      <3>2. written[k].name \in Name
        BY <3>1 DEF Metric
      <3>3. k \in 1 .. (next - 1)
        BY <2>2, <3>1 DEF TypeOK
      <3>4. QED
        BY <3>2, <3>3 DEF Visited
    <2>4. QED
      BY <2>1, <2>3
  <1>2. ASSUME stage = "accepted" PROVE WellHinted(written)
    <2>1. \A k \in DOMAIN written :
             written[k].hint = consistency[written[k].name].hintClass
      BY <1>1, <1>2 DEF Faithful
    <2>2. \A k \in DOMAIN written : written[k].hint \in Class \cup {Absent}
      BY <1>1, <1>2, <2>1 DEF TypeOK
    <2>3. \A k \in DOMAIN written : written[k].hint # Absent => written[k].supported
      BY <1>1, <1>2 DEF Faithful
    <2>4. QED
      BY <2>1, <2>2, <2>3 DEF WellHinted
  <1>3. stage = "rejected" => ~WellHinted(written)
    BY DEF PassInv
  <1>4. HintsAsDeclared
    <2>1. SUFFICES ASSUME stage = "accepted" PROVE HintsAsDeclared
      BY DEF HintsAsDeclared
    <2>2. \A k \in DOMAIN written : hints[written[k].name] = written[k].hint
      BY <1>1, <2>1 DEF Faithful
    <2>3. ASSUME NEW n \in Name, hints[n] # Absent
          PROVE  \E k \in DOMAIN written : written[k].name = n
      <3>1. Visited(n) # {}
        BY <1>1, <2>1, <2>3 DEF Faithful
      <3>2. next = Len(written) + 1
        BY <2>1 DEF PassInv
      <3>3. QED
        BY <3>1, <3>2 DEF Visited, TypeOK
    <2>4. QED
      BY <2>1, <2>2, <2>3 DEF HintsAsDeclared
  <1>5. StrippedOnSuccessOnly
    BY DEF PassInv, StrippedOnSuccessOnly, TypeOK
  <1>6. QED
    BY <1>2, <1>3, <1>4, <1>5 DEF AcceptsWellHinted

LEMMA PassInvInit == Init => TypeOK /\ PassInv
  <1> USE ClassAssumption, TemplatesAssumption
  <1>1. SUFFICES ASSUME Init PROVE TypeOK /\ PassInv
    OBVIOUS
  <1>2. written \in Seq(Metric) /\ template = written
    BY <1>1 DEF Init
  <1>3. TypeOK
    BY <1>1, <1>2 DEF Init, TypeOK
  <1>4. \A n \in Name : Visited(n) = {}
    BY <1>1 DEF Init, Visited
  <1>5. QED
    BY <1>1, <1>2, <1>3, <1>4 DEF Init, PassInv, Faithful

(* Every variable of the extraction stays in its range.                     *)
THEOREM TypeCorrect == Spec => []TypeOK
  <1>1. TypeOK /\ PassInv /\ [Next]_vars => (TypeOK /\ PassInv)'
    BY PassInvStep
  <1>2. QED
    BY PassInvInit, <1>1, PTL DEF Spec

(* ExtractGenerationHints accepts exactly the templates in which every hint *)
(* is valid and every family is hinted consistently, in whatever order its  *)
(* metrics appear (generation_hints.go:31-34).                              *)
THEOREM VerdictCorrect == Spec => []AcceptsWellHinted
  <1>1. TypeOK /\ PassInv /\ [Next]_vars => (TypeOK /\ PassInv)'
    BY PassInvStep
  <1>2. TypeOK /\ PassInv => AcceptsWellHinted
    BY PassInvMeans
  <1>3. QED
    BY PassInvInit, <1>1, <1>2, PTL DEF Spec

(* The hints it returns are exactly the ones declared (receiver.go:127, 360). *)
THEOREM HintsCorrect == Spec => []HintsAsDeclared
  <1>1. TypeOK /\ PassInv /\ [Next]_vars => (TypeOK /\ PassInv)'
    BY PassInvStep
  <1>2. TypeOK /\ PassInv => HintsAsDeclared
    BY PassInvMeans
  <1>3. QED
    BY PassInvInit, <1>1, <1>2, PTL DEF Spec

(* The template is stripped of its hints on success and otherwise left as   *)
(* it was written (generation_hints.go:34-35, 77-80).                       *)
THEOREM StrippingCorrect == Spec => []StrippedOnSuccessOnly
  <1>1. TypeOK /\ PassInv /\ [Next]_vars => (TypeOK /\ PassInv)'
    BY PassInvStep
  <1>2. TypeOK /\ PassInv => StrippedOnSuccessOnly
    BY PassInvMeans
  <1>3. QED
    BY PassInvInit, <1>1, <1>2, PTL DEF Spec
=============================================================================
