-------------------------- MODULE Scenarios_proof --------------------------
(***************************************************************************)
(* For every template, configuration, interval and jitter: the outcome of a *)
(* rendering is that of the first file that parses, its loops yield what is *)
(* written, nested or left early, and leave behind exactly the goroutines   *)
(* whose values are not all taken, the timestamps of an instance increase,  *)
(* every series reaches the consumer with its own attributes, hash and      *)
(* plan, and the overrides are honoured.                                    *)
(***************************************************************************)
EXTENDS Scenarios, Lemmas_proof, SequenceTheorems, FiniteSetTheorems

SourceInv == \E in \in Inputs : source = in.source

LEMMA SourceIs ==
    ASSUME SourceInv
    PROVE  /\ Len(source) \in Nat /\ DOMAIN source = 1 .. Len(source)
           /\ \A k \in DOMAIN source : /\ Len(source[k].steps) \in Nat
                                       /\ DOMAIN source[k].steps = 1 .. Len(source[k].steps)
           /\ \A p \in Places(source) : WellFormed(source, p)
BY InputsAssumption DEF SourceInv

LEMMA SourceKept == ASSUME [Next]_vars PROVE source' = source /\ config' = config
<1>1. CASE Render
  BY <1>1 DEF Render, Renderer, TryNextExtension, Execute, CallLoop, HandOver, WritePoint,
              EndRange, NextPiece, Abort, Unmarshal, LoopGoroutine, CloseChannel, input,
              scenarioVars
<1>2. CASE UNCHANGED renderingVars /\ config' = config
  BY <1>2 DEF renderingVars
<1> QED
  BY <1>1, <1>2 DEF Next, ExtractGenerationHints, Override, GetResources, PlanSeries,
                    produceMetricsForInstance, NextInterval, Ended, vars, scenarioVars

LEMMA PlaceIs ==
    ASSUME SourceInv, NEW p \in Places(source)
    PROVE  /\ p = <<p[1], p[2]>> /\ p[1] \in DOMAIN source /\ p[2] \in DOMAIN source[p[1]].steps
           /\ p[1] \in Nat \ {0} /\ p[2] \in Nat \ {0}
<1>1. p = <<p[1], p[2]>> /\ p[1] \in DOMAIN source /\ p[2] \in DOMAIN source[p[1]].steps
  BY DEF Places
<1> QED
  BY <1>1, SourceIs

LEMMA PlaceOf ==
    ASSUME NEW k \in DOMAIN source, NEW j \in DOMAIN source[k].steps
    PROVE  <<k, j>> \in Places(source)
BY DEF Places

Passed == {"missing", "unparsable"}

(* The search for a file: those before the extension do not parse, and what *)
(* is rendered is the content of the one at the extension.                  *)
RenderInv ==
    /\ files \in [1 .. 3 -> Content]
    /\ extension \in 1 .. 4 /\ piece \in Nat /\ SourceInv
    /\ \A e \in 1 .. 3 : e < extension => files[e] \in Passed
    /\ piece # 0 => extension \in 1 .. 3 /\ files[extension] \notin Passed
    /\ \/ result = "pending"
       \/ result = "not found" /\ piece = 0 /\ extension = 4
       \/ result = "metrics" /\ piece # 0 /\ files[extension] = "good"
       \/ result = "error" /\ piece # 0 /\ files[extension] \in {"failing", "garbled"}

LEMMA ThreeExtensions == DOMAIN Extensions = 1 .. 3
BY DEF Extensions

LEMMA Extents ==
    /\ \A e \in 1 .. 4 : e \in 1 .. 3 \/ e = 4
    /\ \A e \in 1 .. 3 : e < 4 /\ e + 1 \in 1 .. 4
    /\ \A e, d \in 1 .. 3 : d < e + 1 => d < e \/ d = e
    /\ 4 \notin 1 .. 3
OBVIOUS

LEMMA RenderInit == ASSUME Init PROVE RenderInv
<1>1. PICK in \in Inputs : files = in.files /\ source = in.source
  BY DEF Init, RenderingInit
<1>2. files \in [1 .. 3 -> Content] /\ SourceInv
  BY <1>1, InputsAssumption, ThreeExtensions DEF SourceInv
<1> QED
  BY <1>2 DEF Init, RenderingInit, RenderInv

(* Only the renderer changes what RenderInv speaks of.                      *)
LEMMA RenderStep == ASSUME RenderInv, [Next]_vars PROVE RenderInv'
<1> USE DEF RenderInv
<1>0. SourceInv'
  BY SourceKept DEF SourceInv
<1>1. CASE Render
  <2>1. CASE TryNextExtension
    <3>1. UNCHANGED <<files, source, piece>> /\ piece = 0 /\ result = "pending"
      BY <2>1 DEF TryNextExtension, input
    <3>2. extension \in 1 .. 3 \/ extension = 4
      BY Extents
    <3>3. CASE extension \in 1 .. 3
      <4>1. extension' = extension + 1 /\ result' = result /\ files[extension] \in Passed
        BY <2>1, <3>3, ThreeExtensions DEF TryNextExtension, Found, Passed
      <4>2. extension' \in 1 .. 4
        BY <3>3, <4>1, Extents
      <4>3. \A e \in 1 .. 3 : e < extension' => files'[e] \in Passed
        BY <3>1, <3>3, <4>1, Extents
      <4> QED
        BY <1>0, <3>1, <4>1, <4>2, <4>3
    <3>4. CASE extension = 4
      BY <1>0, <2>1, <3>1, <3>4, Extents, ThreeExtensions DEF TryNextExtension, Found
    <3> QED
      BY <3>2, <3>3, <3>4
  <2>2. CASE Execute
    BY <1>0, <2>2, ThreeExtensions DEF Execute, Found, input, Passed
  <2>3. CASE CallLoop \/ HandOver \/ WritePoint
    BY <1>0, <2>3 DEF CallLoop, HandOver, WritePoint, input
  <2>4. CASE EndRange
    <3>1. UNCHANGED <<files, extension, result>> /\ Here \in Places(source)
          /\ piece' = IF Step(source, Here).op = "next" THEN Step(source, Here).after[1] ELSE piece
      BY <2>4 DEF EndRange, At, input
    <3>2. piece \in Nat \ {0}
      BY <3>1, PlaceIs DEF Here
    <3>3. Step(source, Here).op = "next" => Step(source, Here).after[1] \in Nat \ {0}
      BY <3>1, SourceIs DEF WellFormed
    <3>4. piece' \in Nat /\ piece' # 0
      BY <3>1, <3>2, <3>3
    <3> QED
      BY <1>0, <3>1, <3>2, <3>4
  <2>8. CASE NextPiece
    BY <1>0, <2>8 DEF NextPiece, input
  <2>5. CASE Abort
    BY <1>0, <2>5 DEF Abort, input
  <2>6. CASE Unmarshal
    BY <1>0, <2>6 DEF Unmarshal, input, Content, Passed
  <2>7. CASE \E g \in Calls(source) : LoopGoroutine(g)
    BY <1>0, <2>7 DEF LoopGoroutine, CloseChannel, input
  <2> QED
    BY <1>1, <2>1, <2>2, <2>3, <2>4, <2>5, <2>6, <2>7, <2>8 DEF Render, Renderer
<1>2. CASE UNCHANGED renderingVars
  BY <1>0, <1>2 DEF renderingVars
<1> QED
  BY <1>1, <1>2 DEF Next, ExtractGenerationHints, Override, GetResources, PlanSeries,
                    produceMetricsForInstance, NextInterval, Ended, vars

(* What is executed is the first file that parses.                          *)
LEMMA ExecutesFirst ==
    ASSUME RenderInv, piece # 0,
           NEW parsable, parsable = {e \in 1 .. 3 : files[e] \notin Passed}
    PROVE  /\ extension \in parsable
           /\ extension = CHOOSE e \in parsable : \A d \in parsable : e <= d
<1>1. extension \in 1 .. 3 /\ files[extension] \notin Passed
  BY DEF RenderInv
<1>2. \A e \in 1 .. 3 : e < extension => files[e] \in Passed
  BY DEF RenderInv
<1>3. extension \in parsable /\ \A d \in parsable : extension <= d
  <2>1. \A d \in 1 .. 3 : d < extension \/ extension <= d
    BY <1>1
  <2> QED
    BY <1>1, <1>2, <2>1
<1>4. \A e \in parsable : (\A d \in parsable : e <= d) => e = extension
  <2>1. \A e \in 1 .. 3 : e <= extension /\ extension <= e => e = extension
    BY <1>1
  <2> QED
    BY <1>3, <2>1
<1> QED
  BY <1>3, <1>4

(* The first file that parses decides the outcome, whatever the others are. *)
THEOREM OutcomeOfFirstParsable == Spec => []FirstParsableDecides
<1>1. Spec => []RenderInv
  BY RenderInit, RenderStep, PTL DEF Spec
<1>2. ASSUME RenderInv PROVE FirstParsableDecides
  <2>1. {e \in DOMAIN Extensions : files[e] \notin {"missing", "unparsable"}}
          = {e \in 1 .. 3 : files[e] \notin Passed}
    BY ThreeExtensions DEF Passed
  <2>2. CASE piece = 0
    <3>1. result \in {"pending", "not found"}
      BY <1>2, <2>2 DEF RenderInv
    <3>2. result = "not found" => {e \in 1 .. 3 : files[e] \notin Passed} = {}
      <4>1. result = "not found" => extension = 4
        BY <1>2 DEF RenderInv
      <4>2. result = "not found" => \A e \in 1 .. 3 : e < extension
        BY <4>1, Extents
      <4>3. \A e \in 1 .. 3 : e < extension => files[e] \in Passed
        BY <1>2 DEF RenderInv
      <4> QED
        BY <4>2, <4>3
    <3> QED
      BY <2>1, <3>1, <3>2 DEF FirstParsableDecides
  <2>3. CASE piece # 0
    <3>1. \/ result = "pending"
          \/ result = "metrics" /\ files[extension] = "good"
          \/ result = "error" /\ files[extension] \in {"failing", "garbled"}
      BY <1>2, <2>3 DEF RenderInv
    <3> QED
      BY <1>2, <2>1, <2>3, <3>1, ExecutesFirst DEF FirstParsableDecides
  <2> QED
    BY <1>2, <2>2, <2>3 DEF RenderInv
<1> QED
  BY <1>1, <1>2, PTL

-----------------------------------------------------------------------------
(* Places and turns                                                          *)

LEMMA StepOn ==
    ASSUME SourceInv, NEW k \in DOMAIN source, NEW j \in DOMAIN source[k].steps,
           NEW p \in Places(source)
    PROVE  /\ Before(p, <<k, j + 1>>) <=> Before(p, <<k, j>>) \/ p = <<k, j>>
           /\ ~Before(<<k, j>>, <<k, j>>)
<1>1. k \in Int /\ j \in Int
  BY SourceIs
<1>2. p = <<p[1], p[2]>> /\ p[1] \in Int /\ p[2] \in Int
  BY PlaceIs
<1>3. p[2] < j + 1 <=> p[2] < j \/ p[2] = j
  BY <1>1, <1>2
<1> QED
  BY <1>1, <1>2, <1>3 DEF Before

LEMMA PieceOn ==
    ASSUME SourceInv, NEW k \in DOMAIN source, NEW j \in Nat, j > Len(source[k].steps),
           NEW p \in Places(source)
    PROVE  Before(p, <<k + 1, 1>>) <=> Before(p, <<k, j>>)
<1>1. k \in Int /\ Len(source[k].steps) \in Nat
      /\ DOMAIN source[k].steps = 1 .. Len(source[k].steps)
  BY SourceIs
<1>2. p[1] \in Int /\ p[2] \in Nat \ {0} /\ p[2] \in DOMAIN source[p[1]].steps
  BY PlaceIs
<1>3. p[1] = k => p[2] < j
  BY <1>1, <1>2
<1>4. /\ p[1] < k + 1 <=> p[1] < k \/ p[1] = k
      /\ ~(p[2] < 1)
  BY <1>1, <1>2
<1> QED
  BY <1>3, <1>4 DEF Before

LEMMA NoneBefore ==
    ASSUME SourceInv, NEW p \in Places(source)
    PROVE  ~Before(p, <<0, 1>>) /\ ~Before(p, <<1, 1>>)
BY PlaceIs DEF Before

LEMMA PlacesFinite == ASSUME SourceInv PROVE IsFiniteSet(Places(source))
<1> DEFINE of == [k \in DOMAIN source |-> {k} \X DOMAIN source[k].steps]
           all == {of[k] : k \in DOMAIN source}
<1>1. IsFiniteSet(DOMAIN source)
  BY SourceIs, FS_Interval
<1>2. of \in Surjection(DOMAIN source, all)
  BY DEF Surjection
<1>3. IsFiniteSet(all)
  BY <1>1, <1>2, FS_Surjection
<1>4. ASSUME NEW k \in DOMAIN source PROVE IsFiniteSet({k} \X DOMAIN source[k].steps)
  <2>1. IsFiniteSet(DOMAIN source[k].steps)
    <3> DEFINE n == Len(source[k].steps)
    <3>1. DOMAIN source[k].steps = 1 .. n /\ n \in Int
      BY SourceIs
    <3> HIDE DEF n
    <3>2. IsFiniteSet(1 .. n)
      BY <3>1, FS_Interval
    <3> QED
      BY <3>1, <3>2
  <2>2. IsFiniteSet({k})
    BY FS_Singleton
  <2> QED
    BY <2>1, <2>2, FS_Product
<1>5. Places(source) = UNION all
  BY DEF Places
<1>6. \A T \in all : IsFiniteSet(T)
  BY <1>4
<1> HIDE DEF all
<1> QED
  BY <1>3, <1>5, <1>6, FS_UNION

(* Places with the same turns before them expect the same value.            *)
LEMMA SameTurns ==
    ASSUME NEW g, NEW here, NEW there,
           \A p \in Places(source) : Step(source, p).op = "next" /\ Step(source, p).loop = g
               => (Before(p, there) <=> Before(p, here))
    PROVE  NextValue(source, g, there) = NextValue(source, g, here)
<1>1. TurnsBefore(source, g, there) = TurnsBefore(source, g, here)
  BY DEF TurnsBefore
<1> QED
  BY <1>1 DEF NextValue

LEMMA TurnTaken ==
    ASSUME SourceInv, NEW k \in DOMAIN source, NEW j \in DOMAIN source[k].steps,
           NEW g \in Calls(source), Step(source, <<k, j>>).op = "next",
           Step(source, <<k, j>>).loop = g
    PROVE  NextValue(source, g, <<k, j + 1>>) = NextValue(source, g, <<k, j>>) + 1
<1> DEFINE T == TurnsBefore(source, g, <<k, j>>)
<1>1. <<k, j>> \in Places(source)
  BY PlaceOf
<1>2. TurnsBefore(source, g, <<k, j + 1>>) = T \cup {<<k, j>>}
  BY <1>1, StepOn DEF TurnsBefore
<1>3. <<k, j>> \notin T
  BY <1>1, StepOn DEF TurnsBefore
<1>4. IsFiniteSet(T)
  BY PlacesFinite, FS_Subset DEF TurnsBefore
<1>5. Cardinality(T \cup {<<k, j>>}) = Cardinality(T) + 1 /\ Cardinality(T) \in Nat
  BY <1>3, <1>4, FS_AddElement, FS_CardinalityType
<1>6. Step(source, g).from \in Int
  BY SourceIs DEF Calls, WellFormed
<1>7. NextValue(source, g, <<k, j + 1>>) = Step(source, g).from + Cardinality(T \cup {<<k, j>>})
  BY <1>2 DEF NextValue
<1>8. NextValue(source, g, <<k, j>>) = Step(source, g).from + Cardinality(T)
  BY DEF NextValue
<1> HIDE DEF T
<1> QED
  BY <1>5, <1>6, <1>7, <1>8

LEMMA NextValueInt ==
    ASSUME SourceInv, NEW g \in Calls(source), NEW here
    PROVE  NextValue(source, g, here) \in Int /\ Step(source, g).from \in Int
           /\ Step(source, g).to \in Int /\ g \in Places(source)
<1>1. IsFiniteSet(TurnsBefore(source, g, here))
  BY PlacesFinite, FS_Subset DEF TurnsBefore
<1>2. Step(source, g).from \in Int /\ Step(source, g).to \in Int /\ g \in Places(source)
  BY SourceIs DEF Calls, WellFormed
<1> QED
  BY <1>1, <1>2, FS_CardinalityType DEF NextValue

LEMMA NoTurns ==
    ASSUME SourceInv, NEW g \in Calls(source), NEW here, here \in {<<0, 1>>, <<1, 1>>}
    PROVE  NextValue(source, g, here) = Step(source, g).from
<1>1. TurnsBefore(source, g, here) = {}
  BY NoneBefore DEF TurnsBefore
<1> QED
  BY <1>1, FS_EmptySet, NextValueInt DEF NextValue

-----------------------------------------------------------------------------
(* The renderer is at a place, a loop runs once its call is behind it, and   *)
(* its goroutine is at the value of the next turn.                           *)
PlaceInv ==
    /\ SourceInv
    /\ piece \in 0 .. (Len(source) + 1) /\ step \in Nat \ {0}
    /\ piece \notin DOMAIN source => step = 1
    /\ piece \in DOMAIN source => step <= Len(source[piece].steps) + 1
LoopInv ==
    /\ PlaceInv
    /\ channel \in [Calls(source) -> {"none", "open", "closed"}]
    /\ sends \in [Calls(source) -> Int]
    /\ \A g \in Calls(source) :
          /\ channel[g] = "none" <=> ~Before(g, Here)
          /\ sends[g] = NextValue(source, g, Here)
          /\ channel[g] = "closed" => sends[g] > Step(source, g).to

LEMMA LoopInit == ASSUME Init PROVE LoopInv
<1>1. SourceInv /\ piece = 0 /\ step = 1 /\ Here = <<0, 1>>
      /\ channel = [g \in Calls(source) |-> "none"]
      /\ sends = [g \in Calls(source) |-> Step(source, g).from]
  BY DEF Init, RenderingInit, SourceInv, Here
<1>2. Len(source) \in Nat /\ 0 \notin DOMAIN source
  BY <1>1, SourceIs
<1>3. PlaceInv
  BY <1>1, <1>2 DEF PlaceInv
<1>4. \A g \in Calls(source) : /\ g \in Places(source) /\ Step(source, g).from \in Int
                               /\ ~Before(g, Here)
                               /\ NextValue(source, g, Here) = Step(source, g).from
  BY <1>1, NoneBefore, NoTurns, NextValueInt
<1> QED
  BY <1>1, <1>3, <1>4 DEF LoopInv

(* The renderer at a step, and after it.                                    *)
LEMMA PlaceOn ==
    ASSUME PlaceInv, Here \in Places(source), source' = source,
           piece' = piece, step' = step + 1
    PROVE  /\ PlaceInv' /\ piece \in DOMAIN source /\ step \in DOMAIN source[piece].steps
           /\ Here = <<piece, step>> /\ Here' = <<piece, step + 1>>
<1>1. piece \in DOMAIN source /\ step \in DOMAIN source[piece].steps
  BY PlaceIs DEF Here, PlaceInv
<1>2. DOMAIN source[piece].steps = 1 .. Len(source[piece].steps)
      /\ Len(source[piece].steps) \in Nat
  BY <1>1, SourceIs DEF PlaceInv
<1>3. step + 1 \in Nat \ {0} /\ step + 1 <= Len(source[piece].steps) + 1
  BY <1>1, <1>2
<1>4. PlaceInv'
  BY <1>1, <1>3 DEF PlaceInv, SourceInv
<1> QED
  BY <1>1, <1>4 DEF Here

(* The text between two places leaves the loops as they are.                *)
LEMMA LoopsKept ==
    ASSUME LoopInv, PlaceInv', UNCHANGED <<source, channel, sends>>,
           \A p \in Places(source) :
              Step(source, p).op \in {"loop", "next"} => (Before(p, Here') <=> Before(p, Here))
    PROVE  LoopInv'
<1> DEFINE there == Here'
<1>1. \A g \in Calls(source) : Before(g, there) <=> Before(g, Here)
  BY DEF Calls
<1>2. \A g \in Calls(source) : NextValue(source, g, there) = NextValue(source, g, Here)
  BY SameTurns
<1> QED
  BY <1>1, <1>2 DEF LoopInv

(* A range ends only where the text has no further turn of it: at a turn its *)
(* channel is not closed.                                                   *)
LEMMA EndsRange ==
    ASSUME LoopInv, EndRange
    PROVE  /\ Here \in Places(source) /\ Step(source, Here).op = "end"
           /\ piece' = piece /\ step' = step + 1
<1>1. /\ Here \in Places(source) /\ Step(source, Here).op \in {"next", "end"}
      /\ channel[Step(source, Here).loop] = "closed"
      /\ Step(source, Here).op = "end" => piece' = piece /\ step' = step + 1
  BY DEF EndRange, At
<1>2. SourceInv
  BY DEF LoopInv, PlaceInv
<1>3. Step(source, Here).op = "end"
  <2>1. SUFFICES ASSUME Step(source, Here).op = "next" PROVE FALSE
    BY <1>1
  <2>2. PICK g \in Calls(source) : /\ g = Step(source, Here).loop
                                   /\ NextValue(source, g, Here) <= Step(source, g).to
    BY <1>1, <1>2, <2>1, SourceIs DEF WellFormed
  <2>3. NextValue(source, g, Here) \in Int /\ Step(source, g).to \in Int
        /\ NextValue(source, g, Here) > Step(source, g).to
    BY <1>1, <1>2, <2>2, NextValueInt DEF LoopInv
  <2> QED
    BY <2>2, <2>3
<1> QED
  BY <1>1, <1>3

LEMMA LoopStep == ASSUME LoopInv, [Next]_vars PROVE LoopInv'
<1>0. source' = source /\ SourceInv /\ SourceInv' /\ PlaceInv
  BY SourceKept DEF LoopInv, PlaceInv, SourceInv
<1>1. CASE Render
  <2>1. CASE TryNextExtension \/ Abort \/ Unmarshal
    BY <2>1 DEF TryNextExtension, Abort, Unmarshal, input, LoopInv, PlaceInv, SourceInv, Here
  <2>2. CASE Execute
    <3>1. UNCHANGED <<source, channel, sends>> /\ piece = 0 /\ piece' = 1 /\ step' = step
      BY <2>2 DEF Execute, input
    <3>2. Len(source) \in Nat /\ DOMAIN source = 1 .. Len(source)
          /\ \A k \in DOMAIN source : Len(source[k].steps) \in Nat
      BY <1>0, SourceIs
    <3>3. step = 1
      BY <1>0, <3>1, <3>2 DEF PlaceInv
    <3>4. PlaceInv'
      BY <1>0, <3>1, <3>2, <3>3 DEF PlaceInv
    <3>5. Here = <<0, 1>> /\ Here' = <<1, 1>>
      BY <3>1, <3>3 DEF Here
    <3> QED
      BY <1>0, <3>1, <3>4, <3>5, NoneBefore, LoopsKept
  <2>3. CASE CallLoop
    <3>1. /\ UNCHANGED <<source, piece, sends>> /\ step' = step + 1
          /\ Here \in Places(source) /\ Step(source, Here).op = "loop"
          /\ channel' = [channel EXCEPT ![Here] = "open"]
      BY <2>3 DEF CallLoop, At, input
    <3>2. /\ PlaceInv' /\ piece \in DOMAIN source /\ step \in DOMAIN source[piece].steps
          /\ Here = <<piece, step>> /\ Here' = <<piece, step + 1>>
      BY <1>0, <3>1, PlaceOn
    <3> DEFINE there == Here'
    <3>3. \A p \in Places(source) : Before(p, there) <=> Before(p, Here) \/ p = Here
      BY <1>0, <3>2, StepOn
    <3>4. \A g \in Calls(source) : NextValue(source, g, there) = NextValue(source, g, Here)
      BY <3>1, <3>3, SameTurns
    <3>5. \A g \in Calls(source) :
             g \in Places(source) /\ channel'[g] = IF g = Here THEN "open" ELSE channel[g]
      BY <3>1 DEF LoopInv, Calls
    <3>6. channel' \in [Calls(source) -> {"none", "open", "closed"}]
      BY <3>1 DEF LoopInv
    <3> QED
      BY <3>1, <3>2, <3>3, <3>4, <3>5, <3>6 DEF LoopInv
  <2>4. CASE HandOver
    <3> DEFINE h == Step(source, Here).loop
               there == Here'
    <3>1. /\ UNCHANGED <<source, piece, channel>> /\ step' = step + 1
          /\ Here \in Places(source) /\ Step(source, Here).op = "next"
          /\ sends' = [sends EXCEPT ![h] = @ + 1] /\ sends[h] <= Step(source, h).to
          /\ channel[h] = "open"
      BY <2>4 DEF HandOver, At, input
    <3>2. /\ PlaceInv' /\ piece \in DOMAIN source /\ step \in DOMAIN source[piece].steps
          /\ Here = <<piece, step>> /\ there = <<piece, step + 1>>
      BY <1>0, <3>1, PlaceOn
    <3>3. \A p \in Places(source) : Before(p, there) <=> Before(p, Here) \/ p = Here
      BY <1>0, <3>2, StepOn
    <3>4. h \in Calls(source)
      BY <1>0, <3>1, SourceIs DEF WellFormed
    <3>5. NextValue(source, h, there) = NextValue(source, h, Here) + 1
      BY <1>0, <3>1, <3>2, <3>4, TurnTaken
    <3>6. \A g \in Calls(source) \ {h} : NextValue(source, g, there) = NextValue(source, g, Here)
      BY <3>1, <3>3, SameTurns
    <3>7. sends' \in [Calls(source) -> Int]
          /\ \A g \in Calls(source) : sends'[g] = IF g = h THEN sends[g] + 1 ELSE sends[g]
      BY <3>1, <3>4 DEF LoopInv
    <3>8. \A g \in Calls(source) : g \in Places(source) /\ g # Here
      BY <3>1 DEF Calls
    <3> HIDE DEF h
    <3> QED
      BY <3>1, <3>2, <3>3, <3>4, <3>5, <3>6, <3>7, <3>8 DEF LoopInv
  <2>5. CASE WritePoint
    <3>1. /\ UNCHANGED <<source, piece, channel, sends>> /\ step' = step + 1
          /\ Here \in Places(source) /\ Step(source, Here).op = "point"
      BY <2>5 DEF WritePoint, At, input
    <3>2. /\ PlaceInv' /\ piece \in DOMAIN source /\ step \in DOMAIN source[piece].steps
          /\ Here = <<piece, step>> /\ Here' = <<piece, step + 1>>
      BY <1>0, <3>1, PlaceOn
    <3> QED
      BY <1>0, <3>1, <3>2, StepOn, LoopsKept
  <2>6. CASE EndRange
    <3>1. UNCHANGED <<source, channel, sends>> /\ Here \in Places(source)
      BY <2>6 DEF EndRange, At, input
    <3>2. Step(source, Here).op = "end" /\ piece' = piece /\ step' = step + 1
      BY <2>6, EndsRange
    <3>3. /\ PlaceInv' /\ piece \in DOMAIN source /\ step \in DOMAIN source[piece].steps
          /\ Here = <<piece, step>> /\ Here' = <<piece, step + 1>>
      BY <1>0, <3>1, <3>2, PlaceOn
    <3> QED
      BY <1>0, <3>1, <3>2, <3>3, StepOn, LoopsKept
  <2>7. CASE NextPiece
    <3>1. /\ UNCHANGED <<source, channel, sends>> /\ piece \in DOMAIN source
          /\ step > Len(source[piece].steps) /\ piece' = piece + 1 /\ step' = 1
      BY <2>7 DEF NextPiece, input
    <3>2. Len(source) \in Nat /\ DOMAIN source = 1 .. Len(source)
          /\ \A k \in DOMAIN source : Len(source[k].steps) \in Nat
      BY <1>0, SourceIs
    <3>3. PlaceInv' /\ step \in Nat
      BY <1>0, <3>1, <3>2 DEF PlaceInv
    <3>4. Here = <<piece, step>> /\ Here' = <<piece + 1, 1>>
      BY <3>1 DEF Here
    <3> QED
      BY <1>0, <3>1, <3>3, <3>4, PieceOn, LoopsKept
  <2>8. ASSUME NEW g \in Calls(source), CloseChannel(g) PROVE LoopInv'
    <3>1. /\ UNCHANGED <<source, piece, step, sends>>
          /\ channel[g] = "open" /\ sends[g] > Step(source, g).to
          /\ channel' = [channel EXCEPT ![g] = "closed"]
      BY <2>8 DEF CloseChannel, input
    <3>2. PlaceInv' /\ Here' = Here
      BY <1>0, <3>1 DEF PlaceInv, Here
    <3>3. \A f \in Calls(source) : channel'[f] = IF f = g THEN "closed" ELSE channel[f]
      BY <3>1 DEF LoopInv
    <3> QED
      BY <3>1, <3>2, <3>3 DEF LoopInv
  <2> QED
    BY <1>1, <2>1, <2>2, <2>3, <2>4, <2>5, <2>6, <2>7, <2>8 DEF Render, Renderer, LoopGoroutine
<1>2. CASE UNCHANGED renderingVars
  BY <1>0, <1>2 DEF renderingVars, LoopInv, PlaceInv, Here
<1> QED
  BY <1>1, <1>2 DEF Next, ExtractGenerationHints, Override, GetResources, PlanSeries,
                    produceMetricsForInstance, NextInterval, Ended, vars

(* At every moment the goroutines that have a value left to send are those   *)
(* of the loops called and not yet read to the end: of the loops around the  *)
(* place of the renderer, however deep they are nested, and of those left by *)
(* a {{break}} or not ranged over.  A rendering that stops leaves these      *)
(* blocked for good (metricstmpl.go:27-36).                                  *)
Blocked(g) == channel[g] = "open" /\ sends[g] <= Step(source, g).to
BlockedExactly == \A g \in Calls(source) : Blocked(g) <=> Unread(g)

THEOREM UnreadLoopsBlocked == Spec => []BlockedExactly
<1>1. Spec => []LoopInv
  BY LoopInit, LoopStep, PTL DEF Spec
<1>2. ASSUME LoopInv PROVE BlockedExactly
  <2>1. ASSUME NEW g \in Calls(source) PROVE Blocked(g) <=> Unread(g)
    <3>1. /\ channel[g] \in {"none", "open", "closed"}
          /\ channel[g] = "none" <=> ~Before(g, Here)
          /\ sends[g] = NextValue(source, g, Here)
          /\ channel[g] = "closed" => sends[g] > Step(source, g).to
      BY <1>2 DEF LoopInv
    <3>2. SourceInv
      BY <1>2 DEF LoopInv, PlaceInv
    <3>3. sends[g] \in Int /\ Step(source, g).to \in Int
      BY <3>1, <3>2, NextValueInt
    <3>4. sends[g] > Step(source, g).to <=> ~(sends[g] <= Step(source, g).to)
      BY <3>3
    <3> QED
      BY <3>1, <3>4 DEF Blocked, Unread
  <2> QED
    BY <2>1 DEF BlockedExactly
<1> QED
  BY <1>1, <1>2, PTL

-----------------------------------------------------------------------------
(* No timestamp reaches the next interval, and that of an instance which is *)
(* still to emit does not reach this one.                                   *)
ClockInv ==
    /\ currentTime \in Nat /\ currentTime >= StartTime
    /\ stage # "running" => waiting = {} /\ DOMAIN last = {}
    /\ \A id \in DOMAIN last :
          /\ last[id] \in Nat /\ last[id] < currentTime + Interval
          /\ id \in waiting => last[id] < currentTime

LEMMA ClockInit == ASSUME Init PROVE ClockInv
BY NumbersAssumption DEF Init, ClockInv

LEMMA JitterCapped ==
    ASSUME currentTime \in Nat, NEW jitter \in Jitters
    PROVE  /\ addJitter(jitter) \in Nat
           /\ currentTime <= addJitter(jitter) /\ addJitter(jitter) < currentTime + Interval
BY NumbersAssumption DEF addJitter

(* What an emission does to the timestamps.                                 *)
LEMMA EmissionStamp ==
    ASSUME NEW id, produceMetricsForInstance(id)
    PROVE  /\ waiting' = waiting \ {id} /\ id \in waiting
           /\ UNCHANGED <<stage, currentTime>> /\ stage = "running"
           /\ \E jitter \in Jitters :
                last' = [i \in DOMAIN last \cup {id} |->
                            IF i = id THEN addJitter(jitter) ELSE last[i]]
BY DEF produceMetricsForInstance

LEMMA ClockStep == ASSUME ClockInv, [Next]_vars PROVE ClockInv'
<1> USE NumbersAssumption DEF ClockInv
<1>1. CASE \E id \in DOMAIN instances : produceMetricsForInstance(id)
  <2>1. PICK id : produceMetricsForInstance(id)
    BY <1>1
  <2>2. PICK jitter \in Jitters :
           last' = [i \in DOMAIN last \cup {id} |->
                       IF i = id THEN addJitter(jitter) ELSE last[i]]
    BY <2>1, EmissionStamp
  <2> QED
    BY <2>1, <2>2, EmissionStamp, JitterCapped
<1>2. CASE NextInterval
  <2>1. UNCHANGED <<stage, last>> /\ currentTime' = currentTime + Interval /\ waiting = {}
        /\ stage = "running"
    BY <1>2 DEF NextInterval
  <2>2. \A id \in DOMAIN last : last[id] < currentTime' /\ last[id] < currentTime' + Interval
    BY <2>1
  <2> QED
    BY <2>1, <2>2
<1>3. CASE PlanSeries
  BY <1>3 DEF PlanSeries
<1>4. CASE ExtractGenerationHints \/ Override \/ GetResources
  BY <1>4 DEF ExtractGenerationHints, Override, GetResources
<1>5. CASE UNCHANGED scenarioVars
  BY <1>5 DEF scenarioVars
<1> QED
  BY <1>1, <1>2, <1>3, <1>4, <1>5 DEF Next, Render, Ended, vars

(* Whatever the interval and the jitters, each timestamp of an instance is  *)
(* later than the one before.                                               *)
THEOREM TimestampsOrdered == Spec => TimestampsIncrease
<1>1. Spec => []ClockInv
  BY ClockInit, ClockStep, PTL DEF Spec
<1>2. ASSUME ClockInv, [Next]_vars, NEW id \in waiting \ waiting'
      PROVE  last'[id] >= StartTime /\ (id \in DOMAIN last => last'[id] > last[id])
  <2>1. produceMetricsForInstance(id)
    BY <1>2, EmissionStamp DEF Next, Render, ExtractGenerationHints, Override, GetResources,
       PlanSeries, NextInterval, Ended, vars, scenarioVars, ClockInv
  <2>2. PICK jitter \in Jitters : last'[id] = addJitter(jitter)
    BY <2>1, EmissionStamp
  <2> QED
    BY <1>2, <2>2, JitterCapped, NumbersAssumption DEF ClockInv
<1>3. ASSUME ClockInv, [Next]_vars
      PROVE  [\A id \in waiting \ waiting' :
                 /\ last'[id] >= StartTime
                 /\ id \in DOMAIN last => last'[id] > last[id]]_vars
  BY <1>2, <1>3
<1> QED
  BY <1>1, <1>3, PTL DEF Spec, TimestampsIncrease

-----------------------------------------------------------------------------
(* Hashes and plans are those of the template, index by index.              *)
Aligned ==
    LET visited == Visited(template)
    IN  /\ seriesPlans = Plans(visited)
        /\ seriesIdentityHashes = [i \in DOMAIN visited |-> LET m == template[visited[i][1]]
                                       IN  IdentityHash(m, m.points[visited[i][2]])]

PlanInv == (stage = "running" => Aligned) /\ PlanPerSeries

LEMMA PlanInit == ASSUME Init PROVE PlanInv
BY DEF Init, PlanInv, PlanPerSeries

(* An emission of an aligned scenario is varied series by series.           *)
LEMMA EmissionPlanned ==
    ASSUME Aligned, NEW id, produceMetricsForInstance(id)
    PROVE  PlanPerSeries'
<1> DEFINE visited == Visited(template)
           m(i) == template[visited[i][1]]
           p(i) == m(i).points[visited[i][2]]
<1>1. /\ DOMAIN emitted'.points = DOMAIN visited
      /\ \A i \in DOMAIN visited :
            /\ emitted'.points[i].name = m(i).name
            /\ emitted'.points[i].type = m(i).type
            /\ emitted'.points[i].temporality = m(i).temporality
            /\ emitted'.points[i].attributes = p(i).attributes
            /\ emitted'.points[i].hash = seriesIdentityHashes[i]
            /\ emitted'.points[i].plan = seriesPlans[i]
  BY DEF produceMetricsForInstance
<1>2. \A i \in DOMAIN visited :
         /\ seriesIdentityHashes[i] = <<m(i).name, p(i).attributes>>
         /\ seriesPlans[i] = IF isNumber(m(i)) THEN PlanNumberSeries(m(i)) ELSE <<>>
  BY DEF Aligned, Plans, IdentityHash
<1> HIDE DEF visited, m, p
<1> QED
  BY <1>1, <1>2 DEF PlanPerSeries, isNumber, PlanNumberSeries

LEMMA PlanStep == ASSUME PlanInv, [Next]_vars PROVE PlanInv'
<1>1. CASE \E id \in DOMAIN instances : produceMetricsForInstance(id)
  <2>1. PICK id : produceMetricsForInstance(id)
    BY <1>1
  <2>2. Aligned /\ UNCHANGED <<stage, template, seriesPlans, seriesIdentityHashes>>
    BY <2>1 DEF produceMetricsForInstance, PlanInv
  <2>3. Aligned'
    BY <2>2 DEF Aligned, Plans
  <2> QED
    BY <2>1, <2>2, <2>3, EmissionPlanned DEF PlanInv
<1>2. CASE PlanSeries
  <2>1. Aligned'
    BY <1>2 DEF PlanSeries, Aligned, Plans
  <2> QED
    BY <1>2, <2>1 DEF PlanSeries, PlanInv, PlanPerSeries
<1>3. CASE ExtractGenerationHints \/ Override \/ GetResources
  BY <1>3 DEF ExtractGenerationHints, Override, GetResources, PlanInv, PlanPerSeries
<1>4. CASE NextInterval
  BY <1>4 DEF NextInterval, PlanInv, PlanPerSeries, Aligned, Plans
<1>5. CASE UNCHANGED scenarioVars
  BY <1>5 DEF scenarioVars, PlanInv, PlanPerSeries, Aligned, Plans
<1> QED
  BY <1>1, <1>2, <1>3, <1>4, <1>5 DEF Next, Render, Ended, vars

(* For every template and every override, each point is varied by its own   *)
(* hash and, if it is a number, by the plan of its own metric.              *)
THEOREM PlansAligned == Spec => []PlanPerSeries
<1>1. Spec => []PlanInv
  BY PlanInit, PlanStep, PTL DEF Spec
<1>2. PlanInv => PlanPerSeries
  BY DEF PlanInv
<1> QED
  BY <1>1, <1>2, PTL

-----------------------------------------------------------------------------
(* Concatenations of sequences                                               *)

(* The table FlattenSeq reads: entry i is the concatenation of the first i.  *)
FlatStep(seqs, g) ==
    g = [i \in 1 .. Len(seqs) |-> IF i = 1 THEN seqs[i] ELSE g[i-1] \o seqs[i]]
FlatTable(seqs) == CHOOSE g : FlatStep(seqs, g)
Prefix(seqs, k) == IF k = 0 THEN <<>> ELSE FlatTable(seqs)[k]

LEMMA FlattenIsPrefix ==
    ASSUME NEW S, NEW seqs \in Seq(Seq(S))
    PROVE  FlattenSeq(seqs) = Prefix(seqs, Len(seqs))
<1>1. CASE Len(seqs) = 0
  <2>1. seqs = <<>>
    BY <1>1, EmptySeq
  <2> QED
    BY <1>1, <2>1 DEF FlattenSeq, Prefix
<1>2. CASE Len(seqs) # 0
  BY <1>2 DEF FlattenSeq, Prefix, FlatTable, FlatStep
<1> QED
  BY <1>1, <1>2

(* The first k entries of such a table, for every k.                         *)
FlatPart(seqs, k, g) ==
    g = [i \in 1 .. k |-> IF i = 1 THEN seqs[i] ELSE g[i-1] \o seqs[i]]

LEMMA PartExtends ==
    ASSUME NEW S, NEW seqs \in Seq(Seq(S)), NEW k \in 0 .. (Len(seqs) - 1),
           NEW g \in [1 .. k -> Seq(S)], FlatPart(seqs, k, g)
    PROVE  \E h \in [1 .. (k + 1) -> Seq(S)] : FlatPart(seqs, k + 1, h)
<1>0. Len(seqs) \in Nat /\ \A i \in 1 .. Len(seqs) : seqs[i] \in Seq(S)
  BY LenProperties
<1> DEFINE e == IF k = 0 THEN seqs[k + 1] ELSE g[k] \o seqs[k + 1]
           h == [i \in 1 .. (k + 1) |-> IF i = k + 1 THEN e ELSE g[i]]
<1>1. k \in Nat /\ k + 1 \in 1 .. Len(seqs)
  BY <1>0
<1>2. e \in Seq(S)
  <2>1. CASE k = 0
    BY <1>0, <1>1, <2>1
  <2>2. CASE k # 0
    <3>1. g[k] \in Seq(S) /\ seqs[k + 1] \in Seq(S)
      BY <1>0, <1>1, <2>2
    <3> QED
      BY <2>2, <3>1, ConcatProperties
  <2> QED
    BY <2>1, <2>2
<1>3. h \in [1 .. (k + 1) -> Seq(S)]
  <2>1. \A i \in 1 .. (k + 1) : i # k + 1 => i \in 1 .. k
    BY <1>1
  <2> QED
    BY <1>2, <2>1
<1>4. ASSUME NEW i \in 1 .. (k + 1)
      PROVE  h[i] = IF i = 1 THEN seqs[i] ELSE h[i-1] \o seqs[i]
  <2>1. CASE i = k + 1
    <3>1. i # 1 => i - 1 \in 1 .. (k + 1) /\ i - 1 # k + 1 /\ i - 1 = k
      BY <1>1, <2>1
    <3>2. i = 1 <=> k = 0
      BY <1>1, <2>1
    <3> QED
      BY <2>1, <3>1, <3>2
  <2>2. CASE i # k + 1
    <3>1. i \in 1 .. k /\ (i # 1 => i - 1 \in 1 .. k /\ i - 1 \in 1 .. (k + 1) /\ i - 1 # k + 1)
      BY <1>1, <2>2
    <3>2. g[i] = IF i = 1 THEN seqs[i] ELSE g[i-1] \o seqs[i]
      BY <3>1 DEF FlatPart
    <3> QED
      BY <2>2, <3>1, <3>2
  <2> QED
    BY <2>1, <2>2
<1>5. h = [i \in 1 .. (k + 1) |-> IF i = 1 THEN seqs[i] ELSE h[i-1] \o seqs[i]]
  BY <1>4
<1>6. FlatPart(seqs, k + 1, h)
  BY <1>5 DEF FlatPart
<1> HIDE DEF h
<1> QED
  BY <1>3, <1>6

LEMMA FlatTableIs ==
    ASSUME NEW S, NEW seqs \in Seq(Seq(S))
    PROVE  /\ FlatTable(seqs) \in [1 .. Len(seqs) -> Seq(S)]
           /\ FlatStep(seqs, FlatTable(seqs))
<1> DEFINE Has(k) == \E g \in [1 .. k -> Seq(S)] : FlatPart(seqs, k, g)
           Missing == {k \in 0 .. Len(seqs) : ~Has(k)}
<1>0. Len(seqs) \in Nat /\ \A i \in 1 .. Len(seqs) : seqs[i] \in Seq(S)
  BY LenProperties
<1>1. Has(0)
  <2> DEFINE g == [i \in 1 .. 0 |-> IF i = 1 THEN seqs[i] ELSE <<>>]
  <2>1. g \in [1 .. 0 -> Seq(S)]
    OBVIOUS
  <2>2. FlatPart(seqs, 0, g)
    BY DEF FlatPart
  <2> QED
    BY <2>1, <2>2
<1>2. Missing = {}
  <2>1. SUFFICES ASSUME Missing # {} PROVE FALSE
    OBVIOUS
  <2>2. Missing \in SUBSET Nat
    BY <1>0
  <2>3. PICK m \in Missing : \A n \in Missing : m <= n
    BY <2>1, <2>2, LeastNat
  <2>4. m # 0 /\ m \in 0 .. Len(seqs)
    BY <1>1, <2>3
  <2>5. m - 1 \in 0 .. (Len(seqs) - 1) /\ m - 1 \in 0 .. Len(seqs) /\ ~(m <= m - 1)
    BY <1>0, <2>4
  <2>6. Has(m - 1)
    BY <2>3, <2>5
  <2>7. PICK g \in [1 .. (m - 1) -> Seq(S)] : FlatPart(seqs, m - 1, g)
    BY <2>6
  <2>8. Has((m - 1) + 1)
    BY <2>5, <2>7, PartExtends
  <2>9. (m - 1) + 1 = m
    BY <2>4
  <2> QED
    BY <2>3, <2>8, <2>9
<1>3. PICK g \in [1 .. Len(seqs) -> Seq(S)] : FlatPart(seqs, Len(seqs), g)
  <2>1. Len(seqs) \in 0 .. Len(seqs)
    BY <1>0
  <2> QED
    BY <1>2, <2>1
<1>4. FlatStep(seqs, g)
  BY <1>3 DEF FlatPart, FlatStep
<1>5. FlatStep(seqs, FlatTable(seqs))
  BY <1>4 DEF FlatTable
<1> DEFINE f == FlatTable(seqs)
           Different == {i \in 1 .. Len(seqs) : f[i] # g[i]}
<1>6. /\ DOMAIN f = 1 .. Len(seqs)
      /\ f = [i \in 1 .. Len(seqs) |-> f[i]]
      /\ \A i \in 1 .. Len(seqs) : f[i] = IF i = 1 THEN seqs[i] ELSE f[i-1] \o seqs[i]
  BY <1>5 DEF FlatStep
<1> HIDE DEF f
<1>7. \A i \in 1 .. Len(seqs) : g[i] = IF i = 1 THEN seqs[i] ELSE g[i-1] \o seqs[i]
  BY <1>4 DEF FlatStep
<1>8. Different = {}
  <2>1. SUFFICES ASSUME Different # {} PROVE FALSE
    OBVIOUS
  <2>2. Different \in SUBSET Nat
    BY <1>0
  <2>3. PICK m \in Different : \A n \in Different : m <= n
    BY <2>1, <2>2, LeastNat
  <2>4. m \in 1 .. Len(seqs) /\ f[m] # g[m]
    BY <2>3
  <2>5. CASE m = 1
    BY <1>6, <1>7, <2>4, <2>5
  <2>6. CASE m # 1
    <3>1. m - 1 \in 1 .. Len(seqs) /\ ~(m <= m - 1)
      BY <1>0, <2>4, <2>6
    <3>2. f[m - 1] = g[m - 1]
      BY <2>3, <3>1
    <3> QED
      BY <1>6, <1>7, <2>4, <2>6, <3>2
  <2> QED
    BY <2>5, <2>6
<1>9. f \in [1 .. Len(seqs) -> Seq(S)]
  BY <1>6, <1>8
<1> QED
  BY <1>5, <1>9 DEF f

(* One more sequence is concatenated at the end.                             *)
LEMMA PrefixStep ==
    ASSUME NEW S, NEW seqs \in Seq(Seq(S)), NEW k \in 1 .. Len(seqs)
    PROVE  /\ Prefix(seqs, k) \in Seq(S) /\ Prefix(seqs, k - 1) \in Seq(S)
           /\ seqs[k] \in Seq(S)
           /\ Prefix(seqs, k) = Prefix(seqs, k - 1) \o seqs[k]
<1>0. Len(seqs) \in Nat /\ seqs[k] \in Seq(S)
  BY LenProperties
<1>1. FlatTable(seqs)[k] \in Seq(S)
  BY FlatTableIs
<1>2. FlatTable(seqs)[k] = IF k = 1 THEN seqs[k] ELSE FlatTable(seqs)[k-1] \o seqs[k]
  <2> DEFINE f == FlatTable(seqs)
  <2>1. f = [i \in 1 .. Len(seqs) |-> IF i = 1 THEN seqs[i] ELSE f[i-1] \o seqs[i]]
    BY FlatTableIs DEF FlatStep
  <2> HIDE DEF f
  <2>2. f[k] = IF k = 1 THEN seqs[k] ELSE f[k-1] \o seqs[k]
    BY <2>1
  <2> QED
    BY <2>2 DEF f
<1>3. CASE k = 1
  <2>1. Prefix(seqs, k) = seqs[k] /\ Prefix(seqs, k - 1) = <<>>
    BY <1>2, <1>3 DEF Prefix
  <2> QED
    BY <1>0, <2>1, EmptySeq, ConcatEmptySeq
<1>4. CASE k # 1
  <2>1. k - 1 \in 1 .. Len(seqs) /\ k - 1 # 0 /\ k # 0
    BY <1>0, <1>4
  <2>2. FlatTable(seqs)[k - 1] \in Seq(S)
    BY <2>1, FlatTableIs
  <2> QED
    BY <1>0, <1>1, <1>2, <1>4, <2>1, <2>2 DEF Prefix
<1> QED
  BY <1>3, <1>4

LEMMA PrefixIsSeq ==
    ASSUME NEW S, NEW seqs \in Seq(Seq(S)), NEW k \in 0 .. Len(seqs)
    PROVE  Prefix(seqs, k) \in Seq(S) /\ Len(Prefix(seqs, k)) \in Nat
<1>0. Len(seqs) \in Nat
  BY LenProperties
<1>1. CASE k = 0
  BY <1>1, EmptySeq DEF Prefix
<1>2. CASE k # 0
  <2>1. k \in 1 .. Len(seqs)
    BY <1>0, <1>2
  <2> QED
    BY <2>1, PrefixStep, LenProperties
<1> QED
  BY <1>1, <1>2

(* The whole begins with each of its parts.                                  *)
LEMMA PrefixRest ==
    ASSUME NEW S, NEW seqs \in Seq(Seq(S)), NEW k \in 0 .. Len(seqs)
    PROVE  \E u \in Seq(S) : Prefix(seqs, Len(seqs)) = Prefix(seqs, k) \o u
<1> DEFINE N == Len(seqs)
           Rest(j) == \E u \in Seq(S) : Prefix(seqs, N) = Prefix(seqs, j) \o u
           Bad == {d \in 0 .. N : ~Rest(N - d)}
<1>0. N \in Nat
  BY LenProperties
<1> HIDE DEF N
<1>1. Rest(N)
  <2>1. N \in 0 .. Len(seqs)
    BY <1>0 DEF N
  <2>2. Prefix(seqs, N) \in Seq(S)
    BY <2>1, PrefixIsSeq
  <2> QED
    BY <2>2, ConcatEmptySeq, EmptySeq
<1>2. Bad = {}
  <2>1. SUFFICES ASSUME Bad # {} PROVE FALSE
    OBVIOUS
  <2>2. Bad \in SUBSET Nat
    BY <1>0
  <2>3. PICK d \in Bad : \A e \in Bad : d <= e
    BY <2>1, <2>2, LeastNat
  <2>4. d \in 0 .. N /\ ~Rest(N - d)
    BY <2>3
  <2>5. d # 0
    <3>1. N - 0 = N
      BY <1>0
    <3> QED
      BY <1>1, <2>4, <3>1
  <2>6. d - 1 \in 0 .. N /\ ~(d <= d - 1) /\ N - (d - 1) = (N - d) + 1
        /\ (N - d) + 1 \in 1 .. N /\ ((N - d) + 1) - 1 = N - d /\ N - d \in 0 .. N
    BY <1>0, <2>4, <2>5
  <2>7. Rest((N - d) + 1)
    BY <2>3, <2>6
  <2>8. PICK u \in Seq(S) : Prefix(seqs, N) = Prefix(seqs, (N - d) + 1) \o u
    BY <2>7
  <2>9. /\ Prefix(seqs, (N - d) + 1) = Prefix(seqs, N - d) \o seqs[(N - d) + 1]
        /\ Prefix(seqs, N - d) \in Seq(S) /\ seqs[(N - d) + 1] \in Seq(S)
    BY <2>6, PrefixStep DEF N
  <2>10. Prefix(seqs, N) = Prefix(seqs, N - d) \o (seqs[(N - d) + 1] \o u)
    <3> DEFINE p == Prefix(seqs, N - d)
               q == seqs[(N - d) + 1]
    <3>1. p \in Seq(S) /\ q \in Seq(S)
      BY <2>9
    <3> HIDE DEF p, q
    <3>2. (p \o q) \o u = p \o (q \o u)
      BY <3>1, ConcatAssociative
    <3> QED
      BY <2>8, <2>9, <3>2 DEF p, q
  <2>11. seqs[(N - d) + 1] \o u \in Seq(S)
    BY <2>8, <2>9, ConcatProperties
  <2> QED
    BY <2>4, <2>10, <2>11
<1>3. N - k \in 0 .. N /\ N - (N - k) = k
  BY <1>0 DEF N
<1> QED
  BY <1>2, <1>3 DEF N

(* Entry l of sequence k in the whole.                                       *)
LEMMA EntryAt ==
    ASSUME NEW S, NEW seqs \in Seq(Seq(S)), NEW k \in 1 .. Len(seqs),
           NEW l \in 1 .. Len(seqs[k])
    PROVE  /\ Len(Prefix(seqs, k - 1)) + l \in 1 .. Len(Prefix(seqs, Len(seqs)))
           /\ Prefix(seqs, Len(seqs))[Len(Prefix(seqs, k - 1)) + l] = seqs[k][l]
<1> DEFINE p == Prefix(seqs, k - 1)
           q == seqs[k]
           whole == Prefix(seqs, Len(seqs))
<1>0. Len(seqs) \in Nat /\ k \in 0 .. Len(seqs) /\ k - 1 \in 0 .. Len(seqs)
  BY LenProperties
<1>1. p \in Seq(S) /\ q \in Seq(S) /\ Prefix(seqs, k) = p \o q
  BY PrefixStep
<1>2. PICK u \in Seq(S) : whole = Prefix(seqs, k) \o u
  BY <1>0, PrefixRest
<1> HIDE DEF p, q, whole
<1>3. whole = (p \o q) \o u /\ p \o q \in Seq(S)
  BY <1>1, <1>2, ConcatProperties
<1>4. /\ Len(p) \in Nat /\ Len(q) \in Nat /\ Len(u) \in Nat
      /\ Len(p \o q) = Len(p) + Len(q) /\ Len(whole) = Len(p \o q) + Len(u)
  BY <1>1, <1>3, LenProperties, ConcatProperties
<1>5. l \in 1 .. Len(q)
  BY DEF q
<1>6. /\ Len(p) + l \in 1 .. Len(p) + Len(q) /\ ~(Len(p) + l <= Len(p))
      /\ (Len(p) + l) - Len(p) = l
      /\ Len(p) + l \in 1 .. Len(p \o q) + Len(u) /\ Len(p) + l <= Len(p \o q)
  BY <1>4, <1>5
<1>7. (p \o q)[Len(p) + l] = q[l]
  BY <1>1, <1>6, ConcatProperties
<1>8. whole[Len(p) + l] = (p \o q)[Len(p) + l]
  BY <1>3, <1>6, ConcatProperties
<1> QED
  BY <1>4, <1>6, <1>7, <1>8 DEF p, q, whole

(* Every position of the whole is an entry of one of the sequences.          *)
LEMMA EntryOf ==
    ASSUME NEW S, NEW seqs \in Seq(Seq(S)),
           NEW i \in 1 .. Len(Prefix(seqs, Len(seqs)))
    PROVE  \E k \in 1 .. Len(seqs) : \E l \in 1 .. Len(seqs[k]) :
              i = Len(Prefix(seqs, k - 1)) + l
<1> DEFINE N == Len(seqs)
           T == {k \in 0 .. N : i <= Len(Prefix(seqs, k))}
<1>0. N \in Nat
  BY LenProperties
<1>1. \A k \in 0 .. N : Len(Prefix(seqs, k)) \in Nat
  BY PrefixIsSeq
<1>2. N \in T /\ T \in SUBSET Nat
  BY <1>0, <1>1
<1>3. PICK k \in T : \A n \in T : k <= n
  BY <1>2, LeastNat
<1>4. k # 0
  <2>1. Len(Prefix(seqs, 0)) = 0
    BY EmptySeq DEF Prefix
  <2> QED
    BY <1>3, <2>1
<1>5. k \in 1 .. N /\ k - 1 \in 0 .. N /\ ~(k <= k - 1)
  BY <1>0, <1>3, <1>4
<1>6. /\ seqs[k] \in Seq(S) /\ Prefix(seqs, k - 1) \in Seq(S)
      /\ Prefix(seqs, k) = Prefix(seqs, k - 1) \o seqs[k]
  BY <1>5, PrefixStep
<1>7. /\ Len(Prefix(seqs, k - 1)) \in Nat /\ Len(seqs[k]) \in Nat
      /\ Len(Prefix(seqs, k)) = Len(Prefix(seqs, k - 1)) + Len(seqs[k])
  BY <1>6, ConcatProperties, LenProperties
<1>8. ~(i <= Len(Prefix(seqs, k - 1))) /\ i <= Len(Prefix(seqs, k))
  BY <1>3, <1>5
<1> HIDE DEF N
<1> DEFINE l == i - Len(Prefix(seqs, k - 1))
<1>9. l \in 1 .. Len(seqs[k]) /\ i = Len(Prefix(seqs, k - 1)) + l
  <2>1. i \in Int
    OBVIOUS
  <2>2. \A p, q \in Nat : ~(i <= p) /\ i <= p + q => i - p \in 1 .. q /\ i = p + (i - p)
    BY <2>1
  <2> QED
    BY <1>7, <1>8, <2>2
<1> QED
  BY <1>5, <1>9 DEF N

(* Sequences of the same lengths have their entries at the same positions.   *)
LEMMA SameShape ==
    ASSUME NEW S, NEW T, NEW a \in Seq(Seq(S)), NEW b \in Seq(Seq(T)),
           Len(a) = Len(b), \A j \in 1 .. Len(a) : Len(a[j]) = Len(b[j]),
           NEW k \in 0 .. Len(a)
    PROVE  Len(Prefix(a, k)) = Len(Prefix(b, k))
<1> DEFINE N == Len(a)
           Bad == {j \in 0 .. N : Len(Prefix(a, j)) # Len(Prefix(b, j))}
<1>0. N \in Nat
  BY LenProperties
<1>1. SUFFICES ASSUME Bad # {} PROVE FALSE
  OBVIOUS
<1>2. Bad \in SUBSET Nat
  BY <1>0
<1>3. PICK m \in Bad : \A n \in Bad : m <= n
  BY <1>1, <1>2, LeastNat
<1>4. m # 0
  BY <1>3 DEF Prefix
<1>5. m \in 1 .. N /\ m - 1 \in 0 .. N /\ ~(m <= m - 1)
  BY <1>0, <1>3, <1>4
<1>6. Len(Prefix(a, m - 1)) = Len(Prefix(b, m - 1))
  BY <1>3, <1>5
<1>7. /\ Prefix(a, m - 1) \in Seq(S) /\ a[m] \in Seq(S)
      /\ Prefix(a, m) = Prefix(a, m - 1) \o a[m]
  BY <1>5, PrefixStep
<1>8. /\ Prefix(b, m - 1) \in Seq(T) /\ b[m] \in Seq(T)
      /\ Prefix(b, m) = Prefix(b, m - 1) \o b[m]
  BY <1>5, PrefixStep
<1>9. /\ Len(Prefix(a, m)) = Len(Prefix(a, m - 1)) + Len(a[m])
      /\ Len(Prefix(b, m)) = Len(Prefix(b, m - 1)) + Len(b[m])
  BY <1>7, <1>8, ConcatProperties
<1> QED
  BY <1>3, <1>5, <1>6, <1>9

-----------------------------------------------------------------------------
(* The rendering                                                             *)

Pair == Int \X Seq(Int)
PerStep(k) == [j \in DOMAIN source[k].steps |-> Text(<<k, j>>)]
PerPiece == [k \in DOMAIN source |-> FlattenSeq(PerStep(k))]

LEMMA AsWrittenIs == AsWritten = FlattenSeq(PerPiece)
BY DEF AsWritten, PerPiece, PerStep

(* A point says one thing, with the values of its turns; other steps nothing. *)
LEMMA TextIs ==
    ASSUME SourceInv, NEW k \in DOMAIN source, NEW j \in DOMAIN source[k].steps
    PROVE  /\ Text(<<k, j>>) \in Seq(Pair)
           /\ Step(source, <<k, j>>).op # "point" => Text(<<k, j>>) = <<>>
           /\ \A l \in 1 .. Len(Text(<<k, j>>)) : Text(<<k, j>>)[l][1] = k
<1> DEFINE here == <<k, j>>
           s == Step(source, here)
<1>1. CASE s.op # "point"
  <2>1. Text(here) = <<>>
    BY <1>1 DEF Text
  <2> QED
    BY <2>1, EmptySeq
<1>2. CASE s.op = "point"
  <2> DEFINE x == [n \in DOMAIN s.values |-> NextValue(source, s.values[n], here) - 1]
  <2>1. Text(here) = << <<k, x>> >>
    BY <1>2 DEF Text
  <2>2. s.values \in Seq(Calls(source))
    BY <1>2, PlaceOf, SourceIs DEF WellFormed
  <2>3. Len(s.values) \in Nat /\ DOMAIN s.values = 1 .. Len(s.values)
        /\ \A n \in 1 .. Len(s.values) : s.values[n] \in Calls(source)
    BY <2>2, LenProperties, ElementOfSeq
  <2>4. ASSUME NEW n \in DOMAIN s.values
        PROVE  NextValue(source, s.values[n], here) - 1 \in Int
    BY <2>3, NextValueInt
  <2>5. x \in [1 .. Len(s.values) -> Int]
    BY <2>3, <2>4
  <2> HIDE DEF x, s
  <2>6. x \in Seq(Int)
    BY <2>3, <2>5
  <2>7. <<k, x>> \in Pair
    BY <2>6, SourceIs DEF Pair
  <2> DEFINE q == <<k, x>>
  <2>8. q \in Pair /\ q[1] = k
    BY <2>7
  <2> HIDE DEF q
  <2>9. <<q>> \in Seq(Pair) /\ Len(<<q>>) = 1 /\ <<q>>[1] = q
    BY <2>8
  <2> QED
    BY <1>2, <2>1, <2>8, <2>9 DEF q, s
<1> QED
  BY <1>1, <1>2

LEMMA PerStepIs ==
    ASSUME SourceInv, NEW k \in DOMAIN source
    PROVE  /\ PerStep(k) \in Seq(Seq(Pair)) /\ Len(PerStep(k)) = Len(source[k].steps)
           /\ \A j \in DOMAIN source[k].steps : PerStep(k)[j] = Text(<<k, j>>)
<1>1. PerStep(k) \in [1 .. Len(source[k].steps) -> Seq(Pair)]
  BY TextIs, SourceIs DEF PerStep
<1>2. Len(source[k].steps) \in Nat
  BY SourceIs
<1>3. \A j \in DOMAIN source[k].steps : PerStep(k)[j] = Text(<<k, j>>)
  BY DEF PerStep
<1> QED
  BY <1>1, <1>2, <1>3

LEMMA PerPieceIs ==
    ASSUME SourceInv
    PROVE  /\ PerPiece \in Seq(Seq(Pair)) /\ Len(PerPiece) = Len(source)
           /\ \A k \in DOMAIN source :
                PerPiece[k] = Prefix(PerStep(k), Len(source[k].steps)) /\ PerPiece[k] \in Seq(Pair)
<1>1. ASSUME NEW k \in DOMAIN source
      PROVE  FlattenSeq(PerStep(k)) = Prefix(PerStep(k), Len(source[k].steps))
             /\ FlattenSeq(PerStep(k)) \in Seq(Pair)
  <2>1. Len(source[k].steps) \in 0 .. Len(PerStep(k))
    BY PerStepIs, SourceIs
  <2> QED
    BY <2>1, PerStepIs, FlattenIsPrefix, PrefixIsSeq
<1>2. PerPiece \in [1 .. Len(source) -> Seq(Pair)] /\ Len(source) \in Nat
  BY <1>1, SourceIs DEF PerPiece
<1>3. \A k \in DOMAIN source : PerPiece[k] = FlattenSeq(PerStep(k))
  BY DEF PerPiece
<1> QED
  BY <1>1, <1>2, <1>3

(* What is rendered is what the pieces before the current one say, and what  *)
(* its steps before the current one do.                                      *)
Written ==
    IF piece = 0 THEN <<>>
    ELSE IF piece \in DOMAIN source
    THEN Prefix(PerPiece, piece - 1) \o Prefix(PerStep(piece), step - 1)
    ELSE Prefix(PerPiece, Len(source))
RenderedInv ==
    /\ LoopInv
    /\ rendered = Written
    /\ result = "metrics" => piece = Len(source) + 1

LEMMA RenderedInit == ASSUME Init PROVE RenderedInv
BY LoopInit DEF Init, RenderingInit, RenderedInv, Written

LEMMA PerStepKept ==
    ASSUME source' = source
    PROVE  PerPiece' = PerPiece /\ \A k : PerStep(k)' = PerStep(k)
<1>1. \A k : PerStep(k)' = PerStep(k)
  BY DEF PerStep, Text
<1> QED
  BY <1>1 DEF PerPiece

LEMMA WrittenKept ==
    ASSUME UNCHANGED <<source, piece, step>>
    PROVE  Written' = Written
BY PerStepKept DEF Written

(* Nothing of a piece is written when it is entered.                         *)
LEMMA Entered ==
    ASSUME SourceInv, NEW k \in 1 .. (Len(source) + 1), source' = source, piece' = k, step' = 1
    PROVE  Written' = Prefix(PerPiece, k - 1)
<1>1. Len(source) \in Nat /\ DOMAIN source = 1 .. Len(source) /\ k # 0
  BY SourceIs
<1>2. CASE k \in DOMAIN source
  <2>1. Written' = Prefix(PerPiece, k - 1) \o Prefix(PerStep(k), 1 - 1)
    BY <1>1, <1>2, PerStepKept DEF Written
  <2>2. Prefix(PerStep(k), 1 - 1) = <<>>
    BY DEF Prefix
  <2>3. k - 1 \in 0 .. Len(PerPiece)
    BY <1>1, PerPieceIs
  <2>4. Prefix(PerPiece, k - 1) \in Seq(Pair)
    BY <2>3, PerPieceIs, PrefixIsSeq
  <2> QED
    BY <2>1, <2>2, <2>4, ConcatEmptySeq
<1>3. CASE k \notin DOMAIN source
  <2>1. k - 1 = Len(source)
    BY <1>1, <1>3
  <2> QED
    BY <1>1, <1>3, <2>1, PerStepKept DEF Written
<1> QED
  BY <1>2, <1>3

(* A step writes what it says.                                               *)
LEMMA WrittenOn ==
    ASSUME PlaceInv, Here \in Places(source), UNCHANGED <<source, piece>>, step' = step + 1
    PROVE  Written' = Written \o Text(Here) /\ Written \in Seq(Pair)
<1>1. /\ piece \in DOMAIN source /\ step \in DOMAIN source[piece].steps
      /\ Here = <<piece, step>> /\ SourceInv
  BY PlaceOn DEF PlaceInv
<1>2. /\ piece # 0 /\ piece - 1 \in 0 .. Len(PerPiece) /\ step \in 1 .. Len(PerStep(piece))
      /\ step' - 1 = step
  BY <1>1, SourceIs, PerPieceIs, PerStepIs DEF PlaceInv
<1> DEFINE p == Prefix(PerPiece, piece - 1)
           q == Prefix(PerStep(piece), step - 1)
           t == Text(Here)
<1>3. p \in Seq(Pair)
  BY <1>1, <1>2, PerPieceIs, PrefixIsSeq
<1>4. PerStep(piece)[step] = t
  BY <1>1, PerStepIs
<1>5. q \in Seq(Pair) /\ t \in Seq(Pair) /\ Prefix(PerStep(piece), step) = q \o t
  BY <1>1, <1>2, <1>4, PerStepIs, PrefixStep
<1>6. Written = p \o q
  BY <1>1, <1>2 DEF Written
<1>7. Written' = p \o Prefix(PerStep(piece), step)
  BY <1>1, <1>2, PerStepKept DEF Written
<1> HIDE DEF p, q, t
<1>8. p \o (q \o t) = (p \o q) \o t /\ p \o q \in Seq(Pair)
  <2>1. p \in Seq(Pair) /\ q \in Seq(Pair) /\ t \in Seq(Pair)
    BY <1>3, <1>5
  <2>2. (p \o q) \o t = p \o (q \o t)
    BY <2>1, ConcatAssociative
  <2> QED
    BY <2>1, <2>2, ConcatProperties
<1> QED
  BY <1>5, <1>6, <1>7, <1>8 DEF t

LEMMA RenderedStep == ASSUME RenderedInv, [Next]_vars PROVE RenderedInv'
<1>0. source' = source /\ LoopInv' /\ LoopInv /\ PlaceInv /\ SourceInv /\ SourceInv'
  <2>1. LoopInv'
    BY LoopStep DEF RenderedInv
  <2> QED
    BY <2>1, SourceKept DEF RenderedInv, LoopInv, PlaceInv
<1>s. Len(source) \in Nat /\ DOMAIN source = 1 .. Len(source)
      /\ piece \in 0 .. (Len(source) + 1)
  BY <1>0, SourceIs DEF PlaceInv
<1>1. CASE Render
  <2>1. CASE TryNextExtension \/ Abort \/ Unmarshal
    <3>1. UNCHANGED <<source, piece, step, rendered>>
          /\ (result' = "metrics" => piece > Len(source))
      BY <2>1 DEF TryNextExtension, Abort, Unmarshal, input, RenderedInv
    <3>2. Written' = Written
      BY <3>1, WrittenKept
    <3> QED
      BY <1>0, <1>s, <3>1, <3>2 DEF RenderedInv
  <2>2. CASE Execute
    <3>1. /\ UNCHANGED <<rendered, result>> /\ piece = 0 /\ piece' = 1 /\ step' = step
          /\ result = "pending"
      BY <2>2 DEF Execute, input
    <3>2. step = 1
      BY <1>0, <1>s, <3>1 DEF PlaceInv
    <3>3. 1 \in 1 .. (Len(source) + 1) /\ 1 - 1 = 0
      BY <1>s
    <3>4. Written' = Prefix(PerPiece, 0)
      BY <1>0, <3>1, <3>2, <3>3, Entered
    <3>5. rendered' = Written'
      BY <3>1, <3>4 DEF RenderedInv, Written, Prefix
    <3> QED
      BY <1>0, <3>1, <3>5 DEF RenderedInv
  <2>3. CASE CallLoop \/ HandOver \/ EndRange
    <3>1. /\ UNCHANGED <<rendered, result>> /\ Here \in Places(source)
          /\ Step(source, Here).op # "point" /\ result = "pending"
      BY <2>3 DEF CallLoop, HandOver, EndRange, At
    <3>2. piece' = piece /\ step' = step + 1
      <4>1. CASE CallLoop \/ HandOver
        BY <4>1 DEF CallLoop, HandOver
      <4>2. CASE EndRange
        BY <1>0, <4>2, EndsRange
      <4> QED
        BY <2>3, <4>1, <4>2
    <3>3. piece \in DOMAIN source /\ step \in DOMAIN source[piece].steps /\ Here = <<piece, step>>
      BY <1>0, <3>1, <3>2, PlaceOn
    <3>4. Text(Here) = <<>>
      BY <1>0, <3>1, <3>3, TextIs
    <3>5. Written' = Written
      BY <1>0, <3>1, <3>2, <3>4, WrittenOn, ConcatEmptySeq
    <3> QED
      BY <1>0, <3>1, <3>5 DEF RenderedInv
  <2>4. CASE WritePoint
    <3> DEFINE values == Step(source, Here).values
               x == <<piece, [n \in DOMAIN values |-> sends[values[n]] - 1]>>
    <3>1. /\ result' = result /\ result = "pending" /\ piece' = piece /\ step' = step + 1
          /\ Here \in Places(source) /\ Step(source, Here).op = "point"
          /\ rendered' = Append(rendered, x)
      BY <2>4 DEF WritePoint, At
    <3>2. piece \in DOMAIN source /\ step \in DOMAIN source[piece].steps /\ Here = <<piece, step>>
      BY <1>0, <3>1, PlaceOn
    <3>3. values \in Seq(Calls(source))
      BY <1>0, <3>1, SourceIs DEF WellFormed
    <3>4. \A n \in DOMAIN values : values[n] \in Calls(source)
      BY <3>3, ElementOfSeq, LenProperties
    <3>5. \A n \in DOMAIN values : sends[values[n]] = NextValue(source, values[n], Here)
      BY <1>0, <3>4 DEF LoopInv
    <3>6. Text(Here) = <<x>>
      BY <3>1, <3>2, <3>5 DEF Text
    <3> HIDE DEF x, values
    <3>7. Written \in Seq(Pair) /\ Text(Here) \in Seq(Pair) /\ Written' = Written \o Text(Here)
      BY <1>0, <3>1, <3>2, WrittenOn, TextIs
    <3>8. x \in Pair
      BY <3>6, <3>7
    <3>9. rendered' = Written'
      BY <3>1, <3>6, <3>7, <3>8, AppendIsConcat DEF RenderedInv
    <3> QED
      BY <1>0, <3>1, <3>9 DEF RenderedInv
  <2>5. CASE NextPiece
    <3>1. /\ UNCHANGED <<rendered, result>> /\ result = "pending" /\ piece \in DOMAIN source
          /\ step > Len(source[piece].steps) /\ piece' = piece + 1 /\ step' = 1
      BY <2>5 DEF NextPiece
    <3>2. piece # 0 /\ piece \in 1 .. Len(PerPiece) /\ step - 1 = Len(source[piece].steps)
          /\ piece + 1 \in 1 .. (Len(source) + 1) /\ (piece + 1) - 1 = piece
      BY <1>0, <1>s, <3>1, SourceIs, PerPieceIs DEF PlaceInv
    <3>3. Written = Prefix(PerPiece, piece - 1) \o PerPiece[piece]
      BY <1>0, <3>1, <3>2, PerPieceIs DEF Written
    <3>4. Prefix(PerPiece, piece) = Prefix(PerPiece, piece - 1) \o PerPiece[piece]
      BY <1>0, <3>2, PerPieceIs, PrefixStep
    <3>5. Written' = Prefix(PerPiece, piece)
      BY <1>0, <3>1, <3>2, Entered
    <3> QED
      BY <1>0, <3>1, <3>3, <3>4, <3>5 DEF RenderedInv
  <2>6. ASSUME NEW g \in Calls(source), CloseChannel(g) PROVE RenderedInv'
    <3>1. UNCHANGED <<source, piece, step, rendered, result>>
      BY <2>6 DEF CloseChannel, input
    <3>2. Written' = Written
      BY <3>1, WrittenKept
    <3> QED
      BY <1>0, <3>1, <3>2 DEF RenderedInv
  <2> QED
    BY <1>1, <2>1, <2>2, <2>3, <2>4, <2>5, <2>6 DEF Render, Renderer, LoopGoroutine
<1>2. CASE UNCHANGED renderingVars
  <2>1. UNCHANGED <<source, piece, step, rendered, result>>
    BY <1>2 DEF renderingVars
  <2>2. Written' = Written
    BY <2>1, WrittenKept
  <2> QED
    BY <1>0, <2>1, <2>2 DEF RenderedInv
<1> QED
  BY <1>1, <1>2 DEF Next, ExtractGenerationHints, Override, GetResources, PlanSeries,
                    produceMetricsForInstance, NextInterval, Ended, vars

LEMMA AsWrittenIsPrefix ==
    ASSUME SourceInv
    PROVE  AsWritten = Prefix(PerPiece, Len(source)) /\ AsWritten \in Seq(Pair)
<1>1. FlattenSeq(PerPiece) = Prefix(PerPiece, Len(PerPiece))
  BY PerPieceIs, FlattenIsPrefix
<1>2. Len(PerPiece) \in 0 .. Len(PerPiece)
  BY PerPieceIs, SourceIs
<1>3. Prefix(PerPiece, Len(PerPiece)) \in Seq(Pair)
  BY <1>2, PerPieceIs, PrefixIsSeq
<1> QED
  BY <1>1, <1>3, PerPieceIs, AsWrittenIs

LEMMA WrittenBegins ==
    ASSUME RenderedInv
    PROVE  rendered \in Seq(Pair) /\ \E u \in Seq(Pair) : AsWritten = rendered \o u
<1>0. Len(source) \in Nat /\ DOMAIN source = 1 .. Len(source) /\ SourceInv /\ PlaceInv
  BY SourceIs DEF RenderedInv, LoopInv, PlaceInv
<1>1. PerPiece \in Seq(Seq(Pair)) /\ Len(PerPiece) = Len(source)
  BY <1>0, PerPieceIs
<1>2. AsWritten = Prefix(PerPiece, Len(source)) /\ AsWritten \in Seq(Pair)
  BY <1>0, AsWrittenIsPrefix
<1>3. CASE piece = 0
  <2>1. rendered = <<>>
    BY <1>3 DEF RenderedInv, Written
  <2> QED
    BY <1>2, <2>1, ConcatEmptySeq, EmptySeq
<1>4. CASE piece # 0 /\ piece \in DOMAIN source
  <2> DEFINE steps == PerStep(piece)
             before == Prefix(PerPiece, piece - 1)
             q == Prefix(steps, step - 1)
  <2>1. rendered = before \o q
    BY <1>4 DEF RenderedInv, Written
  <2>2. /\ steps \in Seq(Seq(Pair)) /\ step - 1 \in 0 .. Len(steps)
        /\ PerPiece[piece] = Prefix(steps, Len(steps))
    BY <1>0, <1>4, SourceIs, PerStepIs, PerPieceIs DEF PlaceInv
  <2> HIDE DEF steps
  <2>3. PICK v \in Seq(Pair) : PerPiece[piece] = q \o v
    BY <2>2, PrefixRest
  <2>4. piece \in 1 .. Len(PerPiece) /\ piece \in 0 .. Len(PerPiece)
    BY <1>0, <1>1, <1>4
  <2>5. before \in Seq(Pair) /\ Prefix(PerPiece, piece) = before \o PerPiece[piece]
    BY <1>1, <2>4, PrefixStep
  <2>6. PICK u \in Seq(Pair) : Prefix(PerPiece, Len(PerPiece)) = Prefix(PerPiece, piece) \o u
    BY <1>1, <2>4, PrefixRest
  <2>7. q \in Seq(Pair)
    BY <2>2, PrefixIsSeq
  <2>8. AsWritten = (before \o (q \o v)) \o u
    BY <1>1, <1>2, <2>3, <2>5, <2>6
  <2> HIDE DEF q, before
  <2>9. before \in Seq(Pair) /\ q \in Seq(Pair) /\ v \in Seq(Pair) /\ u \in Seq(Pair)
    BY <2>3, <2>5, <2>6, <2>7
  <2>10. (before \o q) \o v = before \o (q \o v)
    BY <2>9, ConcatAssociative
  <2>11. before \o q \in Seq(Pair) /\ v \o u \in Seq(Pair)
    BY <2>9, ConcatProperties
  <2>12. ((before \o q) \o v) \o u = (before \o q) \o (v \o u)
    BY <2>9, <2>11, ConcatAssociative
  <2> QED
    BY <2>1, <2>8, <2>10, <2>11, <2>12
<1>5. CASE piece # 0 /\ piece \notin DOMAIN source
  <2>1. rendered = Prefix(PerPiece, Len(source))
    BY <1>5 DEF RenderedInv, Written
  <2> QED
    BY <1>2, <2>1, ConcatEmptySeq, EmptySeq
<1> QED
  BY <1>3, <1>4, <1>5

LEMMA BeginningOf ==
    ASSUME NEW s \in Seq(Pair), NEW u \in Seq(Pair)
    PROVE  s = SubSeq(s \o u, 1, Len(s))
<1>1. Len(s) \in Nat
  BY LenProperties
<1>2. CASE Len(s) = 0
  <2>1. s = <<>>
    BY <1>2, EmptySeq
  <2>2. SubSeq(s \o u, 1, Len(s)) = <<>>
    BY <1>2, SubSeqEmpty
  <2> QED
    BY <2>1, <2>2
<1>3. CASE Len(s) # 0
  <2>1. 1 \in 1 .. Len(s) /\ Len(s) \in 1 .. Len(s)
    BY <1>1, <1>3
  <2> QED
    BY <2>1, SubSeqOfConcat1, SubSeqFull
<1> QED
  BY <1>2, <1>3

LEMMA RenderedComplete ==
    ASSUME RenderedInv, result = "metrics"
    PROVE  rendered = AsWritten
<1>1. SourceInv /\ piece # 0 /\ piece \notin DOMAIN source
  BY SourceIs DEF RenderedInv, LoopInv, PlaceInv
<1>2. rendered = Prefix(PerPiece, Len(source))
  BY <1>1 DEF RenderedInv, Written
<1> QED
  BY <1>1, <1>2, AsWrittenIsPrefix

(* Whatever the interleaving of the goroutines, and however the loops are    *)
(* nested or left, a rendering has every data point once, in order and with  *)
(* the values of its own turns (metricstmpl.go:27-36).                       *)
THEOREM RenderingComplete == Spec => []RenderedAsWritten
<1>1. Spec => []RenderedInv
  BY RenderedInit, RenderedStep, PTL DEF Spec
<1>2. ASSUME RenderedInv PROVE RenderedAsWritten
  <2>1. PICK u \in Seq(Pair) : rendered \in Seq(Pair) /\ AsWritten = rendered \o u
    BY <1>2, WrittenBegins
  <2>2. rendered = SubSeq(rendered \o u, 1, Len(rendered))
    BY <2>1, BeginningOf
  <2> QED
    BY <1>2, <2>1, <2>2, RenderedComplete DEF RenderedAsWritten
<1> QED
  BY <1>1, <1>2, PTL

-----------------------------------------------------------------------------
(* From what is rendered to what is emitted                                  *)
LEMMA PerPieceEntries ==
    ASSUME SourceInv, NEW k \in DOMAIN source
    PROVE  /\ PerPiece[k] \in Seq(Pair) /\ Len(PerPiece[k]) \in Nat
           /\ DOMAIN PerPiece[k] = 1 .. Len(PerPiece[k])
           /\ Len(PerPiece[k]) > 0 => \E j \in DOMAIN source[k].steps : source[k].steps[j].op = "point"
           /\ \A l \in 1 .. Len(PerPiece[k]) : PerPiece[k][l][1] = k
<1> DEFINE steps == PerStep(k)
<1>1. /\ steps \in Seq(Seq(Pair)) /\ DOMAIN source[k].steps = 1 .. Len(steps)
      /\ PerPiece[k] = Prefix(steps, Len(steps)) /\ PerPiece[k] \in Seq(Pair)
      /\ \A j \in 1 .. Len(steps) : steps[j] = Text(<<k, j>>)
  BY SourceIs, PerStepIs, PerPieceIs
<1> HIDE DEF steps
<1>2. ASSUME NEW i \in 1 .. Len(PerPiece[k])
      PROVE  /\ PerPiece[k][i][1] = k
             /\ \E j \in DOMAIN source[k].steps : source[k].steps[j].op = "point"
  <2>1. PICK j \in 1 .. Len(steps) : \E l \in 1 .. Len(steps[j]) :
           i = Len(Prefix(steps, j - 1)) + l
    <3>1. i \in 1 .. Len(Prefix(steps, Len(steps))) /\ steps \in Seq(Seq(Pair))
      BY <1>1
    <3> QED
      BY <3>1, EntryOf
  <2>2. PICK l \in 1 .. Len(steps[j]) : i = Len(Prefix(steps, j - 1)) + l
    BY <2>1
  <2>3. PerPiece[k][i] = steps[j][l]
    BY <1>1, <2>2, EntryAt
  <2>4. j \in DOMAIN source[k].steps /\ steps[j] = Text(<<k, j>>)
    BY <1>1
  <2>5. steps[j][l][1] = k
    BY <2>4, TextIs
  <2>6. source[k].steps[j].op = "point"
    <3>1. SUFFICES ASSUME Step(source, <<k, j>>).op # "point" PROVE FALSE
      BY DEF Step
    <3>2. steps[j] = <<>>
      BY <2>4, <3>1, TextIs
    <3> QED
      BY <3>2
  <2> QED
    BY <2>3, <2>4, <2>5, <2>6
<1>3. Len(PerPiece[k]) > 0 => 1 \in 1 .. Len(PerPiece[k])
  BY <1>1, LenProperties
<1> QED
  BY <1>1, <1>2, <1>3, LenProperties

(* Entry l of piece k is found at one place of what is written.              *)
LEMMA WrittenAt ==
    ASSUME SourceInv, NEW k \in DOMAIN source, NEW l \in 1 .. Len(PerPiece[k])
    PROVE  /\ Len(Prefix(PerPiece, k - 1)) + l \in 1 .. Len(AsWritten)
           /\ AsWritten[Len(Prefix(PerPiece, k - 1)) + l] = PerPiece[k][l]
<1>1. PerPiece \in Seq(Seq(Pair)) /\ Len(PerPiece) = Len(source) /\ k \in 1 .. Len(PerPiece)
  BY PerPieceIs, SourceIs
<1>2. AsWritten = Prefix(PerPiece, Len(PerPiece))
  BY <1>1, AsWrittenIsPrefix
<1> QED
  BY <1>1, <1>2, EntryAt

LEMMA WrittenBy ==
    ASSUME SourceInv, NEW i \in 1 .. Len(AsWritten)
    PROVE  \E k \in DOMAIN source : \E l \in 1 .. Len(PerPiece[k]) :
              /\ i = Len(Prefix(PerPiece, k - 1)) + l
              /\ AsWritten[i] = PerPiece[k][l]
<1>1. PerPiece \in Seq(Seq(Pair)) /\ Len(PerPiece) = Len(source)
      /\ DOMAIN source = 1 .. Len(PerPiece)
  BY PerPieceIs, SourceIs
<1>2. AsWritten = Prefix(PerPiece, Len(PerPiece))
  BY <1>1, AsWrittenIsPrefix
<1>3. PICK k \in DOMAIN source : \E l \in 1 .. Len(PerPiece[k]) :
         i = Len(Prefix(PerPiece, k - 1)) + l
  <2>1. i \in 1 .. Len(Prefix(PerPiece, Len(PerPiece)))
    BY <1>2
  <2>2. \E k \in 1 .. Len(PerPiece) : \E l \in 1 .. Len(PerPiece[k]) :
           i = Len(Prefix(PerPiece, k - 1)) + l
    BY <1>1, <2>1, EntryOf
  <2> QED
    BY <1>1, <2>2
<1>4. PICK l \in 1 .. Len(PerPiece[k]) : i = Len(Prefix(PerPiece, k - 1)) + l
  BY <1>3
<1> QED
  BY <1>4, WrittenAt

LEMMA Ends ==
    ASSUME NEW a \in Int, NEW b \in Int, a <= b
    PROVE  Min(a .. b) = a /\ Max(a .. b) = b
BY DEF Min, Max

(* A complete rendering has the points of each piece in one stretch.         *)
LEMMA PointsOfIs ==
    ASSUME SourceInv, rendered = AsWritten, NEW k \in DOMAIN source
    PROVE  PointsOf(k) = PerPiece[k]
<1> DEFINE off == Len(Prefix(PerPiece, k - 1))
           w == PerPiece[k]
           own == {i \in DOMAIN rendered : rendered[i][1] = k}
<1>1. off \in Nat
  <2>1. k - 1 \in 0 .. Len(PerPiece)
    BY PerPieceIs, SourceIs
  <2> QED
    BY <2>1, PerPieceIs, PrefixIsSeq
<1>2. w \in Seq(Pair) /\ Len(w) \in Nat /\ \A l \in 1 .. Len(w) : w[l][1] = k
  BY PerPieceEntries
<1>3. rendered \in Seq(Pair) /\ DOMAIN rendered = 1 .. Len(rendered)
  BY AsWrittenIsPrefix, LenProperties
<1>4. \A l \in 1 .. Len(w) : off + l \in DOMAIN rendered /\ rendered[off + l] = w[l]
  BY <1>3, WrittenAt
<1>5. ASSUME NEW i \in own
      PROVE  i \in (off + 1) .. (off + Len(w))
  <2>1. i \in 1 .. Len(AsWritten) /\ AsWritten[i][1] = k
    BY <1>3
  <2>2. PICK j \in DOMAIN source : \E l \in 1 .. Len(PerPiece[j]) :
           i = Len(Prefix(PerPiece, j - 1)) + l /\ AsWritten[i] = PerPiece[j][l]
    BY <2>1, WrittenBy
  <2>3. j = k
    BY <2>1, <2>2, PerPieceEntries
  <2>4. PICK l \in 1 .. Len(w) : i = off + l
    BY <2>2, <2>3
  <2> HIDE DEF off, w, own
  <2> QED
    BY <1>1, <1>2, <2>4
<1>6. ASSUME NEW i \in (off + 1) .. (off + Len(w))
      PROVE  i \in own
  <2> DEFINE l == i - off
  <2>1. l \in 1 .. Len(w) /\ i = off + l
    <3> HIDE DEF off, w
    <3> QED
      BY <1>1, <1>2
  <2> HIDE DEF l, off, w
  <2> QED
    BY <1>2, <1>4, <2>1
<1>7. own = (off + 1) .. (off + Len(w))
  BY <1>5, <1>6
<1>8. PointsOf(k) = IF own = {} THEN <<>> ELSE SubSeq(rendered, Min(own), Max(own))
  BY DEF PointsOf
<1> HIDE DEF off, w, own
<1>9. CASE Len(w) = 0
  <2>1. own = {}
    BY <1>1, <1>7, <1>9
  <2>2. w = <<>>
    BY <1>2, <1>9, EmptySeq
  <2> QED
    BY <1>8, <2>1, <2>2 DEF w
<1>10. CASE Len(w) # 0
  <2>1. /\ off + 1 \in Int /\ off + Len(w) \in Int /\ off + 1 <= off + Len(w)
        /\ (off + Len(w)) - (off + 1) + 1 = Len(w)
        /\ off + 1 \in own
    BY <1>1, <1>2, <1>7, <1>10
  <2>2. PointsOf(k) = SubSeq(rendered, off + 1, off + Len(w))
    BY <1>7, <1>8, <2>1, Ends
  <2>3. \A i \in (off + 1) .. (off + Len(w)) : rendered[i] \in Pair
    <3>1. \A i \in own : i \in 1 .. Len(rendered)
      BY <1>3 DEF own
    <3> QED
      BY <1>3, <1>7, <3>1, ElementOfSeq
  <2>4. /\ PointsOf(k) \in Seq(Pair) /\ Len(PointsOf(k)) = Len(w)
        /\ \A l \in 1 .. Len(w) : PointsOf(k)[l] = rendered[((off + 1) + l) - 1]
    BY <2>1, <2>2, <2>3, SubSeqProperties
  <2>5. ASSUME NEW l \in 1 .. Len(w)
        PROVE  PointsOf(k)[l] = w[l]
    <3>1. ((off + 1) + l) - 1 = off + l
      BY <1>1
    <3> QED
      BY <1>4, <2>4, <3>1
  <2> QED
    BY <1>2, <2>4, <2>5, SeqEqual DEF w
<1> QED
  BY <1>9, <1>10

-----------------------------------------------------------------------------
(* The metrics as they are written, and as the overrides leave them.         *)
WrittenMetrics ==
    [k \in DOMAIN source |->
        LET own == PerPiece[k]
        IN  [name |-> source[k].name, type |-> source[k].type,
             temporality |-> source[k].temporality, resource |-> source[k].resource,
             points |-> [l \in DOMAIN own |-> [attributes |-> own[l][2], start |-> None]]]]
Rewritten ==
    [k \in DOMAIN source |->
        Overridden(replaceHistogramsWithExponentialHistograms(WrittenMetrics[k]))]

LEMMA UnmarshaledIs ==
    ASSUME SourceInv, rendered = AsWritten
    PROVE  Unmarshaled = WrittenMetrics
BY PointsOfIs DEF Unmarshaled, WrittenMetrics

TypeAsked(k) ==
    IF config.exponential /\ source[k].type = "histogram" THEN "exponential" ELSE source[k].type
TemporalityAsked(k) ==
    IF TypeAsked(k) \in {"gauge", "summary"} THEN source[k].temporality
    ELSE IF config.temporality # "unspecified" THEN config.temporality
    ELSE IF TypeAsked(k) = "exponential" THEN "delta" ELSE source[k].temporality

(* A metric with points keeps its name, its resource and its series, and has *)
(* the type and temporality the scenario asks for.                           *)
LEMMA RewrittenIs ==
    ASSUME SourceInv, config \in Options, NEW k \in DOMAIN source
    PROVE  /\ DOMAIN Rewritten[k].points = 1 .. Len(PerPiece[k])
           /\ Len(PerPiece[k]) > 0 =>
                /\ Rewritten[k].name = source[k].name
                /\ Rewritten[k].resource = source[k].resource
                /\ Rewritten[k].type = TypeAsked(k)
                /\ Rewritten[k].temporality = TemporalityAsked(k)
                /\ \A l \in 1 .. Len(PerPiece[k]) :
                     /\ Rewritten[k].points[l].attributes = PerPiece[k][l][2]
                     /\ Rewritten[k].points[l].start = StartTime
<1> DEFINE own == PerPiece[k]
           points == [l \in DOMAIN own |-> [attributes |-> own[l][2], start |-> None]]
           m == [name |-> source[k].name, type |-> source[k].type,
                 temporality |-> source[k].temporality, resource |-> source[k].resource,
                 points |-> points]
           r == [name |-> source[k].name, type |-> TypeAsked(k),
                 temporality |-> source[k].temporality, resource |-> source[k].resource,
                 points |-> points]
<1>1. own \in Seq(Pair) /\ Len(own) \in Nat /\ DOMAIN own = 1 .. Len(own)
      /\ (Len(own) > 0 => \E j \in DOMAIN source[k].steps : source[k].steps[j].op = "point")
  BY PerPieceEntries
<1>2. /\ source[k].type \in Types /\ (Len(own) > 0 => source[k].type # "empty")
      /\ config.temporality \in Temporalities /\ config.exponential \in BOOLEAN
  BY <1>1, SourceAssumption, OptionsAssumption DEF SourceInv
<1>3. WrittenMetrics[k] = m
  BY DEF WrittenMetrics
<1> HIDE DEF own, points
<1>4. replaceHistogramsWithExponentialHistograms(m) = r
  BY <1>2 DEF replaceHistogramsWithExponentialHistograms, TypeAsked
<1>5. Rewritten[k] = Overridden(r)
  BY <1>3, <1>4 DEF Rewritten
<1> HIDE DEF m
<1>6. CASE Len(own) = 0
  <2>1. points = <<>>
    BY <1>1, <1>6 DEF points
  <2>2. Overridden(r) = r
    BY <2>1 DEF Overridden
  <2>3. DOMAIN Rewritten[k].points = 1 .. Len(own)
    BY <1>1, <1>5, <2>2 DEF points
  <2> QED
    BY <1>6, <2>3 DEF own
<1>7. CASE Len(own) # 0
  <2>1. points # <<>> /\ DOMAIN points = 1 .. Len(own)
    <3>1. DOMAIN points = 1 .. Len(own) /\ 1 \in DOMAIN points
      BY <1>1, <1>7 DEF points
    <3> QED
      BY <3>1
  <2> DEFINE override == config.temporality # "unspecified"
             ours == IF override /\ r.type \in {"sum", "histogram"} THEN config.temporality
                     ELSE IF r.type # "exponential" THEN r.temporality
                     ELSE IF config.temporality = "cumulative" THEN "cumulative" ELSE "delta"
             started == [l \in DOMAIN points |-> [points[l] EXCEPT !.start = StartTime]]
  <2>2. Overridden(r) = [name |-> source[k].name, type |-> TypeAsked(k),
                         temporality |-> ours, resource |-> source[k].resource,
                         points |-> started]
    BY <2>1 DEF Overridden
  <2>3. ours = TemporalityAsked(k)
    <3>1. TypeAsked(k) \in {"gauge", "sum", "histogram", "exponential", "summary"}
      BY <1>1, <1>2, <1>7 DEF TypeAsked, Types
    <3>2. r.type = TypeAsked(k) /\ r.temporality = source[k].temporality
      OBVIOUS
    <3> QED
      BY <1>2, <3>1, <3>2 DEF TemporalityAsked, Temporalities
  <2>4. \A l \in 1 .. Len(own) : /\ started[l].attributes = own[l][2]
                                 /\ started[l].start = StartTime
    BY <1>1, <2>1 DEF points
  <2>5. DOMAIN started = 1 .. Len(own)
    BY <2>1
  <2> HIDE DEF started, ours, r
  <2> QED
    BY <1>5, <2>2, <2>3, <2>4, <2>5 DEF own
<1> QED
  BY <1>1, <1>6, <1>7

Index == Int \X Int

(* The data points of a template are visited in the order they are written.  *)
LEMMA VisitedIs ==
    ASSUME SourceInv, config \in Options
    PROVE  /\ Len(Visited(Rewritten)) = Len(AsWritten)
           /\ DOMAIN Visited(Rewritten) = 1 .. Len(AsWritten)
           /\ \A i \in 1 .. Len(AsWritten) :
                \E k \in DOMAIN source : \E l \in 1 .. Len(PerPiece[k]) :
                   Visited(Rewritten)[i] = <<k, l>> /\ AsWritten[i] = PerPiece[k][l]
<1> DEFINE V == [k \in DOMAIN Rewritten |-> [l \in DOMAIN Rewritten[k].points |-> <<k, l>>]]
           whole == Prefix(V, Len(V))
<1>1. /\ Len(source) \in Nat /\ DOMAIN source = 1 .. Len(source)
      /\ PerPiece \in Seq(Seq(Pair)) /\ Len(PerPiece) = Len(source)
  BY SourceIs, PerPieceIs
<1>2. DOMAIN Rewritten = 1 .. Len(source)
  BY <1>1 DEF Rewritten
<1>3. V = [k \in 1 .. Len(source) |-> [l \in 1 .. Len(PerPiece[k]) |-> <<k, l>>]]
  <2>1. \A k \in 1 .. Len(source) : DOMAIN Rewritten[k].points = 1 .. Len(PerPiece[k])
    BY <1>1, RewrittenIs
  <2> QED
    BY <1>2, <2>1
<1>4. Visited(Rewritten) = FlattenSeq(V)
  BY DEF Visited
<1> HIDE DEF V
<1>5. ASSUME NEW k \in 1 .. Len(source)
      PROVE  /\ V[k] \in Seq(Index) /\ Len(V[k]) = Len(PerPiece[k])
             /\ \A l \in 1 .. Len(PerPiece[k]) : V[k][l] = <<k, l>>
  <2>1. V[k] = [l \in 1 .. Len(PerPiece[k]) |-> <<k, l>>]
    BY <1>3
  <2>2. Len(PerPiece[k]) \in Nat
    BY <1>1, PerPieceEntries
  <2>3. V[k] \in [1 .. Len(PerPiece[k]) -> Index]
    BY <1>1, <2>1 DEF Index
  <2> QED
    BY <2>1, <2>2, <2>3
<1>6. V \in Seq(Seq(Index)) /\ Len(V) = Len(source)
  <2>1. V \in [1 .. Len(source) -> Seq(Index)] /\ Len(source) \in Nat
    BY <1>1, <1>3, <1>5
  <2> QED
    BY <2>1
<1>7. Visited(Rewritten) = whole
  BY <1>4, <1>6, FlattenIsPrefix
<1>8. ASSUME NEW k \in 0 .. Len(V)
      PROVE  Len(Prefix(V, k)) = Len(Prefix(PerPiece, k))
  <2>1. Len(V) = Len(PerPiece) /\ \A j \in 1 .. Len(V) : Len(V[j]) = Len(PerPiece[j])
    BY <1>1, <1>5, <1>6
  <2>2. PerPiece \in Seq(Seq(Pair)) /\ V \in Seq(Seq(Index)) /\ k \in 0 .. Len(V)
    BY <1>1, <1>6
  <2> QED
    BY <2>1, <2>2, SameShape
<1>9. AsWritten = Prefix(PerPiece, Len(source))
  BY AsWrittenIsPrefix
<1>10. Len(V) \in 0 .. Len(V)
  BY <1>1, <1>6
<1>11. whole \in Seq(Index) /\ Len(whole) = Len(AsWritten)
  BY <1>6, <1>8, <1>9, <1>10, PrefixIsSeq
<1>12. ASSUME NEW i \in 1 .. Len(AsWritten)
       PROVE  \E k \in DOMAIN source : \E l \in 1 .. Len(PerPiece[k]) :
                 whole[i] = <<k, l>> /\ AsWritten[i] = PerPiece[k][l]
  <2>1. PICK k \in DOMAIN source : \E l \in 1 .. Len(PerPiece[k]) :
           i = Len(Prefix(PerPiece, k - 1)) + l /\ AsWritten[i] = PerPiece[k][l]
    BY WrittenBy
  <2>2. PICK l \in 1 .. Len(PerPiece[k]) :
           i = Len(Prefix(PerPiece, k - 1)) + l /\ AsWritten[i] = PerPiece[k][l]
    BY <2>1
  <2>3. k \in 1 .. Len(V) /\ k - 1 \in 0 .. Len(V) /\ l \in 1 .. Len(V[k])
    BY <1>1, <1>5, <1>6
  <2>4. whole[Len(Prefix(V, k - 1)) + l] = V[k][l]
    BY <1>6, <2>3, EntryAt
  <2>5. i = Len(Prefix(V, k - 1)) + l
    BY <1>8, <2>2, <2>3
  <2>6. whole[i] = <<k, l>>
    BY <1>1, <1>5, <2>4, <2>5
  <2> QED
    BY <2>2, <2>6
<1> HIDE DEF whole
<1> QED
  BY <1>7, <1>11, <1>12, LenProperties

(* The template and the resources from stage to stage; what was emitted is   *)
(* what is written.                                                          *)
TemplateInv ==
    /\ SourceInv /\ config \in Options
    /\ stage = "override" => template = WrittenMetrics
    /\ stage \in {"resources", "plans", "running"} => template = Rewritten
    /\ stage \in {"plans", "running"} => instances = Resources
    /\ stage \in {"render", "failed", "override", "resources", "plans", "running"}
    /\ SeriesPreserved /\ OverridesHonoured

LEMMA TemplateInit == ASSUME Init PROVE TemplateInv
BY DEF Init, RenderingInit, TemplateInv, SourceInv, SeriesPreserved, OverridesHonoured

LEMMA EmissionFaithful ==
    ASSUME TemplateInv, NEW id \in DOMAIN instances, produceMetricsForInstance(id), SourceInv
    PROVE  SeriesPreserved' /\ OverridesHonoured'
<1> DEFINE visited == Visited(template)
           P(i) == emitted'.points[i]
           n == Len(AsWritten)
<1>1. stage = "running" /\ UNCHANGED <<source, config>>
  BY DEF produceMetricsForInstance, renderingVars
<1>2. template = Rewritten /\ instances = Resources /\ config \in Options
  BY <1>1 DEF TemplateInv
<1>3. /\ emitted'.instance = id /\ DOMAIN emitted'.points = DOMAIN visited
      /\ emitted'.points = [i \in DOMAIN visited |-> emitted'.points[i]]
      /\ \A i \in DOMAIN visited :
            /\ P(i).name = template[visited[i][1]].name
            /\ P(i).type = template[visited[i][1]].type
            /\ P(i).temporality = template[visited[i][1]].temporality
            /\ P(i).resource = overrideExistingAttributes(instances[id], template[visited[i][1]].resource)
            /\ P(i).attributes = template[visited[i][1]].points[visited[i][2]].attributes
            /\ P(i).start = template[visited[i][1]].points[visited[i][2]].start
  BY DEF produceMetricsForInstance
<1> HIDE DEF P
<1>4. n \in Nat /\ DOMAIN AsWritten = 1 .. n /\ DOMAIN visited = 1 .. n
  BY <1>2, AsWrittenIsPrefix, LenProperties, VisitedIs
<1>5. Len(emitted'.points) = n
  <2> DEFINE S == {emitted'.points[i] : i \in 1 .. n}
  <2>1. emitted'.points \in [1 .. n -> S]
    BY <1>3, <1>4
  <2> HIDE DEF S
  <2>2. emitted'.points \in Seq(S)
    BY <1>4, <2>1
  <2> QED
    BY <1>4, <2>1, <2>2, LenProperties
<1>6. AsWritten' = AsWritten
  BY <1>1 DEF AsWritten, Text
<1>7. \A r : overrideExistingAttributes(instances[id], r)
               = [key \in DOMAIN r |-> IF key \in Injected THEN <<key, id>> ELSE r[key]]
  <2>1. instances[id] = [key \in Injected |-> <<key, id>>]
    BY <1>2 DEF Resources
  <2> QED
    BY <2>1 DEF overrideExistingAttributes
<1>8. ASSUME NEW i \in 1 .. n
      PROVE  LET k == AsWritten[i][1]
             IN  /\ P(i).name = source[k].name /\ P(i).attributes = AsWritten[i][2]
                 /\ P(i).start = StartTime
                 /\ P(i).resource = [key \in DOMAIN source[k].resource |->
                        IF key \in Injected THEN <<key, id>> ELSE source[k].resource[key]]
                 /\ P(i).type = TypeAsked(k) /\ P(i).temporality = TemporalityAsked(k)
  <2>1. PICK k \in DOMAIN source : \E l \in 1 .. Len(PerPiece[k]) :
           visited[i] = <<k, l>> /\ AsWritten[i] = PerPiece[k][l]
    BY <1>2, VisitedIs
  <2>2. PICK l \in 1 .. Len(PerPiece[k]) : visited[i] = <<k, l>> /\ AsWritten[i] = PerPiece[k][l]
    BY <2>1
  <2>3. Len(PerPiece[k]) > 0 /\ AsWritten[i][1] = k /\ AsWritten[i][2] = PerPiece[k][l][2]
    BY <2>2, PerPieceEntries
  <2>4. visited[i][1] = k /\ visited[i][2] = l /\ i \in DOMAIN visited
    BY <1>4, <2>2
  <2>5. /\ P(i).name = template[k].name /\ P(i).type = template[k].type
        /\ P(i).temporality = template[k].temporality
        /\ P(i).resource = overrideExistingAttributes(instances[id], template[k].resource)
        /\ P(i).attributes = template[k].points[l].attributes
        /\ P(i).start = template[k].points[l].start
    BY <1>3, <2>4
  <2> HIDE DEF visited
  <2>6. /\ template[k].name = source[k].name /\ template[k].resource = source[k].resource
        /\ template[k].type = TypeAsked(k) /\ template[k].temporality = TemporalityAsked(k)
        /\ template[k].points[l].attributes = PerPiece[k][l][2]
        /\ template[k].points[l].start = StartTime
    BY <1>2, <2>3, RewrittenIs
  <2> QED
    BY <1>7, <2>3, <2>5, <2>6
<1> HIDE DEF visited
<1>9. SeriesPreserved'
  BY <1>1, <1>3, <1>4, <1>5, <1>6, <1>8 DEF SeriesPreserved, P
<1>10. OverridesHonoured'
  <2>1. ASSUME NEW i \in DOMAIN emitted'.points
        PROVE  /\ emitted'.points[i].type = TypeAsked(AsWritten[i][1])
               /\ emitted'.points[i].temporality = TemporalityAsked(AsWritten[i][1])
    BY <1>3, <1>4, <1>8 DEF P
  <2> QED
    BY <1>1, <1>6, <2>1 DEF OverridesHonoured, TypeAsked, TemporalityAsked
<1> QED
  BY <1>9, <1>10

LEMMA MetricsKept ==
    ASSUME UNCHANGED <<source, config>>
    PROVE  /\ WrittenMetrics' = WrittenMetrics /\ Rewritten' = Rewritten
           /\ SourceInv' = SourceInv
           /\ emitted' = emitted => /\ SeriesPreserved' = SeriesPreserved
                                    /\ OverridesHonoured' = OverridesHonoured
<1>1. WrittenMetrics' = WrittenMetrics
  BY PerStepKept DEF WrittenMetrics
<1>2. Rewritten' = Rewritten
  BY <1>1 DEF Rewritten, Overridden, replaceHistogramsWithExponentialHistograms
<1>3. SourceInv' = SourceInv
  BY DEF SourceInv
<1>4. AsWritten' = AsWritten
  BY DEF AsWritten, Text
<1>5. ASSUME emitted' = emitted
      PROVE  SeriesPreserved' = SeriesPreserved
  BY <1>4, <1>5 DEF SeriesPreserved
<1>6. ASSUME emitted' = emitted
      PROVE  OverridesHonoured' = OverridesHonoured
  BY <1>4, <1>6 DEF OverridesHonoured
<1> QED
  BY <1>1, <1>2, <1>3, <1>5, <1>6

LEMMA TemplateStep == ASSUME TemplateInv, RenderedInv, [Next]_vars PROVE TemplateInv'
<1>0. UNCHANGED <<source, config>>
  BY SourceKept
<1>s. SourceInv' /\ config' \in Options
  BY <1>0, MetricsKept DEF TemplateInv
<1>1. CASE ExtractGenerationHints
  <2>1. UNCHANGED <<emitted, instances>> /\ stage = "render"
    BY <1>1 DEF ExtractGenerationHints
  <2>2. CASE stage' = "failed"
    BY <1>0, <1>s, <2>1, <2>2, MetricsKept DEF TemplateInv
  <2>3. CASE result = "metrics" /\ stage' = "override" /\ template' = Unmarshaled
    <3>1. template' = WrittenMetrics
      BY <2>3, RenderedComplete, UnmarshaledIs DEF TemplateInv
    <3> QED
      BY <1>0, <1>s, <2>1, <2>3, <3>1, MetricsKept DEF TemplateInv
  <2> QED
    BY <1>1, <2>2, <2>3 DEF ExtractGenerationHints
<1>2. CASE Override
  <2>1. UNCHANGED <<emitted, instances>> /\ stage' = "resources" /\ template = WrittenMetrics
    BY <1>2 DEF Override, TemplateInv
  <2>2. template' = Rewritten
    BY <1>2, <2>1 DEF Override, Rewritten, WrittenMetrics
  <2> QED
    BY <1>0, <1>s, <2>1, <2>2, MetricsKept DEF TemplateInv
<1>3. CASE GetResources
  <2>1. UNCHANGED <<emitted, template>> /\ stage = "resources"
        /\ (stage' = "failed" \/ (stage' = "plans" /\ instances' = Resources))
    BY <1>3 DEF GetResources
  <2> QED
    BY <1>0, <1>s, <2>1, MetricsKept DEF TemplateInv, Resources
<1>4. CASE PlanSeries
  <2>1. UNCHANGED <<emitted, template, instances>> /\ stage = "plans" /\ stage' = "running"
    BY <1>4 DEF PlanSeries
  <2> QED
    BY <1>0, <1>s, <2>1, MetricsKept DEF TemplateInv, Resources
<1>5. ASSUME NEW id \in DOMAIN instances, produceMetricsForInstance(id)
      PROVE  TemplateInv'
  <2>1. UNCHANGED <<stage, template, instances>>
    BY <1>5 DEF produceMetricsForInstance
  <2>2. SeriesPreserved' /\ OverridesHonoured'
    BY <1>5, EmissionFaithful DEF TemplateInv
  <2> QED
    BY <1>0, <1>s, <2>1, <2>2, MetricsKept DEF TemplateInv, Resources
<1>6. CASE NextInterval \/ UNCHANGED scenarioVars
  <2>1. UNCHANGED <<stage, template, instances, emitted>>
    BY <1>6 DEF NextInterval, scenarioVars
  <2> QED
    BY <1>0, <1>s, <2>1, MetricsKept DEF TemplateInv, Resources
<1> QED
  BY <1>1, <1>2, <1>3, <1>4, <1>5, <1>6 DEF Next, Render, Ended, vars

LEMMA TemplateCorrect == Spec => []TemplateInv
<1>1. Spec => []RenderedInv
  BY RenderedInit, RenderedStep, PTL DEF Spec
<1> QED
  BY <1>1, TemplateInit, TemplateStep, PTL DEF Spec

(* From the text of the template to the consumer no series is lost, doubled, *)
(* reordered or mixed with another, for every template, override, number of  *)
(* instances and order of emissions (receiver.go:127-132, 258-297, 396-398). *)
THEOREM SeriesIntact == Spec => []SeriesPreserved
<1>1. TemplateInv => SeriesPreserved
  BY DEF TemplateInv
<1> QED
  BY <1>1, TemplateCorrect, PTL

(* What is emitted has the type and the temporality the scenario asks for,   *)
(* for every template and every combination of overrides                     *)
(* (receiver.go:127-158).                                                    *)
THEOREM OverridesApplied == Spec => []OverridesHonoured
<1>1. TemplateInv => OverridesHonoured
  BY DEF TemplateInv
<1> QED
  BY <1>1, TemplateCorrect, PTL
=============================================================================
