----------------------------- MODULE Rendering -----------------------------
(***************************************************************************)
(* RenderMetricsTemplate (metricstmpl/metricstmpl.go): the files of a       *)
(* template are tried in the order of their extensions, and the first that  *)
(* parses is executed.  A call of `loop from to` starts a goroutine that    *)
(* sends the values on an unbuffered channel and closes it.                 *)
(*                                                                          *)
(* A template is a sequence of pieces, one per metric, each with the steps  *)
(* the renderer takes in it, its ranges unrolled:                           *)
(*   loop   calls `loop from to`; the place <<piece, step>> names the call  *)
(*   next   a range over `loop` takes its next value, or goes on `after`    *)
(*   end    a range over `loop` takes no value as the channel is closed     *)
(*   point  a data point, its attributes the last values of some loops      *)
(* A loop may be called in the turns of another, go on over several pieces, *)
(* be left by a {{break}} (no next or end follows), or not be ranged over.  *)
(***************************************************************************)
EXTENDS Integers, SequencesExt

CONSTANT
    Inputs      \* [files, source]: what is found per extension, the pieces

Extensions == <<".json", ".yaml", ".yml">>

(* A file may be missing, not parse, fail during its execution, render to   *)
(* text that is not metrics, or be good.                                    *)
Content == {"missing", "unparsable", "failing", "garbled", "good"}

Places(src) == UNION {{k} \X DOMAIN src[k].steps : k \in DOMAIN src}
Step(src, p) == src[p[1]].steps[p[2]]
Calls(src) == {p \in Places(src) : Step(src, p).op = "loop"}
Before(p, q) == p[1] < q[1] \/ (p[1] = q[1] /\ p[2] < q[2])

(* The turns of loop g before a place, and the value of the next one.       *)
TurnsBefore(src, g, here) ==
    {p \in Places(src) : Step(src, p).op = "next" /\ Step(src, p).loop = g /\ Before(p, here)}
NextValue(src, g, here) == Step(src, g).from + Cardinality(TurnsBefore(src, g, here))

(* A range ends when all values were taken, and a point uses values that    *)
(* were.                                                                    *)
WellFormed(src, p) ==
    LET s == Step(src, p)
        Called(g) == g \in Calls(src) /\ Before(g, p)
    IN  \/ s.op = "loop" /\ s.from \in Int /\ s.to \in Int
        \/ /\ s.op = "next" /\ Called(s.loop) /\ NextValue(src, s.loop, p) <= Step(src, s.loop).to
           /\ s.after \in (Nat \ {0}) \X (Nat \ {0}) /\ Before(p, s.after)
        \/ s.op = "end" /\ Called(s.loop) /\ NextValue(src, s.loop, p) > Step(src, s.loop).to
        \/ /\ s.op = "point" /\ s.values \in Seq(Calls(src))
           /\ \A n \in DOMAIN s.values : TurnsBefore(src, s.values[n], p) # {}

ASSUME InputsAssumption ==
    \A in \in Inputs :
        /\ in.files \in [DOMAIN Extensions -> Content]
        /\ DOMAIN in.source = 1 .. Len(in.source) /\ Len(in.source) \in Nat
        /\ \A k \in DOMAIN in.source : LET steps == in.source[k].steps
                                       IN  DOMAIN steps = 1 .. Len(steps) /\ Len(steps) \in Nat
        /\ \A p \in Places(in.source) : WellFormed(in.source, p)

VARIABLES
    files, source,  \* the input
    extension,      \* index of the extension that is tried
    piece, step,    \* the place of the renderer, piece 0 before the execution
    channel,        \* per call of loop "none", "open" or "closed"
    sends,          \* per call of loop the value its goroutine sends next
    rendered,       \* the data points written so far, <<piece, attributes>>
    result          \* "pending", "metrics", "error" or "not found"

renderingVars == <<files, source, extension, piece, step, channel, sends, rendered, result>>
input == <<files, source>>

RenderingInit ==
    /\ \E in \in Inputs : files = in.files /\ source = in.source
    /\ extension = 1 /\ piece = 0 /\ step = 1
    /\ channel = [g \in Calls(source) |-> "none"]
    /\ sends = [g \in Calls(source) |-> Step(source, g).from]
    /\ rendered = <<>>
    /\ result = "pending"

Found == extension \in DOMAIN Extensions

(* A file that is missing or does not parse: the next one, or an error.     *)
TryNextExtension ==
    /\ result = "pending" /\ piece = 0
    /\ Found => files[extension] \in {"missing", "unparsable"}
    /\ IF Found THEN extension' = extension + 1 /\ UNCHANGED result
       ELSE result' = "not found" /\ UNCHANGED extension
    /\ UNCHANGED <<input, piece, step, channel, sends, rendered>>

(* Mutant: a file that fails is passed over.                                *)
Execute_AnyExtension ==
    /\ result = "pending" /\ piece = 0
    /\ \E e \in DOMAIN Extensions :
          e >= extension /\ files[e] \notin {"missing", "unparsable"} /\ extension' = e
    /\ piece' = 1
    /\ UNCHANGED <<input, step, channel, sends, rendered, result>>
Execute ==
    /\ result = "pending" /\ piece = 0
    /\ Found /\ files[extension] \notin {"missing", "unparsable"}
    /\ piece' = 1
    /\ UNCHANGED <<input, extension, step, channel, sends, rendered, result>>

Here == <<piece, step>>
At(ops) == result = "pending" /\ Here \in Places(source) /\ Step(source, Here).op \in ops

(* The call of `loop` returns the channel, its goroutine runs.              *)
CallLoop ==
    /\ At({"loop"})
    /\ channel' = [channel EXCEPT ![Here] = "open"]
    /\ step' = step + 1
    /\ UNCHANGED <<input, extension, piece, sends, rendered, result>>

(* A send and a receive meet.                                               *)
HandOver ==
    /\ At({"next"})
    /\ LET g == Step(source, Here).loop IN
        /\ channel[g] = "open" /\ sends[g] <= Step(source, g).to
        /\ sends' = [sends EXCEPT ![g] = @ + 1]
    /\ step' = step + 1
    /\ UNCHANGED <<input, extension, piece, channel, rendered, result>>

(* The value of a loop in a body is the one it sent last.                   *)
WritePoint ==
    /\ At({"point"})
    /\ LET values == Step(source, Here).values IN
        rendered' = Append(rendered, <<piece, [n \in DOMAIN values |-> sends[values[n]] - 1]>>)
    /\ step' = step + 1
    /\ UNCHANGED <<input, extension, piece, channel, sends, result>>

(* The range sees the closed channel.                                       *)
EndRange ==
    /\ At({"next", "end"})
    /\ LET s == Step(source, Here) IN
        /\ channel[s.loop] = "closed"
        /\ piece' = IF s.op = "next" THEN s.after[1] ELSE piece
        /\ step' = IF s.op = "next" THEN s.after[2] ELSE step + 1
    /\ UNCHANGED <<input, extension, channel, sends, rendered, result>>

NextPiece ==
    /\ result = "pending" /\ piece \in DOMAIN source /\ step > Len(source[piece].steps)
    /\ piece' = piece + 1 /\ step' = 1
    /\ UNCHANGED <<input, extension, channel, sends, rendered, result>>

(* Mutant: the last value is not sent.                                      *)
CloseChannel_Early(g) ==
    /\ g \in Calls(source) /\ channel[g] = "open" /\ sends[g] >= Step(source, g).to
    /\ channel' = [channel EXCEPT ![g] = "closed"]
    /\ UNCHANGED <<input, extension, piece, step, sends, rendered, result>>
(* Mutant: an empty loop returns at once.                                   *)
CloseChannel_NotEmpty(g) ==
    /\ g \in Calls(source) /\ channel[g] = "open" /\ sends[g] > Step(source, g).to
    /\ Step(source, g).from <= Step(source, g).to
    /\ channel' = [channel EXCEPT ![g] = "closed"]
    /\ UNCHANGED <<input, extension, piece, step, sends, rendered, result>>
(* The goroutine of call g has sent all values.                             *)
CloseChannel(g) ==
    /\ g \in Calls(source) /\ channel[g] = "open" /\ sends[g] > Step(source, g).to
    /\ channel' = [channel EXCEPT ![g] = "closed"]
    /\ UNCHANGED <<input, extension, piece, step, sends, rendered, result>>

(* The execution fails, at any place.                                       *)
Abort ==
    /\ result = "pending" /\ piece > 0 /\ files[extension] = "failing"
    /\ result' = "error"
    /\ UNCHANGED <<input, extension, piece, step, channel, sends, rendered>>

Unmarshal ==
    /\ result = "pending" /\ piece > Len(source) /\ files[extension] # "failing"
    /\ result' = IF files[extension] = "good" THEN "metrics" ELSE "error"
    /\ UNCHANGED <<input, extension, piece, step, channel, sends, rendered>>

Renderer ==
    TryNextExtension \/ Execute \/ CallLoop \/ HandOver \/ WritePoint \/ EndRange
        \/ NextPiece \/ Abort \/ Unmarshal
LoopGoroutine(g) == CloseChannel(g)

-----------------------------------------------------------------------------
(* Properties                                                               *)

(* What the source says, place by place.                                    *)
Text(p) ==
    LET s == Step(source, p)
    IN  IF s.op # "point" THEN <<>>
        ELSE << <<p[1], [n \in DOMAIN s.values |-> NextValue(source, s.values[n], p) - 1]>> >>
AsWritten ==
    FlattenSeq([k \in DOMAIN source |->
        FlattenSeq([j \in DOMAIN source[k].steps |-> Text(<<k, j>>)])])

(* A rendering has every data point once, in order and with the values of   *)
(* its own turn of each loop, although they come through the channels of    *)
(* goroutines, nested or left early; one that fails has a part of them      *)
(* (metricstmpl.go:27-36).                                                  *)
RenderedAsWritten ==
    /\ rendered = SubSeq(AsWritten, 1, Len(rendered))
    /\ result = "metrics" => rendered = AsWritten

(* The outcome is that of the first file that parses: a later one neither   *)
(* hides an error nor is looked at (metricstmpl.go:39-71).                  *)
FirstParsableDecides ==
    LET parsable == {e \in DOMAIN Extensions : files[e] \notin {"missing", "unparsable"}}
        first == CHOOSE e \in parsable : \A d \in parsable : e <= d
    IN  IF parsable = {} THEN result \in {"pending", "not found"}
        ELSE \/ result = "pending"
             \/ result = "metrics" /\ files[first] = "good"
             \/ result = "error" /\ files[first] \in {"failing", "garbled"}

(* A loop that was called and of which not every value was taken.           *)
Unread(g) == Before(g, Here) /\ NextValue(source, g, Here) <= Step(source, g).to

(* In the end the goroutines left are those blocked on a value nobody takes: *)
(* of the loops left by a {{break}} or not ranged over, and, when the       *)
(* execution fails, of all loops around the place of the failure.  That of  *)
(* a loop whose values were all taken ends, with whatever loops around it   *)
(* (metricstmpl.go:27-36).                                                  *)
LoopsEnd == <>[](\A g \in Calls(source) : channel[g] = "open" <=> Unread(g))
=============================================================================
