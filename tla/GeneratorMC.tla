---------------------------- MODULE GeneratorMC ----------------------------
(***************************************************************************)
(* Small instances of Generator.  A scenario run inline and one run by two  *)
(* workers, in both orders: the shared counter is only safe in the first.   *)
(***************************************************************************)
EXTENDS Generator, TLC

Off == NoChurn
Half == [replacements |-> 1, intervals |-> 2]
Whole == [replacements |-> 1, intervals |-> 1]

(* 1: two instances, inline.  2: four instances, two workers, churn of one  *)
(* instance every two intervals.                                            *)
InlineFirstScale == <<2, 4>>
InlineFirstConcurrency == <<0, 2>>
InlineFirstPoints == <<2, 3>>
InlineFirstRate == <<Whole, Half>>

(* The same with the concurrent scenario first.                             *)
InlineLastScale == <<2, 1>>
InlineLastConcurrency == <<2, 0>>
InlineLastPoints == <<1, 1>>
InlineLastRate == <<Off, Off>>

(* Two concurrent scenarios, one with idle workers, in real time.           *)
RealTimeScale == <<4, 2>>
RealTimeConcurrency == <<2, 1>>
RealTimePoints == <<1, 2>>
RealTimeRate == <<Half, Off>>
=============================================================================
