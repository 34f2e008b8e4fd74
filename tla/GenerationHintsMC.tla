------------------------- MODULE GenerationHintsMC -------------------------
(***************************************************************************)
(* All templates of at most three metrics of two names.                     *)
(***************************************************************************)
EXTENDS GenerationHints

Names == {"cpu", "memory"}
Classes == {"clock", "constant"}

Written == [name : Names, supported : BOOLEAN,
            hint : Classes \cup {Absent, NonString, BadClass}]

UpToThree == UNION {[1 .. n -> Written] : n \in 0 .. 3}
=============================================================================
