------------------------------- MODULE Rounds -------------------------------
(***************************************************************************)
(* What the generator promises its consumer: the emissions come in rounds,  *)
(* one per collection interval; every emitter emits exactly once per round; *)
(* a round begins when the one before is complete; and the rounds end only  *)
(* before the first emission of a round or after its last one, however the  *)
(* end was caused.  (README: "For every interval, each scenario is          *)
(* simulated before moving to the next interval.")                          *)
(***************************************************************************)
EXTENDS Naturals

CONSTANTS Emitter, NumRounds

VARIABLES
    round,      \* rounds completed
    sent,       \* per emitter: emissions in this round
    over        \* no emission will follow

vars == <<round, sent, over>>

None == [e \in Emitter |-> 0]
All == [e \in Emitter |-> 1]

Init == round = 0 /\ sent = None /\ over = FALSE

Emit(e) ==
    /\ ~over /\ round < NumRounds
    /\ sent[e] = 0
    /\ sent' = [sent EXCEPT ![e] = 1]
    /\ UNCHANGED <<round, over>>

NextRound ==
    /\ ~over /\ round < NumRounds
    /\ sent = All
    /\ round' = round + 1
    /\ sent' = None
    /\ UNCHANGED over

Stop ==
    /\ ~over
    /\ sent \in {None, All}
    /\ over' = TRUE
    /\ UNCHANGED <<round, sent>>

Next == (\E e \in Emitter : Emit(e)) \/ NextRound \/ Stop

Spec == Init /\ [][Next]_vars
=============================================================================
