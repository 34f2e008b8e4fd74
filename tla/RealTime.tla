------------------------------ MODULE RealTime ------------------------------
(***************************************************************************)
(* Real-time mode (receiver.go 204-256): the generator goroutine, the       *)
(* ticker that paces it and the wall clock.  Generator interleaves the      *)
(* goroutines of an interval but has no clock; here an interval's           *)
(* production is one activity that takes time, as the consumer and the      *)
(* number of instances make it.  Time is counted in units from StartTime,   *)
(* the time the receiver was built; a goroutine that can run does so before *)
(* time passes.                                                             *)
(***************************************************************************)
EXTENDS Integers

CONSTANTS
    Interval,       \* units in one collection interval
    MaxDuration,    \* the longest an interval's production takes
    MaxStartDelay,  \* the longest from the construction to Start
    NumIntervals,   \* intervals in [StartTime, EndTime)
    ExitAfterEnd,   \* cfg.ExitAfterEnd
    ExitTimeout     \* cfg.ExitAfterEndTimeout

ASSUME IntervalAssumption == Interval \in Nat \ {0}
ASSUME DelaysAssumption ==
    /\ MaxDuration \in Nat /\ MaxStartDelay \in Nat /\ ExitTimeout \in Nat
    /\ NumIntervals \in Nat /\ ExitAfterEnd \in BOOLEAN

VARIABLES
    now,            \* the wall clock
    pc,             \* created, check, produce, pace, exiting, returned
    left,           \* time the production or the sleep still takes
    interval,       \* currentTime = StartTime + interval * Interval
    started,        \* when the production of this interval started
    tickerStart,    \* when the ticker was created
    nextTick,       \* when it fires next
    buffered,       \* ticks in ticker.C: 0 or 1
    dropped,        \* history: ticks that found the channel full
    slowest,        \* history: the longest production so far
    stopBy          \* when the production in progress at the cancellation of
                    \* the context is over, or NotCancelled

clockVars == <<now, pc, left, interval, started, tickerStart, nextTick, buffered, dropped,
               slowest, stopBy>>

NotCancelled == -1
Cancelled == stopBy # NotCancelled

ClockInit ==
    /\ now = 0 /\ pc = "created" /\ left = 0 /\ interval = 0 /\ started = 0
    /\ tickerStart = 0 /\ nextTick = 0 /\ buffered = 0 /\ dropped = 0
    /\ slowest = 0 /\ stopBy = NotCancelled

(* Mutant: the ticker starts one interval late.                             *)
Start_LateTicker ==
    /\ pc = "created"
    /\ pc' = "check"
    /\ tickerStart' = now
    /\ nextTick' = now + 2 * Interval
    /\ UNCHANGED <<now, left, interval, started, buffered, dropped, slowest, stopBy>>

(* Start creates the ticker.                                                *)
Start ==
    /\ pc = "created"
    /\ pc' = "check"
    /\ tickerStart' = now
    /\ nextTick' = now + Interval
    /\ UNCHANGED <<now, left, interval, started, buffered, dropped, slowest, stopBy>>

(* The head of the loop: EndTime, then ctx.Err(), then a new production.    *)
LoopCheck ==
    /\ pc = "check"
    /\ \/ /\ interval < NumIntervals /\ ~Cancelled
          /\ pc' = "produce"
          /\ started' = now
          /\ left' \in 0 .. MaxDuration
          /\ slowest' = IF left' > slowest THEN left' ELSE slowest
       \/ /\ interval < NumIntervals /\ Cancelled
          /\ pc' = "returned"
          /\ UNCHANGED <<started, left, slowest>>
       \/ /\ interval >= NumIntervals
          /\ pc' = IF ExitAfterEnd THEN "exiting" ELSE "returned"
          /\ left' = IF ExitAfterEnd THEN ExitTimeout ELSE 0
          /\ UNCHANGED <<started, slowest>>
    /\ UNCHANGED <<now, interval, tickerStart, nextTick, buffered, dropped, stopBy>>

(* produceMetrics and applyChurn are over; neither looks at the context.    *)
Produced ==
    /\ pc = "produce" /\ left = 0
    /\ pc' = "pace"
    /\ UNCHANGED <<now, left, interval, started, tickerStart, nextTick, buffered,
                   dropped, slowest, stopBy>>

(* Mutant: the tick stays in the channel.                                   *)
SelectTick_Kept ==
    /\ pc = "pace" /\ buffered > 0
    /\ interval' = interval + 1
    /\ pc' = "check"
    /\ UNCHANGED <<now, left, started, tickerStart, nextTick, buffered, dropped,
                   slowest, stopBy>>

(* The select: a tick, or the end of the context, either when both are ready. *)
SelectTick ==
    /\ pc = "pace" /\ buffered > 0
    /\ buffered' = buffered - 1
    /\ interval' = interval + 1
    /\ pc' = "check"
    /\ UNCHANGED <<now, left, started, tickerStart, nextTick, dropped, slowest, stopBy>>

SelectDone ==
    /\ pc = "pace" /\ Cancelled
    /\ pc' = "returned"
    /\ UNCHANGED <<now, left, interval, started, tickerStart, nextTick, buffered,
                   dropped, slowest, stopBy>>

(* time.Sleep is over; the fatal status is reported.                        *)
ReportExit ==
    /\ pc = "exiting" /\ left = 0
    /\ pc' = "returned"
    /\ UNCHANGED <<now, left, interval, started, tickerStart, nextTick, buffered,
                   dropped, slowest, stopBy>>

(* Shutdown, or the collector, cancels the context of a started receiver.   *)
Cancel ==
    /\ pc # "created" /\ ~Cancelled
    /\ stopBy' = IF pc = "produce" THEN now + left ELSE now
    /\ UNCHANGED <<now, pc, left, interval, started, tickerStart, nextTick,
                   buffered, dropped, slowest>>

(* What time passes for: the construction is not over, the production or    *)
(* the sleep takes it, or the select waits.                                 *)
Waiting_TickOnly ==     \* mutant: the cancellation does not end the select
    \/ pc = "created" /\ now < MaxStartDelay
    \/ pc \in {"produce", "exiting"} /\ left > 0
    \/ pc = "pace" /\ buffered = 0
Waiting ==
    \/ pc = "created" /\ now < MaxStartDelay
    \/ pc \in {"produce", "exiting"} /\ left > 0
    \/ pc = "pace" /\ buffered = 0 /\ ~Cancelled

(* One unit of time; the ticker fires when it is due and drops the tick if  *)
(* the last one is still in its channel.                                    *)
Elapse ==
    /\ Waiting
    /\ now' = now + 1
    /\ left' = IF left > 0 THEN left - 1 ELSE 0
    /\ IF pc # "created" /\ now + 1 = nextTick
       THEN /\ nextTick' = nextTick + Interval
            /\ buffered' = 1
            /\ dropped' = dropped + buffered
       ELSE UNCHANGED <<nextTick, buffered, dropped>>
    /\ UNCHANGED <<pc, interval, started, tickerStart, slowest, stopBy>>

ClockEnded == pc = "returned" /\ UNCHANGED clockVars

ClockNext ==
    \/ Start \/ LoopCheck \/ Produced \/ SelectTick \/ SelectDone
    \/ ReportExit \/ Cancel \/ Elapse \/ ClockEnded

ClockSpec == ClockInit /\ [][ClockNext]_clockVars

-----------------------------------------------------------------------------
(* Properties                                                               *)

(* Every variable stays in its range.                                       *)
TypeOK ==
    /\ now \in Nat
    /\ pc \in {"created", "check", "produce", "pace", "exiting", "returned"}
    /\ left \in Nat /\ interval \in Nat /\ started \in Nat
    /\ tickerStart \in Nat /\ nextTick \in Nat
    /\ buffered \in {0, 1} /\ dropped \in Nat
    /\ slowest \in Nat /\ stopBy \in Nat \cup {NotCancelled}

(* The simulated time never runs ahead of the wall clock: an interval is    *)
(* produced only when it has begun, counted from the start of the receiver  *)
(* (README, real_time: "pace metric emission to the configured interval").  *)
NeverAhead == pc = "produce" => tickerStart + interval * Interval <= started

(* Where the intervals went that the simulated time is behind: one may wait *)
(* in the channel, every other one was dropped and is never caught up.      *)
TicksAccountedFor ==
    pc # "created" =>
        nextTick = tickerStart + (interval + buffered + dropped + 1) * Interval

(* What makes them inductive: nothing was counted before Start, and the     *)
(* ticker's next tick is in the future, at most one interval away.          *)
TickerInv ==
    /\ pc = "created" => interval = 0 /\ buffered = 0 /\ dropped = 0
    /\ pc # "created" => now < nextTick /\ nextTick <= now + Interval
    /\ pc = "produce" => started <= now

PacingInv == TypeOK /\ TicksAccountedFor /\ TickerInv /\ NeverAhead

(* While no production took longer than the interval, every one starts on   *)
(* time, at its timestamp plus what passed between the construction and     *)
(* Start: nothing drifts.                                                   *)
InSyncWhileFast ==
    pc = "produce" /\ slowest <= Interval =>
        started = tickerStart + interval * Interval

(* What makes it inductive: then no tick was dropped, and none has waited   *)
(* when the select takes it.                                                *)
SyncInv ==
    pc \in {"check", "produce", "pace"} /\ slowest <= Interval =>
        /\ dropped = 0
        /\ pc = "check" => now + Interval = nextTick /\ buffered = 0
        /\ pc = "produce" =>
             /\ started = tickerStart + interval * Interval
             /\ now + left <= started + Interval
        /\ pc = "pace" /\ buffered = 1 => now + Interval = nextTick

(* receiver_test.go:772-775: Shutdown unblocks the goroutine "immediately   *)
(* via context cancellation rather than waiting for the next ticker tick":  *)
(* after the cancellation only a production in progress takes time, and the *)
(* sleep before the exit, which nothing interrupts (receiver.go:246).       *)
StopsPromptly ==
    Cancelled /\ pc # "returned" =>
        now <= stopBy + IF pc = "exiting" THEN ExitTimeout ELSE 0

(* What makes it inductive: what is still to come of them.                  *)
StopInv ==
    /\ pc = "created" => ~Cancelled
    /\ pc = "exiting" => left <= ExitTimeout
    /\ pc \notin {"produce", "exiting"} => left = 0
    /\ Cancelled /\ pc # "returned" =>
         now + left <= stopBy + IF pc = "exiting" THEN ExitTimeout ELSE 0
=============================================================================
