------------------------------- MODULE Ticker -------------------------------
(***************************************************************************)
(* The timer that drives the emulator: a thread that calls func with the   *)
(* time since its start, sleeps, and leaves at the goal, or never.         *)
(*                                                                         *)
(* Time is an integer (microseconds in the code) and only moves forward: a *)
(* system_clock that is set back meanwhile is left out.  A timestamp is an *)
(* unsigned int: now \div Wrap is lost.  The goal is a float cast to int,  *)
(* which is undefined above IntMax; on x86 the cast gives the most         *)
(* negative int, elsewhere IntMax.                                         *)
(***************************************************************************)
EXTENDS Integers, FiniteSetsExt

CONSTANTS
    Wrap,        \* 2^32: where unsigned timestamps start again
    IntMax,      \* 2^31 - 1
    Milli,       \* 1000: simulated time of one tick in simulation mode
    Oversleep,   \* by how much sleep_for may be late
    MaxTicks     \* bound: ticks of a run that has no goal

ASSUME TickerAssumption ==
    /\ Wrap \in Nat \ {0} /\ IntMax \in Nat /\ Milli \in Nat \ {0}
    /\ Oversleep \subseteq Nat /\ MaxTicks \in Nat

VARIABLES
    period, goal, do_wait,
    now,          \* the clock, from init_t on
    tpc,          \* where the ticker thread is
    count, current_ts, previous_ts,
    run, finished

setup == <<period, goal, do_wait>>
clockwork == <<count, current_ts, previous_ts, run, finished>>
tickerVars == <<setup, now, tpc, clockwork>>

Goals(duration) ==
    IF duration < 0 THEN {-1}
    ELSE IF duration <= IntMax THEN {duration} ELSE {-IntMax - 1, IntMax}

Infinite == goal < 0

\* fault: main() does not wait for a ticker thread that has not begun
TickerInitFinished ==
    /\ now = 0 /\ tpc = "off"
    /\ count = 0 /\ current_ts = 0 /\ previous_ts = 0
    /\ run = FALSE /\ finished = TRUE
TickerInit ==
    /\ now = 0 /\ tpc = "off"
    /\ count = 0 /\ current_ts = 0 /\ previous_ts = 0
    /\ run = FALSE /\ finished = FALSE

CurrentTs(t) == t % Wrap

(* called by the main thread *)
TimerStart ==
    /\ run' = TRUE /\ tpc' = "entry"
    /\ UNCHANGED <<setup, now, count, current_ts, previous_ts, finished>>

\* what func is called with
Timestamp == IF do_wait THEN CurrentTs(now) ELSE (count * Milli) % Wrap
-----------------------------------------------------------------------------
(* The ticker thread, around the call of func.                             *)
Enter ==
    /\ tpc = "entry"
    /\ finished' = FALSE /\ tpc' = "test"
    /\ UNCHANGED <<setup, now, count, current_ts, previous_ts, run>>

\* fault: the goal is one tick early
GoesOnShort == run /\ (Infinite \/ previous_ts + Milli < goal)
GoesOn == run /\ (Infinite \/ previous_ts < goal)

\* func is about to be called
BeginTick ==
    /\ tpc = "test" /\ GoesOn
    /\ Infinite => count < MaxTicks
    /\ current_ts' = Timestamp
    /\ tpc' = "mac"
    /\ UNCHANGED <<setup, now, count, previous_ts, run, finished>>

\* fault: the tick that has just run is waited for
WaitForLast == Max({0, period * count - CurrentTs(now)})
WaitFinite == Max({0, period * (count + 1) - CurrentTs(now)})

WaitInfinite ==
    LET diff == period - ((current_ts - previous_ts) % Wrap)
        sign == IF diff > 0 THEN 1 ELSE -1
    IN  Max({0, period - sign * diff - ((CurrentTs(now) - current_ts) % Wrap)})

\* func has returned
EndTick ==
    /\ tpc = "sleep"
    /\ previous_ts' = current_ts
    /\ count' = count + 1
    /\ tpc' = "test"
    /\ IF do_wait
       THEN LET wait == IF Infinite THEN WaitInfinite ELSE WaitFinite
            IN  \E late \in IF wait = 0 THEN {0} ELSE Oversleep :
                   now' = now + wait + late
       ELSE now' = now
    /\ UNCHANGED <<setup, current_ts, run, finished>>

FinishTicker ==
    /\ tpc = "test" /\ ~GoesOn
    /\ finished' = TRUE /\ tpc' = "done"
    /\ UNCHANGED <<setup, now, count, current_ts, previous_ts, run>>
=============================================================================
