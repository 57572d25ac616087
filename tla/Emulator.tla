------------------------------ MODULE Emulator ------------------------------
(***************************************************************************)
(* The emulator as a process: main() builds the simulator, starts the      *)
(* ticker, waits for it and returns; the ticker thread runs                *)
(* simulator::step; the worker of the metrics runs until the static        *)
(* monitoring_manager is destroyed, after main().                          *)
(*                                                                         *)
(* `mpc' is where the main thread is.  A step has three parts, because the *)
(* worker may take the window over between them: the MAC's half, the UEs'  *)
(* half, and the logs.  What the halves do is the subject of the other     *)
(* modules; here each takes some time and the second publishes.            *)
(***************************************************************************)
EXTENDS Ticker, Telemetry

CONSTANTS
    Configs,        \* sets of periods, durations, ...
    InitT,          \* the system clock when the ticker starts
    Costs,          \* how long half a step may take
    Freq,           \* simulator::freq, 1000 steps
    ProgressPeriod, \* progress_log_period_s; 0 is off
    EmitRuntime     \* monitoring_config::emit_emulator_runtime

ASSUME EmulatorAssumption ==
    /\ InitT \in Nat \ {0} /\ Costs \subseteq Nat /\ Freq \in Nat \ {0}
    /\ ProgressPeriod \in Nat /\ EmitRuntime \in BOOLEAN
    /\ Configs \subseteq
         [period : Int, duration : Int, enabled : BOOLEAN]
    /\ Series = {"ue_queue", "emulator_runtime"}

VARIABLES
    mpc,
    enabled,       \* monitoring_config::enabled
    total_steps, step_c,
    next_progress  \* next_progress_log_sim_time_s

counters == <<total_steps, step_c, next_progress>>
vars == <<tickerVars, telemetryVars, mpc, enabled, counters>>

Init ==
    /\ \E c \in Configs :
         /\ period = c.period /\ do_wait = (c.period > 0)
         /\ goal \in Goals(c.duration)
         /\ enabled = c.enabled
    /\ TickerInit /\ TelemetryInit
    /\ mpc = "init"
    /\ total_steps = 0 /\ step_c = 0 /\ next_progress = ProgressPeriod
-----------------------------------------------------------------------------
(* The main thread.                                                        *)
MainGoes(from, to) == mpc = from /\ mpc' = to /\ UNCHANGED <<enabled, counters>>

Construct ==
    \/ /\ enabled /\ MainGoes("init", "callback")
       /\ InitMonitoring /\ UNCHANGED tickerVars
    \/ /\ ~enabled /\ MainGoes("init", "start")
       /\ UNCHANGED <<tickerVars, telemetryVars>>
    \/ /\ MainGoes("callback", "start")
       /\ SetEmitCallback /\ UNCHANGED tickerVars

Start ==
    /\ MainGoes("start", "wait")
    /\ TimerStart /\ UNCHANGED telemetryVars

\* wait_finished looks at the flag once a second
WaitFinished ==
    /\ mpc = "wait"
    /\ MainGoes("wait", IF finished THEN "destroy" ELSE "wait")
    /\ UNCHANGED <<tickerVars, telemetryVars>>

\* ~timer: run is still set after a run that ended by itself
DestroyTimer ==
    \/ /\ run /\ MainGoes("destroy", "join")
       /\ run' = FALSE
       /\ UNCHANGED <<setup, now, tpc, count, current_ts, previous_ts,
                      finished, telemetryVars>>
    \/ /\ tpc = "done" /\ MainGoes("join", "sender")
       /\ UNCHANGED <<tickerVars, telemetryVars>>

DestroyMonitoring ==
    /\ UNCHANGED tickerVars
    /\ \/ MainGoes("sender", "impl") /\ DeleteSender
       \/ MainGoes("impl", "worker") /\ ClearSender
       \/ MainGoes("worker", "joinWorker") /\ StopWorker
       \/ /\ wpc \in {"off", "done"} /\ MainGoes("joinWorker", "exit")
          /\ UNCHANGED telemetryVars

Main == Construct \/ Start \/ WaitFinished \/ DestroyTimer \/ DestroyMonitoring
-----------------------------------------------------------------------------
(* The ticker thread: simulator::step between BeginTick and EndTick.       *)
Spend == \E cost \in Costs : now' = now + cost

StepMac ==
    /\ tpc = "mac" /\ tpc' = "ue"
    /\ Spend
    /\ total_steps' = total_steps + 1
    /\ slot' = IF do_wait THEN InitT + current_ts ELSE 0
    /\ UNCHANGED <<setup, clockwork, wpc, running, emit_cb, windows, sender,
                   crashed, tallies, mpc, enabled, step_c, next_progress>>

\* some steps publish, by the log period of the UE
StepUe ==
    /\ tpc = "ue" /\ tpc' = "log"
    /\ Spend
    /\ UNCHANGED <<setup, clockwork, mpc, enabled, counters>>
    /\ \/ /\ enabled
          /\ Publish("ue_queue", 1, total_steps, InitT + now) /\ slot' = slot
       \/ UNCHANGED telemetryVars

\* fault: the step that fills the window is counted in the next one
LogLate ==
    IF step_c = Freq
    THEN step_c' = 0
         /\ IF enabled /\ EmitRuntime
            THEN Publish("emulator_runtime", step_c, total_steps, InitT + now)
            ELSE UNCHANGED <<wpc, running, emit_cb, windows, sender, crashed, tallies>>
    ELSE step_c' = step_c + 1
         /\ UNCHANGED <<wpc, running, emit_cb, windows, sender, crashed, tallies>>
HandleTimeLog ==
    IF step_c + 1 = Freq /\ enabled /\ EmitRuntime
    THEN step_c' = 0 /\ Publish("emulator_runtime", Freq, total_steps, InitT + now)
    ELSE /\ step_c' = IF step_c + 1 = Freq THEN 0 ELSE step_c + 1
         /\ UNCHANGED <<wpc, running, emit_cb, windows, sender, crashed, tallies>>

(* The first multiple beyond t, from next on.  The code counts in floating  *)
(* point seconds, with a tolerance of 1e-9; here times are whole.           *)
NextProgress(next, t) == next + ProgressPeriod * ((t - next) \div ProgressPeriod + 1)

StepLog ==
    /\ tpc = "log" /\ tpc' = "sleep"
    /\ slot' = 0
    /\ HandleTimeLog
    /\ next_progress' =
         IF ProgressPeriod > 0 /\ current_ts >= next_progress
         THEN NextProgress(next_progress, current_ts) ELSE next_progress
    /\ UNCHANGED <<setup, now, clockwork, mpc, enabled, total_steps>>

Ticking ==
    \/ /\ Enter \/ BeginTick \/ EndTick \/ FinishTicker
       /\ UNCHANGED <<telemetryVars, mpc, enabled, counters>>
    \/ StepMac \/ StepUe \/ StepLog

Working == Worker /\ UNCHANGED <<tickerVars, mpc, enabled, counters>>

Exited == mpc = "exit" \/ crashed

Terminated == Exited /\ UNCHANGED vars

Next ==
    \/ ~crashed /\ (Main \/ Ticking \/ Working)
    \/ Terminated

(* Every thread is scheduled, and what it calls returns.                   *)
Spec ==
    /\ Init /\ [][Next]_vars
    /\ WF_vars(~crashed /\ Main) /\ WF_vars(~crashed /\ Ticking)
    /\ WF_vars(~crashed /\ Working)
-----------------------------------------------------------------------------
MainStages == {"init", "callback", "start", "wait", "destroy", "join",
               "sender", "impl", "worker", "joinWorker", "exit"}
Windows ==
    UNION {[S -> [sum : Nat, last : Nat, last_ts : Nat, latest_ts : Nat]] :
              S \in SUBSET Series}
InStep == tpc \in {"mac", "ue", "log", "sleep"}

(* Types, and where the threads can be: the ticker is in a step only while *)
(* main() waits for it, so print_traffic and the destructors have the UEs  *)
(* and the MAC for themselves, and it is joined before they go.            *)
TypeOK ==
    /\ mpc \in MainStages
    /\ tpc \in {"off", "entry", "test", "done"} \/ InStep
    /\ wpc \in {"off", "test", "sleep", "emit", "send", "done"}
    /\ sender \in {"none", "up", "deleted", "null"} /\ line \subseteq DOMAIN snapshot
    /\ current_ts \in 0 .. Wrap - 1 /\ previous_ts \in 0 .. Wrap - 1
    /\ DOMAIN accum \subseteq Series /\ DOMAIN snapshot \subseteq Series
    /\ InStep => mpc = "wait"
    /\ mpc \in {"sender", "impl", "worker", "joinWorker", "exit"} => tpc = "done"
    /\ mpc = "exit" => wpc \in {"off", "done"}

Held(w, s) == IF s \in DOMAIN w THEN w[s].sum ELSE 0

(* Every point that was published is in exactly one place: the window, the *)
(* snapshot, a line that was sent, or a line that was dropped; and every   *)
(* step of the simulator is in the points of emulator_runtime, or counted  *)
(* in step_c, or under way.  (add_point and the worker share only mtx.)    *)
StepsAccounted ==
    /\ \A s \in Series :
         published[s] = sent[s] + dropped[s] + Held(accum, s) + Held(snapshot, s)
    /\ LET logged == total_steps - step_c - (IF tpc \in {"ue", "log"} THEN 1 ELSE 0)
       IN  IF enabled /\ EmitRuntime THEN logged = published["emulator_runtime"]
                                     ELSE logged % Freq = 0

(* Shutting down loses no more than the last two windows: what was         *)
(* published before the worker's last but one swap has been sent, although *)
(* the sender is destroyed before the worker is joined.                    *)
AtMostTwoWindowsLost == \A s \in Series : sent[s] >= settled[s]

(* The timer triggers once per period: tick number count does not come     *)
(* before its time.                                                        *)
TickPacing == do_wait /\ InStep => count * period <= now

(* In a run with a goal time is kept: ticks do not come early (they do in  *)
(* the others), no timestamp wraps, so that the value of a last field is   *)
(* the one published last and the lines of a series go forward; and the    *)
(* progress log has caught up when a step ends, however late it was.       *)
KeepsTime ==
    /\ ~Infinite =>
         /\ TickPacing
         /\ previous_ts <= current_ts
         /\ \A s \in DOMAIN accum :
              accum[s].last = newest[s] /\ accum[s].latest_ts >= emitted_ts[s]
    /\ tpc = "sleep" /\ ProgressPeriod > 0 => next_progress > current_ts

(* A run with a goal ends: all threads are joined and the process exits,   *)
(* and it does so only after the goal.                                     *)
RunEnds == ~Infinite => <>(Exited /\ previous_ts >= goal)
=============================================================================
