----------------------------- MODULE Telemetry ------------------------------
(***************************************************************************)
(* Metrics on their way out: monitoring_manager stamps a point, aggregator *)
(* adds it to the window of its series, and a worker thread takes the      *)
(* window over from time to time and hands one line per series to the      *)
(* callback, which is influx_sender::send_line.                            *)
(*                                                                         *)
(* A series has a summed and a last field (a mean is a sum and a count);   *)
(* windows have no fixed length here, the worker sleeps as long as it      *)
(* likes.  A line handed to the sockets counts as sent: sendto reports     *)
(* what it cannot send, nobody retries.                                    *)
(***************************************************************************)
EXTENDS Integers, FiniteSetsExt, Functions

CONSTANT Series  \* measurements, with their tags

VARIABLES
    wpc,         \* where the worker is
    running,     \* aggregator::running
    emit_cb,     \* whether the callback has been set
    accum,       \* the window: a function on the series with points
    snapshot,    \* what the worker took over and has not emitted
    line,        \* series whose line is inside send_line, as a set
    sender,      \* influx_sender: "none", "up", "deleted", "null"
    slot,        \* slot_timestamp_ns
    crashed,     \* a deleted impl was used
    \* history, per series
    published,   \* sum of all points
    sent, dropped,
    newest,      \* value of the last point published
    emitted_ts,  \* timestamp of the last line
    mark,        \* published when the window was last taken over, and
    settled      \* when it was the time before

windows == <<accum, snapshot, line>>
tallies == <<published, sent, dropped, newest, emitted_ts, mark, settled>>
telemetryVars == <<wpc, running, emit_cb, windows, sender, slot, crashed, tallies>>

Zero == [s \in Series |-> 0]
Nothing == [s \in {} |-> 0]

TelemetryInit ==
    /\ wpc = "off" /\ running = FALSE /\ emit_cb = FALSE
    /\ accum = Nothing /\ snapshot = Nothing /\ line = {}
    /\ sender = "none" /\ slot = 0 /\ crashed = FALSE
    /\ published = Zero /\ sent = Zero /\ dropped = Zero /\ newest = Zero
    /\ emitted_ts = Zero /\ mark = Zero /\ settled = Zero
-----------------------------------------------------------------------------
(* called by the main thread: sender.init, ag.init, set_emit_callback *)
InitMonitoring ==
    /\ sender' = "up" /\ running' = TRUE /\ wpc' = "test"
    /\ UNCHANGED <<emit_cb, windows, slot, crashed, tallies>>

\* fault: the callback is lost
SetNoCallback ==
    /\ emit_cb' = FALSE
    /\ UNCHANGED <<wpc, running, windows, sender, slot, crashed, tallies>>
SetEmitCallback ==
    /\ emit_cb' = TRUE
    /\ UNCHANGED <<wpc, running, windows, sender, slot, crashed, tallies>>

\* the destructors, in the reverse order of the members: impl, then the worker
DeleteSender ==
    /\ sender' = IF sender = "none" THEN sender ELSE "deleted"
    /\ UNCHANGED <<wpc, running, emit_cb, windows, slot, crashed, tallies>>

ClearSender ==
    /\ sender' = IF sender = "none" THEN sender ELSE "null"
    /\ UNCHANGED <<wpc, running, emit_cb, windows, slot, crashed, tallies>>

StopWorker ==
    /\ running' = FALSE
    /\ UNCHANGED <<wpc, emit_cb, windows, sender, slot, crashed, tallies>>
-----------------------------------------------------------------------------
EmptyWindow == [sum |-> 0, last |-> 0, last_ts |-> 0, latest_ts |-> 0]

\* fault: an older value replaces the last one of the same time
MergeStrictly(a, value, last, ts) ==
    [sum |-> a.sum + value,
     last |-> IF ts > a.last_ts THEN last ELSE a.last,
     last_ts |-> IF ts > a.last_ts THEN ts ELSE a.last_ts,
     latest_ts |-> Max({a.latest_ts, ts})]
Merge(a, value, last, ts) ==
    [sum |-> a.sum + value,
     last |-> IF ts >= a.last_ts THEN last ELSE a.last,
     last_ts |-> IF ts >= a.last_ts THEN ts ELSE a.last_ts,
     latest_ts |-> Max({a.latest_ts, ts})]

\* the timestamp a point gets: the slot's, or else the wall clock's
Stamp(wall) == IF slot > 0 THEN slot ELSE wall

(* A point of series s, by whichever thread; wall is the system clock.     *)
Publish(s, value, last, wall) ==
    LET old == IF s \in DOMAIN accum THEN accum[s] ELSE EmptyWindow
        new == Merge(old, value, last, Stamp(wall))
    IN  /\ accum' = [x \in DOMAIN accum \union {s} |->
                        IF x = s THEN new ELSE accum[x]]
        /\ published' = [published EXCEPT ![s] = @ + value]
        /\ newest' = [newest EXCEPT ![s] = last]
        /\ UNCHANGED <<wpc, running, emit_cb, snapshot, line, sender, crashed,
                       sent, dropped, emitted_ts, mark, settled>>
-----------------------------------------------------------------------------
(* The worker.                                                             *)
WorkerTest ==
    /\ wpc = "test"
    /\ wpc' = IF running THEN "sleep" ELSE "done"
    /\ UNCHANGED <<running, emit_cb, windows, sender, slot, crashed, tallies>>

\* the end of the sleep: take the window over
SwapWindow ==
    /\ wpc = "sleep" /\ wpc' = "emit"
    /\ snapshot' = accum /\ accum' = Nothing
    /\ IF sender = "up" THEN mark' = published /\ settled' = mark
                        ELSE UNCHANGED <<mark, settled>>
    /\ UNCHANGED <<running, emit_cb, line, sender, slot, crashed,
                   published, sent, dropped, newest, emitted_ts>>

\* one series of the snapshot: up to the test of pimpl
Emit(s) ==
    /\ wpc = "emit" /\ s \in DOMAIN snapshot
    /\ IF emit_cb /\ sender # "null"
       THEN /\ line' = {s} /\ wpc' = "send"
            /\ UNCHANGED <<snapshot, dropped>>
       ELSE /\ snapshot' = Restrict(snapshot, DOMAIN snapshot \ {s})
            /\ dropped' = [dropped EXCEPT ![s] = @ + snapshot[s].sum]
            /\ UNCHANGED <<line, wpc>>
    /\ UNCHANGED <<running, emit_cb, accum, sender, slot, crashed,
                   published, sent, newest, emitted_ts, mark, settled>>

\* send_line past the test of pimpl, which may have been deleted since
SendLine(s) ==
    /\ wpc = "send" /\ s \in line
    /\ line' = {} /\ wpc' = "emit"
    /\ snapshot' = Restrict(snapshot, DOMAIN snapshot \ {s})
    /\ IF sender = "up"
       THEN /\ sent' = [sent EXCEPT ![s] = @ + snapshot[s].sum]
            /\ emitted_ts' = [emitted_ts EXCEPT ![s] = snapshot[s].latest_ts]
            /\ UNCHANGED <<dropped, crashed>>
       ELSE /\ dropped' = [dropped EXCEPT ![s] = @ + snapshot[s].sum]
            /\ crashed' \in BOOLEAN
            /\ UNCHANGED <<sent, emitted_ts>>
    /\ UNCHANGED <<running, emit_cb, accum, sender, slot, published, newest,
                   mark, settled>>

WindowEmitted ==
    /\ wpc = "emit" /\ snapshot = Nothing
    /\ wpc' = "test"
    /\ UNCHANGED <<running, emit_cb, windows, sender, slot, crashed, tallies>>

Worker ==
    \/ WorkerTest
    \/ SwapWindow
    \/ \E s \in Series : Emit(s) \/ SendLine(s)
    \/ WindowEmitted
=============================================================================
