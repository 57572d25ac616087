--------------------------- MODULE EmulatorProofs ---------------------------
(* Theorems about Emulator, for every set of configurations and any costs:  *)
(* where the threads can be, that every point and every step is accounted   *)
(* for, that shutting down loses no more than two windows, and, provided    *)
(* that no step takes so long that an unsigned timestamp wraps, that a run  *)
(* with a goal keeps time.                                                  *)
EXTENDS Emulator, TLAPS

Point == [sum : Nat, last : Nat, last_ts : Nat, latest_ts : Nat]
AreWindow(w) == \E S \in SUBSET Series : w \in [S -> Point]

(* What TypeOK leaves out, and how the stages of the main thread and the    *)
(* two other threads go together.                                           *)
Types ==
    /\ TypeOK
    /\ period \in Int /\ goal \in Int /\ now \in Nat /\ count \in Nat
    /\ total_steps \in Nat /\ step_c \in 0 .. Freq - 1 /\ slot \in Nat
    /\ next_progress \in Nat
    /\ AreWindow(accum) /\ AreWindow(snapshot)
    /\ published \in [Series -> Nat] /\ sent \in [Series -> Nat]
    /\ dropped \in [Series -> Nat] /\ newest \in [Series -> Nat]
    /\ emitted_ts \in [Series -> Nat] /\ mark \in [Series -> Nat]
    /\ settled \in [Series -> Nat]

Stages ==
    /\ tpc = "off" <=> mpc \in {"init", "callback", "start"}
    /\ finished <=> tpc = "done"
    /\ mpc \in {"destroy", "join"} => tpc = "done"
    /\ mpc = "callback" => enabled
    /\ wpc = "off" <=> (~enabled \/ mpc = "init")
    /\ emit_cb <=> (enabled /\ mpc \notin {"init", "callback"})
    /\ wpc \notin {"emit", "send"} => DOMAIN snapshot = {}
    /\ wpc # "send" => line = {}
    /\ sender = "none" <=> wpc = "off"
    /\ mpc \notin {"impl", "worker", "joinWorker", "exit"} =>
         sender \in {"none", "up"}

(* Every point is somewhere, and no point comes before the callback.        *)
Balanced ==
    /\ \A s \in Series :
         published[s] = sent[s] + dropped[s] + Held(accum, s) + Held(snapshot, s)
    /\ ~emit_cb => DOMAIN accum = {} /\ DOMAIN snapshot = {}

(* While the sender is up nothing is dropped, and what was published before *)
(* the window was last taken over has been sent or is about to be.          *)
Settling ==
    /\ sender \in {"none", "up"} =>
         \A s \in Series : dropped[s] = 0 /\ mark[s] <= sent[s] + Held(snapshot, s)
    /\ AtMostTwoWindowsLost

(* Every step is in a point, in step_c, or under way.                       *)
Logged == total_steps - step_c - (IF tpc \in {"ue", "log"} THEN 1 ELSE 0)
StepsLogged ==
    IF enabled /\ EmitRuntime THEN Logged = published["emulator_runtime"]
                              ELSE \E k \in Nat : Logged = k * Freq

Inv == Types /\ Stages /\ Balanced /\ Settling /\ StepsLogged
-----------------------------------------------------------------------------
(* A step, a sleep and a period last less than what is left of an unsigned  *)
(* timestamp after the latest goal: 35 minutes in the code.                 *)
StepsFit(gap) ==
    /\ gap \in Nat /\ IntMax + gap < Wrap /\ Milli <= gap
    /\ \A l \in Oversleep \union {0} :
         /\ \A a, b \in Costs : a + b + l <= gap
         /\ \A c \in Configs : c.period + l <= gap

(* The clock of a run with a goal.  Between two ticks the next one is due   *)
(* no earlier than count periods from the start, and no later than a gap    *)
(* after the last.                                                          *)
OnTime(gap) ==
    /\ goal <= IntMax
    /\ \A l \in Oversleep \union {0} : period + l <= gap
    /\ tpc \in {"off", "entry"} =>
         now = 0 /\ count = 0 /\ current_ts = 0 /\ previous_ts = 0
    /\ tpc \in {"test", "done"} => previous_ts = current_ts
    /\ previous_ts <= current_ts
    /\ InStep => previous_ts < goal
    /\ do_wait =>
         /\ current_ts <= now
         /\ tpc = "test" /\ previous_ts < goal =>
              now <= previous_ts + gap /\ count * period <= now
         /\ InStep => count * period <= current_ts
         /\ tpc = "mac" => now = current_ts
         /\ tpc = "ue" => \E a \in Costs : now = current_ts + a
         /\ tpc \in {"log", "sleep"} =>
              \E a, b \in Costs : now = current_ts + a + b
    /\ ~do_wait =>
         /\ tpc = "test" /\ previous_ts < goal =>
              previous_ts <= count * Milli /\ count * Milli <= previous_ts + Milli
         /\ InStep => current_ts = count * Milli

\* the latest time a point can have
Clock == InitT + (IF do_wait THEN current_ts ELSE now)

(* Points are stamped by a clock that does not go back.                     *)
PointsBy(t) ==
    /\ \A s \in Series : emitted_ts[s] <= t
    /\ \A s \in DOMAIN accum :
         /\ accum[s].last_ts <= t /\ accum[s].latest_ts <= t
         /\ accum[s].last = newest[s] /\ accum[s].latest_ts >= emitted_ts[s]
         /\ s \in DOMAIN snapshot => snapshot[s].latest_ts <= accum[s].latest_ts
    /\ \A s \in DOMAIN snapshot : snapshot[s].latest_ts <= t

Stamped ==
    /\ tpc \in {"ue", "log"} => slot = IF do_wait THEN InitT + current_ts ELSE 0
    /\ PointsBy(Clock)

Progressed == tpc = "sleep" /\ ProgressPeriod > 0 => next_progress > current_ts

TimeInv(gap) == (~Infinite => OnTime(gap) /\ Stamped) /\ Progressed
-----------------------------------------------------------------------------
(* The larger of two numbers.                                               *)
LEMMA MaxOfTwo ==
    ASSUME NEW a \in Int, NEW b \in Int
    PROVE  /\ Max({a, b}) \in {a, b}
           /\ Max({a, b}) >= a /\ Max({a, b}) >= b
<1>1. \E x \in {a, b} : \A y \in {a, b} : x >= y
      OBVIOUS
<1>. QED  BY <1>1 DEF Max

(* What a window is, and what it holds of a series.                         *)
LEMMA WindowIs ==
    ASSUME NEW w, AreWindow(w)
    PROVE  /\ DOMAIN w \subseteq Series
           /\ \A s \in DOMAIN w : w[s] \in Point
           /\ \A s \in Series : Held(w, s) \in Nat
           /\ \A s \in Series \ DOMAIN w : Held(w, s) = 0
           /\ \A s \in DOMAIN w : Held(w, s) = w[s].sum
<1>1. DOMAIN w \subseteq Series /\ \A s \in DOMAIN w : w[s] \in Point
      BY DEF AreWindow
<1>2. \A s \in DOMAIN w : w[s].sum \in Nat
      BY <1>1 DEF Point
<1>. QED  BY <1>1, <1>2 DEF Held

LEMMA NothingIsWindow ==
    AreWindow(Nothing) /\ DOMAIN Nothing = {}
<1>1. DOMAIN Nothing = {} /\ Nothing \in [{} -> Point]
      BY DEF Nothing
<1>. QED  BY <1>1 DEF AreWindow

(* A window that lost one series.                                           *)
Shrunk(w, s, r) ==
    /\ AreWindow(r) /\ DOMAIN r = DOMAIN w \ {s}
    /\ \A x \in DOMAIN r : r[x] = w[x]
    /\ Held(r, s) = 0
    /\ \A x \in Series \ {s} : Held(r, x) = Held(w, x)

LEMMA RestrictedWindow ==
    ASSUME NEW w, AreWindow(w), NEW s \in DOMAIN w,
           NEW r, r = Restrict(w, DOMAIN w \ {s})
    PROVE  Shrunk(w, s, r)
<1>1. DOMAIN r = DOMAIN w \ {s} /\ \A x \in DOMAIN r : r[x] = w[x]
      BY DEF Restrict
<1>2. r \in [DOMAIN w \ {s} -> Point]
      BY WindowIs DEF Restrict
<1>3. AreWindow(r)
      BY <1>2, WindowIs DEF AreWindow
<1>. QED  BY <1>1, <1>3 DEF Held, Shrunk

(* What a point does to the window of its series.                           *)
Merged(a, v, last, ts, m) ==
    /\ m \in Point
    /\ m.sum = a.sum + v
    /\ m.latest_ts \in {a.latest_ts, ts}
    /\ m.latest_ts >= a.latest_ts /\ m.latest_ts >= ts
    /\ ts >= a.last_ts => m.last = last /\ m.last_ts = ts

LEMMA MergeIs ==
    \A a \in Point, v, last, ts \in Nat :
        Merged(a, v, last, ts, Merge(a, v, last, ts))
<1>. SUFFICES ASSUME NEW a \in Point, NEW v \in Nat, NEW last \in Nat, NEW ts \in Nat,
                     NEW m, m = Merge(a, v, last, ts)
              PROVE  Merged(a, v, last, ts, m)
     OBVIOUS
<1>. DEFINE top == Max({a.latest_ts, ts})
<1>1. /\ a.sum \in Nat /\ a.last \in Nat /\ a.last_ts \in Nat
      /\ a.latest_ts \in Nat
      BY DEF Point
<1>2. top \in {a.latest_ts, ts} /\ top >= a.latest_ts /\ top >= ts
  <2>1. a.latest_ts \in Int /\ ts \in Int
        BY <1>1
  <2>. QED  BY <2>1, MaxOfTwo, Zenon
<1>3. /\ m.sum = a.sum + v /\ m.latest_ts = top
      /\ m.last = IF ts >= a.last_ts THEN last ELSE a.last
      /\ m.last_ts = IF ts >= a.last_ts THEN ts ELSE a.last_ts
      /\ m = [sum |-> m.sum, last |-> m.last, last_ts |-> m.last_ts,
              latest_ts |-> m.latest_ts]
      BY DEF Merge
<1>. HIDE DEF top
<1>4. m.sum \in Nat /\ m.last \in Nat /\ m.last_ts \in Nat /\ m.latest_ts \in Nat
      BY <1>1, <1>2, <1>3
<1>5. m \in Point
      BY <1>3, <1>4 DEF Point
<1>. QED  BY <1>1, <1>2, <1>3, <1>5 DEF Merged

Pointed(s, v, last, ts) ==
    /\ AreWindow(accum') /\ DOMAIN accum' = DOMAIN accum \union {s}
    /\ Held(accum', s) = Held(accum, s) + v
    /\ \A x \in Series \ {s} : Held(accum', x) = Held(accum, x)
    /\ \A x \in DOMAIN accum \ {s} : accum'[x] = accum[x]
    /\ s \in DOMAIN accum =>
         /\ accum'[s].latest_ts \in {accum[s].latest_ts, ts}
         /\ accum'[s].latest_ts >= accum[s].latest_ts
         /\ accum'[s].latest_ts >= ts
         /\ ts >= accum[s].last_ts =>
              accum'[s].last = last /\ accum'[s].last_ts = ts
    /\ s \notin DOMAIN accum =>
         /\ accum'[s].latest_ts = ts
         /\ accum'[s].last = last /\ accum'[s].last_ts = ts

LEMMA PublishIs ==
    ASSUME AreWindow(accum), NEW s \in Series, NEW v \in Nat, NEW last \in Nat,
           NEW wall \in Nat, slot \in Nat, Publish(s, v, last, wall),
           NEW ts, ts = Stamp(wall)
    PROVE  Pointed(s, v, last, ts)
<1>. DEFINE
            old == IF s \in DOMAIN accum THEN accum[s] ELSE EmptyWindow
            new == Merge(old, v, last, ts)
<1>1. ts \in Nat /\ ts = IF slot > 0 THEN slot ELSE wall
      BY DEF Stamp
<1>2. EmptyWindow \in Point /\ EmptyWindow.sum = 0 /\ EmptyWindow.last_ts = 0
      /\ EmptyWindow.latest_ts = 0
      BY DEF EmptyWindow, Point
<1>3. old \in Point
      BY <1>2, WindowIs
<1>4. old.sum = Held(accum, s)
      BY <1>2, WindowIs
<1>5. accum' = [x \in DOMAIN accum \union {s} |-> IF x = s THEN new ELSE accum[x]]
      BY DEF Publish
<1>6. /\ new \in Point /\ new.sum = old.sum + v
      /\ new.latest_ts \in {old.latest_ts, ts}
      /\ new.latest_ts >= old.latest_ts /\ new.latest_ts >= ts
      /\ ts >= old.last_ts => new.last = last /\ new.last_ts = ts
  <2>1. Merged(old, v, last, ts, new)
    <3>. HIDE DEF old
    <3>. QED  BY <1>1, <1>3, MergeIs
  <2>. HIDE DEF old, new
  <2>. QED  BY <2>1 DEF Merged
<1>7. /\ s \in DOMAIN accum => old = accum[s]
      /\ s \notin DOMAIN accum => old.last_ts = 0 /\ old.latest_ts = 0
      BY <1>2
<1>. HIDE DEF new, old
<1>8. /\ DOMAIN accum' = DOMAIN accum \union {s} /\ accum'[s] = new
      /\ \A x \in DOMAIN accum \ {s} : accum'[x] = accum[x]
      BY <1>5
<1>9. AreWindow(accum')
  <2>1. \A x \in DOMAIN accum' : accum'[x] \in Point
        BY <1>6, <1>8, WindowIs
  <2>2. accum' = [x \in DOMAIN accum' |-> accum'[x]]
        BY <1>5
  <2>. QED  BY <1>8, <2>1, <2>2, WindowIs DEF AreWindow
<1>10. /\ Held(accum', s) = Held(accum, s) + v
       /\ \A x \in Series \ {s} : Held(accum', x) = Held(accum, x)
       BY <1>4, <1>6, <1>8 DEF Held
<1>11. s \notin DOMAIN accum => new.latest_ts = ts /\ new.last = last /\ new.last_ts = ts
       BY <1>1, <1>6, <1>7
<1>. QED  BY <1>1, <1>6, <1>7, <1>8, <1>9, <1>10, <1>11 DEF Pointed
-----------------------------------------------------------------------------
(* Initially nothing has been published.                                    *)
LEMMA InitInv == Init => Inv
<1>. SUFFICES ASSUME Init PROVE Inv
     OBVIOUS
<1>. USE EmulatorAssumption, TickerAssumption
<1>1. /\ now = 0 /\ tpc = "off" /\ count = 0 /\ current_ts = 0 /\ previous_ts = 0
      /\ run = FALSE /\ finished = FALSE
      /\ wpc = "off" /\ running = FALSE /\ emit_cb = FALSE
      /\ accum = Nothing /\ snapshot = Nothing /\ line = {}
      /\ sender = "none" /\ slot = 0 /\ crashed = FALSE
      /\ published = Zero /\ sent = Zero /\ dropped = Zero /\ newest = Zero
      /\ emitted_ts = Zero /\ mark = Zero /\ settled = Zero
      /\ mpc = "init" /\ total_steps = 0 /\ step_c = 0
      /\ next_progress = ProgressPeriod
      BY DEF Init, TickerInit, TelemetryInit
<1>2. period \in Int /\ goal \in Int
  <2>1. PICK c \in Configs : period = c.period /\ goal \in Goals(c.duration)
        BY DEF Init
  <2>2. c.period \in Int /\ c.duration \in Int
        OBVIOUS
  <2>. QED  BY <2>1, <2>2 DEF Goals
<1>3. Zero \in [Series -> Nat] /\ \A s \in Series : Zero[s] = 0
      BY DEF Zero
<1>4. TypeOK
      BY <1>1, NothingIsWindow DEF TypeOK, InStep, MainStages
<1>5. Types
      BY <1>1, <1>2, <1>3, <1>4, NothingIsWindow DEF Types
<1>6. Stages
      BY <1>1, NothingIsWindow DEF Stages
<1>7. Balanced /\ Settling
      BY <1>1, <1>3, NothingIsWindow DEF Balanced, Settling, AtMostTwoWindowsLost, Held
<1>8. StepsLogged
  <2>1. Logged = 0
    <3>1. (IF tpc \in {"ue", "log"} THEN 1 ELSE 0) = 0
          BY <1>1
    <3>2. Logged = 0 - 0 - 0
          BY <1>1, <3>1, Zenon DEF Logged
    <3>. QED  BY <3>2
  <2>2. 0 = 0 * Freq /\ published["emulator_runtime"] = 0
        BY <1>1, <1>3
  <2>. QED  BY <2>1, <2>2 DEF StepsLogged
<1>. QED  BY <1>5, <1>6, <1>7, <1>8 DEF Inv

(* A step that publishes and emits nothing keeps the accounts.              *)
LEMMA KeepsAccounts ==
    ASSUME Inv, UNCHANGED <<windows, tallies, enabled>>, Types', Stages',
           sender' \in {"none", "up"} => sender \in {"none", "up"},
           emit_cb => emit_cb', UNCHANGED Logged
    PROVE  Inv'
<1>1. /\ UNCHANGED <<accum, snapshot, published, sent, dropped, mark, settled, enabled>>
      /\ UNCHANGED Logged
      BY DEF windows, tallies
<1>2. Balanced'
      BY <1>1 DEF Inv, Balanced, Held
<1>3. Settling'
      BY <1>1 DEF Inv, Settling, AtMostTwoWindowsLost, Held
<1>4. StepsLogged'
      BY <1>1 DEF Inv, StepsLogged
<1>. QED  BY <1>2, <1>3, <1>4 DEF Inv

(* The main thread.                                                         *)
LEMMA MainInv ==
    ASSUME Inv, Main
    PROVE  Inv'
<1>. USE DEF Types, TypeOK, Stages, MainGoes, counters, tickerVars,
             telemetryVars, windows, tallies, setup, clockwork, InStep, MainStages
<1>0. Types /\ Stages
      BY DEF Inv
<1>1. CASE Construct
  <2>1. CASE enabled /\ MainGoes("init", "callback") /\ InitMonitoring
             /\ UNCHANGED tickerVars
    <3>1. Types' /\ Stages'
          BY <1>0, <2>1 DEF InitMonitoring
    <3>2. UNCHANGED Logged
          BY <2>1 DEF Logged
    <3>3. sender \in {"none", "up"}
          BY <1>0, <2>1
    <3>. QED  BY <2>1, <3>1, <3>2, <3>3, KeepsAccounts DEF InitMonitoring
  <2>2. CASE ~enabled /\ MainGoes("init", "start")
             /\ UNCHANGED <<tickerVars, telemetryVars>>
    <3>1. Types' /\ Stages'
          BY <1>0, <2>2
    <3>2. UNCHANGED Logged
          BY <2>2 DEF Logged
    <3>. QED  BY <2>2, <3>1, <3>2, KeepsAccounts
  <2>3. CASE MainGoes("callback", "start") /\ SetEmitCallback /\ UNCHANGED tickerVars
    <3>1. Types' /\ Stages'
          BY <1>0, <2>3 DEF SetEmitCallback
    <3>2. UNCHANGED Logged
          BY <2>3 DEF Logged, SetEmitCallback
    <3>. QED  BY <2>3, <3>1, <3>2, KeepsAccounts DEF SetEmitCallback
  <2>. QED  BY <1>1, <2>1, <2>2, <2>3 DEF Construct
<1>2. CASE Start
  <2>1. Types' /\ Stages'
        BY <1>0, <1>2 DEF Start, TimerStart
  <2>2. UNCHANGED Logged
        BY <1>0, <1>2 DEF Logged, Start, TimerStart
  <2>. QED  BY <1>2, <2>1, <2>2, KeepsAccounts DEF Start, TimerStart
<1>3. CASE WaitFinished
  <2>1. Types' /\ Stages'
        BY <1>0, <1>3 DEF WaitFinished
  <2>2. UNCHANGED Logged
        BY <1>3 DEF Logged, WaitFinished
  <2>. QED  BY <1>3, <2>1, <2>2, KeepsAccounts DEF WaitFinished
<1>4. CASE DestroyTimer
  <2>1. Types' /\ Stages'
        BY <1>0, <1>4, SMTT(30) DEF DestroyTimer
  <2>2. UNCHANGED Logged
        BY <1>4 DEF Logged, DestroyTimer
  <2>3. UNCHANGED <<windows, tallies, enabled, sender, emit_cb>>
        BY <1>4 DEF DestroyTimer
  <2>. HIDE DEF Types, Stages
  <2>. QED  BY <2>1, <2>2, <2>3, KeepsAccounts
<1>5. CASE DestroyMonitoring
  <2>1. Types' /\ Stages'
        BY <1>0, <1>5 DEF DestroyMonitoring, DeleteSender, ClearSender, StopWorker
  <2>2. UNCHANGED Logged
        BY <1>5 DEF Logged, DestroyMonitoring
  <2>. QED  BY <1>5, <2>1, <2>2, KeepsAccounts, SMTT(30)
            DEF DestroyMonitoring, DeleteSender, ClearSender, StopWorker
<1>. QED  BY <1>1, <1>2, <1>3, <1>4, <1>5 DEF Main
-----------------------------------------------------------------------------
(* A remainder, and the time the ticker thread waits.                       *)
LEMMA Remainder ==
    ASSUME NEW n \in Int, NEW m \in Nat \ {0}
    PROVE  n % m \in 0 .. m - 1
OBVIOUS

LEMMA WaitsAreNat ==
    Types => WaitFinite \in Nat /\ WaitInfinite \in Nat
<1>. SUFFICES ASSUME Types PROVE WaitFinite \in Nat /\ WaitInfinite \in Nat
     OBVIOUS
<1>. USE TickerAssumption
<1>1. /\ period \in Int /\ count \in Nat /\ now \in Nat
      /\ current_ts \in Int /\ previous_ts \in Int
      BY DEF Types, TypeOK
<1>2. CurrentTs(now) \in Int /\ (CurrentTs(now) - current_ts) % Wrap \in Int
      /\ (current_ts - previous_ts) % Wrap \in Int
      BY <1>1, Remainder DEF CurrentTs
<1>3. \A x \in Int : Max({0, x}) \in Nat
  <2>. SUFFICES ASSUME NEW x \in Int PROVE Max({0, x}) \in Nat
       OBVIOUS
  <2>1. 0 \in Int
        OBVIOUS
  <2>2. Max({0, x}) \in {0, x} /\ Max({0, x}) >= 0
        BY <2>1, MaxOfTwo, Zenon
  <2>. QED  BY <2>2
<1>4. period * (count + 1) - CurrentTs(now) \in Int
      BY <1>1, <1>2
<1>5. WaitFinite \in Nat
      BY <1>3, <1>4, Zenon DEF WaitFinite
<1>. DEFINE diff == period - ((current_ts - previous_ts) % Wrap)
            sign == IF diff > 0 THEN 1 ELSE -1
            wait == period - sign * diff - ((CurrentTs(now) - current_ts) % Wrap)
<1>6. diff \in Int /\ sign \in Int
      BY <1>1, <1>2
<1>7. wait \in Int
  <2>. HIDE DEF diff, sign
  <2>. QED  BY <1>1, <1>2, <1>6
<1>8. WaitInfinite = Max({0, wait})
      BY DEF WaitInfinite
<1>. HIDE DEF wait
<1>9. WaitInfinite \in Nat
      BY <1>3, <1>7, <1>8, Zenon
<1>. QED  BY <1>5, <1>9

(* The clockwork of the ticker thread.                                      *)
LEMMA ClockInv ==
    ASSUME Inv, Enter \/ BeginTick \/ EndTick \/ FinishTicker,
           UNCHANGED <<telemetryVars, mpc, enabled, counters>>
    PROVE  Inv'
<1>. USE TickerAssumption
         DEF Stages, counters, telemetryVars, windows, tallies, setup, InStep
<1>0. Types /\ Stages /\ (tpc # "off" => mpc \notin {"init", "callback", "start"})
      BY DEF Inv
<1>1. /\ tpc \in {"entry", "test", "sleep"} /\ tpc' \in {"test", "mac", "done"}
      /\ tpc' = "mac" => tpc = "test" /\ ~finished
      /\ finished' <=> tpc' = "done"
      /\ UNCHANGED <<period, goal, do_wait>>
      BY DEF Inv, Enter, BeginTick, EndTick, FinishTicker
<1>2. now' \in Nat
  <2>1. CASE EndTick
    <3>1. CASE do_wait
      <4>1. PICK w \in Nat, late \in Oversleep \union {0} : now' = now + w + late
            BY <1>0, <2>1, <3>1, WaitsAreNat DEF EndTick, Inv
      <4>. QED  BY <4>1 DEF Inv, Types
    <3>2. CASE ~do_wait
          BY <2>1, <3>2 DEF EndTick, Inv, Types
    <3>. QED  BY <3>1, <3>2
  <2>2. CASE Enter \/ BeginTick \/ FinishTicker
        BY <2>2 DEF Enter, BeginTick, FinishTicker, Inv, Types
  <2>. QED  BY <2>1, <2>2
<1>3. count' \in Nat
      BY DEF Enter, BeginTick, EndTick, FinishTicker, Inv, Types
<1>4. current_ts' \in 0 .. Wrap - 1 /\ previous_ts' \in 0 .. Wrap - 1
  <2>1. CASE BeginTick
    <3>1. now \in Int /\ count * Milli \in Int
          BY DEF Inv, Types
    <3>2. Timestamp \in 0 .. Wrap - 1
          BY <3>1, Remainder DEF Timestamp, CurrentTs
    <3>. QED  BY <2>1, <3>2 DEF BeginTick, Inv, Types, TypeOK
  <2>2. CASE Enter \/ EndTick \/ FinishTicker
        BY <2>2 DEF Enter, EndTick, FinishTicker, Inv, Types, TypeOK
  <2>. QED  BY <2>1, <2>2
<1>5. mpc = "wait" \/ tpc' # "mac"
      BY <1>1 DEF Inv, Types, TypeOK, MainStages
<1>6. Types'
  <2>1. TypeOK'
        BY <1>0, <1>1, <1>4, <1>5 DEF Types, TypeOK, Inv
  <2>. QED  BY <1>0, <1>1, <1>2, <1>3, <2>1 DEF Types
<1>7. Stages'
      BY <1>0, <1>1 DEF Inv
<1>8. UNCHANGED Logged
      BY <1>1 DEF Logged
<1>9. UNCHANGED <<windows, tallies, enabled, sender, emit_cb>>
      OBVIOUS
<1>. HIDE DEF Stages
<1>. QED  BY <1>6, <1>7, <1>8, <1>9, KeepsAccounts
-----------------------------------------------------------------------------
(* The step of the simulator.  A point goes into the window of its series,  *)
(* once the callback is set.                                                *)
LEMMA PublishAccounts ==
    ASSUME Inv, NEW s \in Series, NEW v \in Nat, NEW last \in Nat, NEW wall \in Nat,
           Publish(s, v, last, wall), emit_cb
    PROVE  /\ AreWindow(accum') /\ published' \in [Series -> Nat]
           /\ newest' \in [Series -> Nat]
           /\ published'[s] = published[s] + v
           /\ \A x \in Series \ {s} : published'[x] = published[x]
           /\ UNCHANGED <<wpc, running, emit_cb, snapshot, line, sender, crashed, sent,
                          dropped, emitted_ts, mark, settled>>
           /\ Balanced' /\ Settling'
<1>1. /\ AreWindow(accum) /\ AreWindow(snapshot) /\ slot \in Nat
      /\ published \in [Series -> Nat] /\ sent \in [Series -> Nat]
      /\ dropped \in [Series -> Nat] /\ newest \in [Series -> Nat]
      BY DEF Inv, Types
<1>2. /\ published' = [published EXCEPT ![s] = @ + v]
      /\ newest' = [newest EXCEPT ![s] = last]
      /\ UNCHANGED <<wpc, running, emit_cb, snapshot, line, sender, crashed, sent,
                     dropped, emitted_ts, mark, settled>>
      BY DEF Publish
<1>3. /\ published' \in [Series -> Nat] /\ newest' \in [Series -> Nat]
      /\ published'[s] = published[s] + v
      /\ \A x \in Series \ {s} : published'[x] = published[x]
      BY <1>1, <1>2
<1>4. /\ AreWindow(accum') /\ Held(accum', s) = Held(accum, s) + v
      /\ \A x \in Series \ {s} : Held(accum', x) = Held(accum, x)
  <2>1. Pointed(s, v, last, Stamp(wall))
        BY <1>1, PublishIs, Zenon
  <2>. QED  BY <2>1 DEF Pointed
<1>5. Balanced'
  <2>. SUFFICES ASSUME NEW x \in Series
                PROVE  published'[x] = sent'[x] + dropped'[x] + Held(accum', x)
                                       + Held(snapshot', x)
       BY <1>2 DEF Balanced
  <2>1. published[x] = sent[x] + dropped[x] + Held(accum, x) + Held(snapshot, x)
        BY DEF Inv, Balanced
  <2>2. /\ Held(accum, x) \in Nat /\ Held(snapshot, x) \in Nat
        /\ sent[x] \in Nat /\ dropped[x] \in Nat
        BY <1>1, WindowIs
  <2>3. Held(snapshot', x) = Held(snapshot, x)
        BY <1>2
  <2>4. CASE x = s
        BY <1>2, <1>3, <1>4, <2>1, <2>2, <2>3, <2>4
  <2>5. CASE x # s
        BY <1>2, <1>3, <1>4, <2>1, <2>2, <2>3, <2>5
  <2>. QED  BY <2>4, <2>5
<1>6. Settling'
      BY <1>2 DEF Inv, Settling, AtMostTwoWindowsLost, Held
<1>. QED  BY <1>2, <1>3, <1>4, <1>5, <1>6

LEMMA StepMacInv ==
    ASSUME Inv, StepMac
    PROVE  Inv'
<1>. USE EmulatorAssumption DEF Stages, InStep
<1>1. /\ tpc = "mac" /\ tpc' = "ue" /\ total_steps' = total_steps + 1
      /\ UNCHANGED <<period, goal, do_wait>>
      /\ UNCHANGED <<count, current_ts, previous_ts, finished>>
      /\ UNCHANGED <<wpc, emit_cb, sender, mpc, enabled, step_c, next_progress>>
      /\ UNCHANGED <<windows, tallies>>
      BY DEF StepMac, setup, clockwork
<1>2. Types /\ Stages
      BY DEF Inv
<1>3. now' \in Nat /\ slot' \in Nat
  <2>1. PICK cost \in Costs : now' = now + cost
        BY DEF StepMac, Spend
  <2>2. slot' \in {InitT + current_ts, 0}
        BY Zenon DEF StepMac
  <2>. QED  BY <1>2, <2>1, <2>2, TickerAssumption, SMTT(30) DEF Types, TypeOK
<1>4. Types' /\ Stages'
      BY <1>1, <1>2, <1>3, SMTT(30) DEF Types, TypeOK, windows, tallies
<1>5. UNCHANGED Logged
  <2>1. Logged = total_steps - step_c - 0
        BY <1>1 DEF Logged
  <2>2. Logged' = total_steps' - step_c' - 1
        BY <1>1 DEF Logged
  <2>3. total_steps \in Nat /\ step_c \in Int
        BY <1>2 DEF Types
  <2>. QED  BY <1>1, <2>1, <2>2, <2>3
<1>. HIDE DEF Stages
<1>. QED  BY <1>1, <1>4, <1>5, KeepsAccounts

LEMMA StepUeInv ==
    ASSUME Inv, StepUe
    PROVE  Inv'
<1>. USE EmulatorAssumption DEF Stages, InStep
<1>1. /\ tpc = "ue" /\ tpc' = "log"
      /\ UNCHANGED <<period, goal, do_wait>>
      /\ UNCHANGED <<count, current_ts, previous_ts, finished>>
      /\ UNCHANGED <<mpc, enabled, total_steps, step_c, next_progress>>
      BY DEF StepUe, setup, clockwork, counters
<1>2. Types /\ Stages
      BY DEF Inv
<1>3. now' \in Nat
  <2>1. PICK cost \in Costs : now' = now + cost
        BY DEF StepUe, Spend
  <2>. QED  BY <1>2, <2>1 DEF Types
<1>4. UNCHANGED Logged
      BY <1>1 DEF Logged
<1>5. CASE UNCHANGED telemetryVars
  <2>1. UNCHANGED <<windows, tallies, wpc, emit_cb, sender, slot>>
        BY <1>5 DEF telemetryVars
  <2>2. Types' /\ Stages'
        BY <1>1, <1>2, <1>3, <2>1 DEF Types, TypeOK, windows, tallies
  <2>. HIDE DEF Stages
  <2>. QED  BY <1>1, <1>4, <2>1, <2>2, KeepsAccounts
<1>6. CASE enabled /\ Publish("ue_queue", 1, total_steps, InitT + now) /\ slot' = slot
  <2>1. /\ "ue_queue" \in Series /\ InitT + now \in Nat /\ total_steps \in Nat
        /\ emit_cb
        BY <1>1, <1>2, <1>6 DEF Types, TypeOK
  <2>2. /\ AreWindow(accum') /\ published' \in [Series -> Nat]
        /\ newest' \in [Series -> Nat]
        /\ \A x \in Series \ {"ue_queue"} : published'[x] = published[x]
        /\ UNCHANGED <<wpc, running, emit_cb, snapshot, line, sender, crashed, sent,
                       dropped, emitted_ts, mark, settled>>
        /\ Balanced' /\ Settling'
    <3>. HIDE DEF Stages
    <3>. QED  BY <1>6, <2>1, PublishAccounts
  <2>3. Types' /\ Stages'
        BY <1>1, <1>2, <1>3, <1>6, <2>2, WindowIs DEF Types, TypeOK
  <2>4. StepsLogged'
    <3>1. published'["emulator_runtime"] = published["emulator_runtime"]
          BY <2>2
    <3>. QED  BY <1>1, <1>4, <1>6, <3>1 DEF Inv, StepsLogged
  <2>. QED  BY <2>2, <2>3, <2>4 DEF Inv
<1>. QED  BY <1>5, <1>6 DEF StepUe

(* The progress log is next due at a later time.                            *)
LEMMA NextIsLater ==
    ASSUME NEW next \in Nat, NEW t \in Nat, t >= next, ProgressPeriod > 0
    PROVE  NextProgress(next, t) \in Nat /\ NextProgress(next, t) > t
<1>. USE EmulatorAssumption
<1>1. PICK q \in Int : q = (t - next) \div ProgressPeriod
      OBVIOUS
<1>2. /\ ProgressPeriod * q <= t - next
      /\ t - next < ProgressPeriod * (q + 1)
      BY <1>1
<1>3. NextProgress(next, t) = next + ProgressPeriod * (q + 1)
      BY <1>1 DEF NextProgress
<1>4. PICK d \in Int : d = ProgressPeriod * (q + 1)
      OBVIOUS
<1>. QED  BY <1>2, <1>3, <1>4

LEMMA StepLogInv ==
    ASSUME Inv, StepLog
    PROVE  Inv'
<1>. USE EmulatorAssumption DEF Stages, InStep
<1>1. /\ tpc = "log" /\ tpc' = "sleep" /\ slot' = 0
      /\ UNCHANGED <<period, goal, do_wait, now>>
      /\ UNCHANGED <<count, current_ts, previous_ts, finished>>
      /\ UNCHANGED <<mpc, enabled, total_steps>>
      BY DEF StepLog, setup, clockwork
<1>2. Types /\ Stages
      BY DEF Inv
<1>3. next_progress' \in Nat
  <2>1. next_progress \in Nat /\ current_ts \in Nat
        BY <1>2, TickerAssumption DEF Types, TypeOK
  <2>2. CASE ProgressPeriod > 0 /\ current_ts >= next_progress
        BY <2>1, <2>2, NextIsLater DEF StepLog
  <2>3. CASE ~(ProgressPeriod > 0 /\ current_ts >= next_progress)
        BY <2>1, <2>3 DEF StepLog
  <2>. QED  BY <2>2, <2>3
<1>4. /\ total_steps \in Nat /\ step_c \in 0 .. Freq - 1 /\ Freq \in Nat \ {0}
      /\ Logged = total_steps - step_c - 1
      BY <1>1, <1>2 DEF Types, Logged
<1>5. Logged' = total_steps - step_c' - 0
      BY <1>1 DEF Logged
<1>6. CASE step_c + 1 = Freq /\ enabled /\ EmitRuntime
  <2>1. /\ step_c' = 0
        /\ Publish("emulator_runtime", Freq, total_steps, InitT + now)
        BY <1>6 DEF StepLog, HandleTimeLog
  <2>2. /\ "emulator_runtime" \in Series /\ InitT + now \in Nat /\ Freq \in Nat
        /\ emit_cb
        BY <1>1, <1>2, <1>6 DEF Types, TypeOK
  <2>3. /\ AreWindow(accum') /\ published' \in [Series -> Nat]
        /\ newest' \in [Series -> Nat]
        /\ published'["emulator_runtime"] = published["emulator_runtime"] + Freq
        /\ UNCHANGED <<wpc, running, emit_cb, snapshot, line, sender, crashed, sent,
                       dropped, emitted_ts, mark, settled>>
        /\ Balanced' /\ Settling'
    <3>. HIDE DEF Stages
    <3>. QED  BY <1>4, <2>1, <2>2, PublishAccounts
  <2>4. Types' /\ Stages'
    <3>1. DOMAIN accum' \subseteq Series
          BY <2>3, WindowIs
    <3>2. slot' \in Nat /\ step_c' \in 0 .. Freq - 1
          BY <1>1, <2>1
    <3>. QED  BY <1>1, <1>2, <1>3, <2>3, <3>1, <3>2 DEF Types, TypeOK
  <2>5. StepsLogged'
    <3>1. Logged = published["emulator_runtime"]
          BY <1>6 DEF Inv, StepsLogged
    <3>2. Logged' = published'["emulator_runtime"]
          BY <1>4, <1>5, <1>6, <2>1, <2>3, <3>1
    <3>. QED  BY <1>1, <1>6, <3>2 DEF StepsLogged
  <2>. QED  BY <2>3, <2>4, <2>5 DEF Inv
<1>7. CASE ~(step_c + 1 = Freq /\ enabled /\ EmitRuntime)
  <2>1. /\ step_c' = IF step_c + 1 = Freq THEN 0 ELSE step_c + 1
        /\ UNCHANGED <<wpc, running, emit_cb, windows, sender, crashed, tallies>>
        BY <1>7 DEF StepLog, HandleTimeLog
  <2>2. Types' /\ Stages'
        BY <1>1, <1>2, <1>3, <1>4, <2>1, SMTT(30) DEF Types, TypeOK, windows, tallies
  <2>3. Balanced' /\ Settling'
        BY <2>1 DEF Inv, Balanced, Settling, AtMostTwoWindowsLost, windows, tallies, Held
  <2>4. StepsLogged'
    <3>1. CASE step_c + 1 # Freq
      <4>1. Logged' = Logged
            BY <1>4, <1>5, <2>1, <3>1
      <4>. QED  BY <1>1, <2>1, <4>1 DEF Inv, StepsLogged, tallies
    <3>2. CASE step_c + 1 = Freq
      <4>1. ~(enabled /\ EmitRuntime) /\ Logged' = Logged + Freq
            BY <1>4, <1>5, <1>7, <2>1, <3>2
      <4>2. PICK n \in Nat : Logged = n * Freq
            BY <4>1 DEF Inv, StepsLogged
      <4>3. Logged' = (n + 1) * Freq
            BY <1>4, <4>1, <4>2
      <4>4. \E m \in Nat : Logged' = m * Freq
        <5>. WITNESS n + 1 \in Nat
        <5>. QED  BY <4>3
      <4>5. ~(enabled' /\ EmitRuntime)
            BY <1>1, <4>1
      <4>. QED  BY <4>4, <4>5, Zenon DEF StepsLogged
    <3>. QED  BY <3>1, <3>2
  <2>. QED  BY <2>2, <2>3, <2>4 DEF Inv
<1>. QED  BY <1>6, <1>7
-----------------------------------------------------------------------------
(* The worker takes a window over only when it has emitted the one before.  *)
LEMMA WorkerInv ==
    ASSUME Inv, Working
    PROVE  Inv'
<1>. USE DEF Stages, InStep
<1>1. /\ UNCHANGED <<period, goal, do_wait, now, tpc>>
      /\ UNCHANGED <<count, current_ts, previous_ts, finished>>
      /\ UNCHANGED <<mpc, enabled, total_steps, step_c, next_progress>>
      BY DEF Working, tickerVars, setup, clockwork, counters
<1>2. Types /\ Stages
      BY DEF Inv
<1>3. UNCHANGED Logged
      BY <1>1 DEF Logged
<1>4. CASE WorkerTest \/ WindowEmitted
  <2>1. /\ UNCHANGED <<windows, tallies, sender, emit_cb, slot>>
        /\ wpc \in {"test", "emit"} /\ wpc' \in {"test", "sleep", "done"}
        /\ wpc = "emit" => DOMAIN snapshot = {}
        BY <1>4, NothingIsWindow DEF WorkerTest, WindowEmitted, windows, tallies
  <2>2. mpc # "exit"
        BY <1>2, <2>1 DEF Types, TypeOK
  <2>3. Types' /\ Stages'
        BY <1>1, <1>2, <2>1, <2>2 DEF Types, TypeOK, windows, tallies
  <2>. HIDE DEF Stages
  <2>. QED  BY <1>1, <1>3, <2>1, <2>3, KeepsAccounts
<1>5. CASE SwapWindow
  <2>1. /\ wpc = "sleep" /\ wpc' = "emit"
        /\ snapshot' = accum /\ accum' = Nothing
        /\ UNCHANGED <<emit_cb, line, sender, slot, published, sent, dropped, newest,
                       emitted_ts>>
        /\ (sender = "up" /\ mark' = published /\ settled' = mark)
           \/ (sender # "up" /\ mark' = mark /\ settled' = settled)
        BY <1>5 DEF SwapWindow
  <2>2. DOMAIN snapshot = {} /\ line = {}
        BY <1>2, <2>1 DEF Types, TypeOK
  <2>3. mpc # "exit"
        BY <1>2, <2>1 DEF Types, TypeOK
  <2>4. Types' /\ Stages'
    <3>1. DOMAIN accum' \subseteq Series /\ AreWindow(accum') /\ DOMAIN accum' = {}
          BY <2>1, NothingIsWindow
    <3>2. mark' \in [Series -> Nat] /\ settled' \in [Series -> Nat]
          BY <1>2, <2>1 DEF Types
    <3>. QED  BY <1>1, <1>2, <2>1, <2>2, <2>3, <3>1, <3>2 DEF Types, TypeOK
  <2>5. \A s \in Series : Held(accum', s) = 0 /\ Held(snapshot', s) = Held(accum, s)
                          /\ Held(snapshot, s) = 0 /\ Held(accum, s) \in Nat
        BY <1>2, <2>1, <2>2, NothingIsWindow, WindowIs DEF Types, Held
  <2>6. Balanced'
    <3>1. \A s \in Series : published'[s] = sent'[s] + dropped'[s] + Held(accum', s)
                                            + Held(snapshot', s)
          BY <1>2, <2>1, <2>5 DEF Inv, Balanced, Types
    <3>2. ~emit_cb' => DOMAIN accum' = {} /\ DOMAIN snapshot' = {}
          BY <2>1, NothingIsWindow DEF Inv, Balanced
    <3>. QED  BY <3>1, <3>2 DEF Balanced
  <2>7. Settling'
    <3>. SUFFICES ASSUME NEW s \in Series
                  PROVE  /\ sender' \in {"none", "up"} =>
                              /\ dropped'[s] = 0
                              /\ mark'[s] <= sent'[s] + Held(snapshot', s)
                         /\ sent'[s] >= settled'[s]
         BY DEF Settling, AtMostTwoWindowsLost
    <3>1. /\ published[s] = sent[s] + dropped[s] + Held(accum, s) + Held(snapshot, s)
          /\ sender \in {"none", "up"} =>
               dropped[s] = 0 /\ mark[s] <= sent[s] + Held(snapshot, s)
          /\ sent[s] >= settled[s]
          /\ sent[s] \in Nat /\ mark[s] \in Nat
          BY <1>2 DEF Inv, Balanced, Settling, AtMostTwoWindowsLost, Types
    <3>. QED  BY <2>1, <2>5, <3>1
  <2>8. StepsLogged'
        BY <1>1, <1>3, <2>1 DEF Inv, StepsLogged
  <2>. QED  BY <2>4, <2>6, <2>7, <2>8 DEF Inv
<1>6. ASSUME NEW s \in Series, Emit(s)
      PROVE  Inv'
  <2>1. /\ wpc = "emit" /\ s \in DOMAIN snapshot
        /\ UNCHANGED <<emit_cb, accum, sender, slot, published, sent, newest,
                       emitted_ts, mark, settled>>
        BY <1>6 DEF Emit
  <2>2. CASE emit_cb /\ sender # "null"
    <3>1. line' = {s} /\ wpc' = "send" /\ UNCHANGED <<snapshot, dropped>>
          BY <1>6, <2>2 DEF Emit
    <3>2. mpc # "exit"
          BY <1>2, <2>1 DEF Types, TypeOK
    <3>3. Types' /\ Stages'
          BY <1>1, <1>2, <2>1, <3>1, <3>2 DEF Types, TypeOK
    <3>4. Balanced' /\ Settling'
          BY <2>1, <3>1 DEF Inv, Balanced, Settling, AtMostTwoWindowsLost, Held
    <3>5. StepsLogged'
          BY <1>1, <1>3, <2>1 DEF Inv, StepsLogged
    <3>. QED  BY <3>3, <3>4, <3>5 DEF Inv
  <2>3. CASE ~(emit_cb /\ sender # "null")
    <3>0. snapshot' = Restrict(snapshot, DOMAIN snapshot \ {s})
          BY <1>6, <2>3 DEF Emit
    <3>1. /\ dropped' = [dropped EXCEPT ![s] = @ + snapshot[s].sum]
          /\ UNCHANGED <<line, wpc>>
          BY <1>6, <2>3 DEF Emit
    <3>2. emit_cb /\ sender = "null"
          BY <2>1, <2>3 DEF Inv, Balanced
    <3>3. /\ AreWindow(snapshot') /\ DOMAIN snapshot' = DOMAIN snapshot \ {s}
          /\ Held(snapshot', s) = 0
          /\ \A x \in Series \ {s} : Held(snapshot', x) = Held(snapshot, x)
      <4>1. AreWindow(snapshot) /\ s \in DOMAIN snapshot
            BY <1>2, <2>1 DEF Types
      <4>2. Shrunk(snapshot, s, snapshot')
            BY <3>0, <4>1, RestrictedWindow, Zenon
      <4>. QED  BY <4>2 DEF Shrunk
    <3>4. snapshot[s].sum = Held(snapshot, s) /\ Held(snapshot, s) \in Nat
          BY <1>2, <2>1, WindowIs DEF Types
    <3>5. /\ dropped' \in [Series -> Nat]
          /\ dropped'[s] = dropped[s] + Held(snapshot, s)
          /\ \A x \in Series \ {s} : dropped'[x] = dropped[x]
          BY <1>2, <3>1, <3>4 DEF Types
    <3>6. line = {}
          BY <1>2, <2>1
    <3>7. Types' /\ Stages'
          BY <1>1, <1>2, <2>1, <3>1, <3>3, <3>5, <3>6 DEF Types, TypeOK
    <3>8. Balanced'
      <4>. SUFFICES ASSUME NEW x \in Series
                    PROVE  published'[x] = sent'[x] + dropped'[x] + Held(accum', x)
                                           + Held(snapshot', x)
           BY <2>1, <3>2, <3>3, <3>4, <3>5 DEF Inv, Balanced
      <4>1. published[x] = sent[x] + dropped[x] + Held(accum, x) + Held(snapshot, x)
            BY DEF Inv, Balanced
      <4>2. /\ Held(accum, x) \in Nat /\ Held(snapshot, x) \in Nat
            /\ sent[x] \in Nat /\ dropped[x] \in Nat
            BY <1>2, WindowIs DEF Types
      <4>3. Held(accum', x) = Held(accum, x) /\ published'[x] = published[x]
            BY <2>1
      <4>4. CASE x = s
            BY <2>1, <3>2, <3>3, <3>4, <3>5, <4>1, <4>2, <4>3, <4>4
      <4>5. CASE x # s
            BY <2>1, <3>2, <3>3, <3>4, <3>5, <4>1, <4>2, <4>3, <4>5
      <4>. QED  BY <4>4, <4>5
    <3>9. Settling'
          BY <2>1, <3>2 DEF Inv, Settling, AtMostTwoWindowsLost
    <3>10. StepsLogged'
          BY <1>1, <1>3, <2>1 DEF Inv, StepsLogged
    <3>. QED  BY <3>7, <3>8, <3>9, <3>10 DEF Inv
  <2>. QED  BY <2>2, <2>3
<1>7. ASSUME NEW s \in Series, SendLine(s)
      PROVE  Inv'
  <2>1. /\ wpc = "send" /\ wpc' = "emit" /\ line' = {}
        /\ snapshot' = Restrict(snapshot, DOMAIN snapshot \ {s})
        /\ UNCHANGED <<emit_cb, accum, sender, slot, published, newest, mark, settled>>
        BY <1>7 DEF SendLine
  <2>2. s \in DOMAIN snapshot
        BY <1>2, <1>7 DEF SendLine, Types, TypeOK
  <2>3. /\ AreWindow(snapshot') /\ DOMAIN snapshot' = DOMAIN snapshot \ {s}
        /\ Held(snapshot', s) = 0
        /\ \A x \in Series \ {s} : Held(snapshot', x) = Held(snapshot, x)
    <3>1. AreWindow(snapshot) /\ snapshot' = Restrict(snapshot, DOMAIN snapshot \ {s})
          BY <1>2, <2>1 DEF Types
    <3>2. Shrunk(snapshot, s, snapshot')
          BY <2>2, <3>1, RestrictedWindow, Zenon
    <3>. QED  BY <3>2 DEF Shrunk
  <2>4. /\ snapshot[s].sum = Held(snapshot, s) /\ Held(snapshot, s) \in Nat
        /\ snapshot[s].latest_ts \in Nat
        BY <1>2, <2>2, WindowIs DEF Types, Point
  <2>5. mpc # "exit"
        BY <1>2, <2>1 DEF Types, TypeOK
  <2>6. StepsLogged'
        BY <1>1, <1>3, <2>1 DEF Inv, StepsLogged
  <2>7. CASE sender = "up"
    <3>1. /\ sent' = [sent EXCEPT ![s] = @ + snapshot[s].sum]
          /\ emitted_ts' = [emitted_ts EXCEPT ![s] = snapshot[s].latest_ts]
          /\ dropped' = dropped
          BY <1>7, <2>7 DEF SendLine
    <3>2. /\ sent' \in [Series -> Nat] /\ emitted_ts' \in [Series -> Nat]
          /\ sent'[s] = sent[s] + Held(snapshot, s)
          /\ \A x \in Series \ {s} : sent'[x] = sent[x]
          BY <1>2, <2>4, <3>1 DEF Types
    <3>3. Types' /\ Stages'
          BY <1>1, <1>2, <2>1, <2>3, <2>5, <3>1, <3>2 DEF Types, TypeOK
    <3>4. Balanced'
      <4>. SUFFICES ASSUME NEW x \in Series
                    PROVE  published'[x] = sent'[x] + dropped'[x] + Held(accum', x)
                                           + Held(snapshot', x)
           BY <2>1, <2>3, <2>4, <3>1, <3>2 DEF Inv, Balanced
      <4>1. published[x] = sent[x] + dropped[x] + Held(accum, x) + Held(snapshot, x)
            BY DEF Inv, Balanced
      <4>2. /\ Held(accum, x) \in Nat /\ Held(snapshot, x) \in Nat
            /\ sent[x] \in Nat /\ dropped[x] \in Nat
            BY <1>2, WindowIs DEF Types
      <4>3. Held(accum', x) = Held(accum, x) /\ published'[x] = published[x]
            BY <2>1
      <4>4. CASE x = s
            BY <2>1, <2>3, <2>4, <3>1, <3>2, <4>1, <4>2, <4>3, <4>4
      <4>5. CASE x # s
            BY <2>1, <2>3, <2>4, <3>1, <3>2, <4>1, <4>2, <4>3, <4>5
      <4>. QED  BY <4>4, <4>5
    <3>5. Settling'
      <4>. SUFFICES ASSUME NEW x \in Series
                    PROVE  /\ dropped'[x] = 0
                           /\ mark'[x] <= sent'[x] + Held(snapshot', x)
                           /\ sent'[x] >= settled'[x]
           BY DEF Settling, AtMostTwoWindowsLost
      <4>1. /\ dropped[x] = 0 /\ mark[x] <= sent[x] + Held(snapshot, x)
            /\ sent[x] >= settled[x]
            BY <2>7 DEF Inv, Settling, AtMostTwoWindowsLost
      <4>2. /\ Held(snapshot, x) \in Nat /\ sent[x] \in Nat
            /\ mark[x] \in Nat /\ settled[x] \in Nat
            BY <1>2, WindowIs DEF Types
      <4>3. CASE x = s
            BY <2>1, <2>3, <2>4, <3>1, <3>2, <4>1, <4>2, <4>3
      <4>4. CASE x # s
            BY <2>1, <2>3, <2>4, <3>1, <3>2, <4>1, <4>2, <4>4
      <4>. QED  BY <4>3, <4>4
    <3>. QED  BY <2>6, <3>3, <3>4, <3>5 DEF Inv
  <2>8. CASE sender # "up"
    <3>1. /\ dropped' = [dropped EXCEPT ![s] = @ + snapshot[s].sum]
          /\ UNCHANGED <<sent, emitted_ts>>
          BY <1>7, <2>8 DEF SendLine
    <3>2. /\ dropped' \in [Series -> Nat]
          /\ dropped'[s] = dropped[s] + Held(snapshot, s)
          /\ \A x \in Series \ {s} : dropped'[x] = dropped[x]
          BY <1>2, <2>4, <3>1 DEF Types
    <3>3. Types' /\ Stages'
          BY <1>1, <1>2, <2>1, <2>3, <2>5, <3>1, <3>2 DEF Types, TypeOK
    <3>4. Balanced'
      <4>. SUFFICES ASSUME NEW x \in Series
                    PROVE  published'[x] = sent'[x] + dropped'[x] + Held(accum', x)
                                           + Held(snapshot', x)
           BY <2>1, <2>3, <2>4, <3>1, <3>2 DEF Inv, Balanced
      <4>1. published[x] = sent[x] + dropped[x] + Held(accum, x) + Held(snapshot, x)
            BY DEF Inv, Balanced
      <4>2. /\ Held(accum, x) \in Nat /\ Held(snapshot, x) \in Nat
            /\ sent[x] \in Nat /\ dropped[x] \in Nat
            BY <1>2, WindowIs DEF Types
      <4>3. Held(accum', x) = Held(accum, x) /\ published'[x] = published[x]
            BY <2>1
      <4>4. CASE x = s
            BY <2>1, <2>3, <2>4, <3>1, <3>2, <4>1, <4>2, <4>3, <4>4
      <4>5. CASE x # s
            BY <2>1, <2>3, <2>4, <3>1, <3>2, <4>1, <4>2, <4>3, <4>5
      <4>. QED  BY <4>4, <4>5
    <3>5. sender # "none"
          BY <1>2, <2>1
    <3>6. Settling'
          BY <2>1, <2>8, <3>1, <3>5 DEF Inv, Settling, AtMostTwoWindowsLost, Types
    <3>. QED  BY <2>6, <3>3, <3>4, <3>6 DEF Inv
  <2>. QED  BY <2>7, <2>8
<1>. QED  BY <1>4, <1>5, <1>6, <1>7 DEF Working, Worker
-----------------------------------------------------------------------------
LEMMA NextInv == Inv /\ [Next]_vars => Inv'
<1>. SUFFICES ASSUME Inv, [Next]_vars PROVE Inv'
     OBVIOUS
<1>1. CASE Main
      BY <1>1, MainInv
<1>2. CASE Ticking
      BY <1>2, ClockInv, StepMacInv, StepUeInv, StepLogInv DEF Ticking
<1>3. CASE Working
      BY <1>3, WorkerInv
<1>4. CASE UNCHANGED vars
  <2>1. UNCHANGED <<tickerVars, telemetryVars, mpc, enabled, counters>>
        BY <1>4 DEF vars
  <2>2. Types' /\ Stages'
        BY <2>1 DEF Inv, Types, TypeOK, InStep, Stages, tickerVars, telemetryVars, setup,
                    clockwork, windows, tallies, counters
  <2>3. UNCHANGED Logged
        BY <2>1 DEF Logged, tickerVars, counters
  <2>4. UNCHANGED <<windows, tallies, enabled, sender, emit_cb>>
        BY <2>1 DEF telemetryVars
  <2>. QED  BY <2>2, <2>3, <2>4, KeepsAccounts
<1>. QED  BY <1>1, <1>2, <1>3, <1>4 DEF Next, Terminated

LEMMA Always == Spec => []Inv
BY InitInv, NextInv, PTL DEF Spec

(* Types, and where the threads can be: the ticker is in a step only while  *)
(* main() waits, and is joined before the UEs and the MAC are destroyed.    *)
THEOREM TypeCorrect == Spec => []TypeOK
<1>1. Inv => TypeOK
      BY DEF Inv, Types
<1>. QED  BY <1>1, Always, PTL

(* A multiple is what is left over of nothing.                              *)
LEMMA MultipleMod ==
    ASSUME NEW k \in Nat, NEW m \in Nat \ {0}
    PROVE  (k * m) % m = 0
<1>1. PICK q, r \in Int : q = (k * m) \div m /\ r = (k * m) % m
      OBVIOUS
<1>2. /\ k * m = m * q + r /\ 0 <= r /\ r < m
      BY <1>1
<1>3. r = m * (k - q)
      BY <1>2
<1>4. k - q = 0 \/ k - q >= 1 \/ k - q <= -1
      OBVIOUS
<1>5. ~ k - q >= 1
      BY <1>2, <1>3
<1>6. ~ k - q <= -1
      BY <1>2, <1>3
<1>. QED  BY <1>1, <1>3, <1>4, <1>5, <1>6

(* Every point published is in the window, in the snapshot, in a line sent  *)
(* or in a line dropped, and every step of the simulator in a point, in     *)
(* step_c, or under way.                                                    *)
THEOREM NothingUncounted == Spec => []StepsAccounted
<1>1. Inv => StepsAccounted
  <2>. SUFFICES ASSUME Inv PROVE StepsAccounted
       OBVIOUS
  <2>1. CASE enabled /\ EmitRuntime
        BY <2>1 DEF Inv, Balanced, StepsLogged, Logged, StepsAccounted
  <2>2. CASE ~(enabled /\ EmitRuntime)
    <3>1. PICK n \in Nat : Logged = n * Freq
          BY <2>2 DEF Inv, StepsLogged
    <3>2. Logged % Freq = 0
          BY <3>1, MultipleMod, EmulatorAssumption
    <3>. QED  BY <2>2, <3>2 DEF Inv, Balanced, Logged, StepsAccounted
  <2>. QED  BY <2>1, <2>2
<1>. QED  BY <1>1, Always, PTL

(* What was published before the worker's last but one swap with the sender *)
(* up has been sent, whenever the destructors run.                          *)
THEOREM TwoWindowsAtMost == Spec => []AtMostTwoWindowsLost
<1>1. Inv => AtMostTwoWindowsLost
      BY DEF Inv, Settling
<1>. QED  BY <1>1, Always, PTL
-----------------------------------------------------------------------------
(* Time.  What has been stamped by some time has been by any later one.     *)
LEMMA PointsByLater ==
    ASSUME Types, NEW t \in Int, NEW u \in Int, t <= u, PointsBy(t)
    PROVE  PointsBy(u)
<1>1. /\ \A s \in Series : emitted_ts[s] \in Nat
      /\ \A s \in DOMAIN accum : accum[s].last_ts \in Nat /\ accum[s].latest_ts \in Nat
      /\ \A s \in DOMAIN snapshot : snapshot[s].latest_ts \in Nat
      /\ DOMAIN accum \subseteq Series
      BY WindowIs DEF Types, Point
<1>. QED  BY <1>1 DEF PointsBy

LEMMA PointsByLaterNext ==
    ASSUME Types', NEW t \in Int, NEW u \in Int, t <= u, PointsBy(t)'
    PROVE  PointsBy(u)'
<1>1. /\ \A s \in Series : emitted_ts'[s] \in Nat
      /\ \A s \in DOMAIN accum' : accum'[s].last_ts \in Nat /\ accum'[s].latest_ts \in Nat
      /\ \A s \in DOMAIN snapshot' : snapshot'[s].latest_ts \in Nat
      /\ DOMAIN accum' \subseteq Series
      BY WindowIs DEF Types, Point
<1>. QED  BY <1>1 DEF PointsBy

LEMMA ClockIsInt == Types => Clock \in Int
BY EmulatorAssumption DEF Types, TypeOK, Clock

(* A point with the latest stamp of all.                                    *)
LEMMA PublishStamped ==
    ASSUME Types, NEW t \in Nat, PointsBy(t),
           NEW s \in Series, NEW v \in Nat, NEW last \in Nat, NEW wall \in Nat,
           Publish(s, v, last, wall), t = Stamp(wall)
    PROVE  PointsBy(t)'
<1>1. Pointed(s, v, last, t)
      BY PublishIs, Zenon DEF Types
<1>2. /\ newest' = [newest EXCEPT ![s] = last] /\ newest \in [Series -> Nat]
      /\ UNCHANGED <<snapshot, emitted_ts>>
      BY DEF Publish, Types
<1>3. /\ \A x \in Series : emitted_ts[x] \in Nat /\ emitted_ts[x] <= t
      /\ \A x \in DOMAIN accum :
           /\ accum[x].last_ts \in Nat /\ accum[x].latest_ts \in Nat
           /\ accum[x].last_ts <= t /\ accum[x].latest_ts <= t
           /\ accum[x].last = newest[x] /\ accum[x].latest_ts >= emitted_ts[x]
           /\ x \in DOMAIN snapshot => snapshot[x].latest_ts <= accum[x].latest_ts
      /\ \A x \in DOMAIN snapshot :
           snapshot[x].latest_ts \in Nat /\ snapshot[x].latest_ts <= t
      /\ DOMAIN accum \subseteq Series /\ DOMAIN snapshot \subseteq Series
      BY WindowIs DEF Types, Point, PointsBy
<1>4. /\ DOMAIN accum' = DOMAIN accum \union {s}
      /\ \A x \in DOMAIN accum \ {s} : accum'[x] = accum[x]
      /\ accum'[s].latest_ts = t /\ accum'[s].last = last /\ accum'[s].last_ts = t
      BY <1>1, <1>3 DEF Pointed
<1>5. ASSUME NEW x \in DOMAIN accum'
      PROVE  /\ accum'[x].last_ts <= t /\ accum'[x].latest_ts <= t
             /\ accum'[x].last = newest'[x] /\ accum'[x].latest_ts >= emitted_ts'[x]
             /\ x \in DOMAIN snapshot' =>
                  snapshot'[x].latest_ts <= accum'[x].latest_ts
  <2>1. CASE x = s
        BY <1>2, <1>3, <1>4, <2>1
  <2>2. CASE x # s
        BY <1>2, <1>3, <1>4, <1>5, <2>2
  <2>. QED  BY <2>1, <2>2
<1>. QED  BY <1>2, <1>3, <1>5 DEF PointsBy

(* Steps that leave the clock and the points alone.                         *)
LEMMA TimeStill ==
    ASSUME NEW gap, TimeInv(gap),
           UNCHANGED <<setup, now, count, current_ts, previous_ts, slot, accum,
                       snapshot, newest, emitted_ts, next_progress>>,
           tpc' = tpc \/ (tpc = "off" /\ tpc' = "entry")
    PROVE  TimeInv(gap)'
<1>1. UNCHANGED Clock
      BY DEF Clock, setup
<1>2. ~Infinite => Stamped'
      BY <1>1 DEF TimeInv, Stamped, PointsBy, setup
<1>3. ~Infinite => OnTime(gap)'
      BY DEF TimeInv, OnTime, setup, InStep
<1>4. Progressed'
      BY DEF TimeInv, Progressed
<1>. QED  BY <1>2, <1>3, <1>4 DEF TimeInv, Infinite, setup

LEMMA TimeInit ==
    ASSUME NEW gap, StepsFit(gap), Init
    PROVE  TimeInv(gap)
<1>. USE EmulatorAssumption, TickerAssumption
<1>1. /\ now = 0 /\ tpc = "off" /\ count = 0 /\ current_ts = 0 /\ previous_ts = 0
      /\ accum = Nothing /\ snapshot = Nothing /\ emitted_ts = Zero
      BY DEF Init, TickerInit, TelemetryInit
<1>2. PICK c \in Configs : period = c.period /\ goal \in Goals(c.duration)
      BY DEF Init
<1>3. c.duration \in Int /\ c.period \in Int
      OBVIOUS
<1>4. goal \in Int /\ goal <= IntMax
      BY <1>2, <1>3 DEF Goals
<1>5. OnTime(gap)
      BY <1>1, <1>2, <1>4 DEF OnTime, InStep, StepsFit
<1>6. Stamped
  <2>1. Clock \in Nat
        BY <1>1 DEF Clock
  <2>. QED  BY <1>1, <2>1, NothingIsWindow DEF Stamped, PointsBy, Zero
<1>7. Progressed
      BY <1>1 DEF Progressed
<1>. QED  BY <1>5, <1>6, <1>7 DEF TimeInv

LEMMA MainTime ==
    ASSUME NEW gap, Inv, TimeInv(gap), Main
    PROVE  TimeInv(gap)'
<1>1. UNCHANGED <<setup, now, count, current_ts, previous_ts, slot, accum,
                  snapshot, newest, emitted_ts, next_progress>>
      BY DEF Main, Construct, Start, WaitFinished, DestroyTimer, DestroyMonitoring,
             MainGoes, InitMonitoring, SetEmitCallback, TimerStart, DeleteSender,
             ClearSender, StopWorker, tickerVars, telemetryVars, setup, clockwork,
             windows, tallies, counters
<1>2. tpc' = tpc \/ (tpc = "off" /\ tpc' = "entry")
      BY DEF Inv, Stages, Main, Construct, Start, WaitFinished, DestroyTimer,
             DestroyMonitoring, MainGoes, TimerStart, tickerVars
<1>. QED  BY <1>1, <1>2, TimeStill

LEMMA WorkerTime ==
    ASSUME NEW gap, Inv, TimeInv(gap), Working
    PROVE  TimeInv(gap)'
<1>1. UNCHANGED <<setup, now, count, current_ts, previous_ts, tpc, next_progress>>
      BY DEF Working, tickerVars, clockwork, counters
<1>2. Types /\ Types'
      BY WorkerInv DEF Inv
<1>3. UNCHANGED Clock /\ Clock \in Int
      BY <1>1, <1>2, ClockIsInt DEF Clock, setup
<1>4. ASSUME UNCHANGED slot, ~Infinite => PointsBy(Clock)'
      PROVE  TimeInv(gap)'
  <2>1. ~Infinite => OnTime(gap)'
        BY <1>1 DEF TimeInv, OnTime, setup, InStep
  <2>2. ~Infinite => Stamped'
        BY <1>1, <1>3, <1>4 DEF TimeInv, Stamped, setup
  <2>. QED  BY <1>1, <2>1, <2>2 DEF TimeInv, Progressed, Infinite, setup
<1>5. CASE WorkerTest \/ WindowEmitted
  <2>1. UNCHANGED <<slot, accum, snapshot, newest, emitted_ts>>
        BY <1>5 DEF WorkerTest, WindowEmitted, windows, tallies
  <2>. QED  BY <1>1, <2>1, TimeStill
<1>6. CASE SwapWindow
  <2>1. /\ snapshot' = accum /\ DOMAIN accum' = {} /\ UNCHANGED <<slot, emitted_ts>>
        BY <1>6, NothingIsWindow DEF SwapWindow
  <2>2. PointsBy(Clock) => PointsBy(Clock)'
        BY <1>3, <2>1 DEF PointsBy
  <2>. QED  BY <1>4, <2>1, <2>2 DEF TimeInv, Stamped
<1>7. ASSUME NEW s \in Series, Emit(s)
      PROVE  TimeInv(gap)'
  <2>1. /\ s \in DOMAIN snapshot /\ UNCHANGED <<slot, accum, newest, emitted_ts>>
        /\ snapshot' = snapshot \/ snapshot' = Restrict(snapshot, DOMAIN snapshot \ {s})
        BY <1>7 DEF Emit
  <2>2. /\ DOMAIN snapshot' \subseteq DOMAIN snapshot
        /\ \A x \in DOMAIN snapshot' : snapshot'[x] = snapshot[x]
        BY <2>1 DEF Restrict
  <2>3. PointsBy(Clock) => PointsBy(Clock)'
        BY <1>3, <2>1, <2>2 DEF PointsBy
  <2>. QED  BY <1>4, <2>1, <2>3 DEF TimeInv, Stamped
<1>8. ASSUME NEW s \in Series, SendLine(s)
      PROVE  TimeInv(gap)'
  <2>1. /\ wpc = "send" /\ s \in line /\ UNCHANGED <<slot, accum, newest>>
        /\ snapshot' = Restrict(snapshot, DOMAIN snapshot \ {s})
        /\ \/ emitted_ts' = [emitted_ts EXCEPT ![s] = snapshot[s].latest_ts]
           \/ emitted_ts' = emitted_ts
        BY <1>8 DEF SendLine
  <2>2. /\ s \in DOMAIN snapshot /\ DOMAIN snapshot' = DOMAIN snapshot \ {s}
        /\ \A x \in DOMAIN snapshot' : snapshot'[x] = snapshot[x]
        BY <1>2, <2>1 DEF Restrict, Types, TypeOK
  <2>3. /\ \A x \in Series : emitted_ts[x] \in Nat
        /\ emitted_ts \in [Series -> Nat]
        /\ \A x \in DOMAIN accum : accum[x].latest_ts \in Nat
        /\ \A x \in DOMAIN snapshot : snapshot[x].latest_ts \in Nat
        /\ DOMAIN accum \subseteq Series
        BY <1>2, WindowIs DEF Types, Point
  <2>4. /\ \A x \in Series \ {s} : emitted_ts'[x] = emitted_ts[x]
        /\ emitted_ts'[s] \in {emitted_ts[s], snapshot[s].latest_ts}
        BY <2>1, <2>3
  <2>5. PointsBy(Clock) => PointsBy(Clock)'
    <3>1. ASSUME PointsBy(Clock)
          PROVE  /\ \A x \in Series : emitted_ts'[x] <= Clock
                 /\ \A x \in DOMAIN accum : accum[x].latest_ts >= emitted_ts'[x]
          BY <2>2, <2>3, <2>4, <3>1 DEF PointsBy
    <3>. QED  BY <1>3, <2>1, <2>2, <3>1 DEF PointsBy
  <2>. QED  BY <1>4, <2>1, <2>5 DEF TimeInv, Stamped
<1>. QED  BY <1>5, <1>6, <1>7, <1>8 DEF Working, Worker
-----------------------------------------------------------------------------
(* The ticker thread keeps time.                                            *)
LEMMA SmallRemainder ==
    ASSUME NEW n \in Nat, NEW m \in Nat \ {0}, n < m
    PROVE  n % m = n
OBVIOUS

LEMMA OneMore ==
    ASSUME NEW n \in Int, NEW m \in Int
    PROVE  m * (n + 1) = n * m + m /\ (n + 1) * m = n * m + m /\ 0 * m = 0
           /\ n * m \in Int
OBVIOUS

(* Points keep their order when the clock goes on.                          *)
LEMMA TickForward ==
    ASSUME Types, Stamped, tpc' \notin {"ue", "log"}, Clock \in Int, Clock' \in Int,
           Clock <= Clock', UNCHANGED <<accum, snapshot, newest, emitted_ts>>
    PROVE  Stamped'
<1>1. PICK u \in Int : u = Clock'
      OBVIOUS
<1>2. PointsBy(u)
      BY <1>1, PointsByLater DEF Stamped
<1>3. PointsBy(Clock)'
      BY <1>1, <1>2 DEF PointsBy
<1>. QED  BY <1>3 DEF Stamped

LEMMA EnterTime ==
    ASSUME NEW gap, Inv, StepsFit(gap), TimeInv(gap), Enter,
           UNCHANGED <<telemetryVars, mpc, enabled, counters>>
    PROVE  TimeInv(gap)'
<1>1. /\ tpc = "entry" /\ tpc' = "test"
      /\ UNCHANGED <<period, goal, do_wait, now, count, current_ts, previous_ts>>
      /\ UNCHANGED <<slot, accum, snapshot, newest, emitted_ts, next_progress>>
      BY DEF Enter, setup, telemetryVars, windows, tallies, counters
<1>2. UNCHANGED Clock
      BY <1>1 DEF Clock
<1>3. ASSUME ~Infinite
      PROVE  OnTime(gap)' /\ Stamped'
  <2>1. OnTime(gap) /\ Stamped
        BY <1>3 DEF TimeInv
  <2>2. period \in Int /\ gap \in Nat
        BY DEF Inv, Types, StepsFit
  <2>3. 0 * period = 0 /\ 0 * Milli = 0 /\ Milli \in Nat
        BY <2>2, TickerAssumption
  <2>4. OnTime(gap)'
        BY <1>1, <2>1, <2>2, <2>3 DEF OnTime, InStep
  <2>5. Stamped'
        BY <1>1, <1>2, <2>1 DEF Stamped, PointsBy
  <2>. QED  BY <2>4, <2>5
<1>. QED  BY <1>1, <1>3 DEF TimeInv, Progressed, Infinite

LEMMA FinishTime ==
    ASSUME NEW gap, Inv, TimeInv(gap), FinishTicker,
           UNCHANGED <<telemetryVars, mpc, enabled, counters>>
    PROVE  TimeInv(gap)'
<1>1. /\ tpc = "test" /\ tpc' = "done"
      /\ UNCHANGED <<period, goal, do_wait, now, count, current_ts, previous_ts>>
      /\ UNCHANGED <<slot, accum, snapshot, newest, emitted_ts, next_progress>>
      BY DEF FinishTicker, setup, telemetryVars, windows, tallies, counters
<1>2. UNCHANGED Clock
      BY <1>1 DEF Clock
<1>3. ASSUME ~Infinite
      PROVE  OnTime(gap)' /\ Stamped'
  <2>1. OnTime(gap) /\ Stamped
        BY <1>3 DEF TimeInv
  <2>2. OnTime(gap)'
        BY <1>1, <2>1 DEF OnTime, InStep
  <2>3. Stamped'
        BY <1>1, <1>2, <2>1 DEF Stamped, PointsBy
  <2>. QED  BY <2>2, <2>3
<1>. QED  BY <1>1, <1>3 DEF TimeInv, Progressed, Infinite

(* A tick starts with a timestamp that does not wrap.                       *)
LEMMA BeginTime ==
    ASSUME NEW gap, Inv, StepsFit(gap), TimeInv(gap), BeginTick,
           UNCHANGED <<telemetryVars, mpc, enabled, counters>>
    PROVE  TimeInv(gap)'
<1>1. /\ tpc = "test" /\ tpc' = "mac" /\ current_ts' = Timestamp /\ GoesOn
      /\ UNCHANGED <<period, goal, do_wait, now, count, previous_ts>>
      /\ UNCHANGED <<slot, accum, snapshot, newest, emitted_ts, next_progress>>
      BY DEF BeginTick, setup, telemetryVars, windows, tallies, counters
<1>2. Types /\ gap \in Nat /\ IntMax + gap < Wrap /\ Milli <= gap
      BY DEF Inv, StepsFit
<1>3. /\ goal \in Int /\ now \in Nat /\ count \in Nat /\ Milli \in Nat
      /\ Wrap \in Nat \ {0} /\ IntMax \in Nat /\ previous_ts \in Nat
      /\ current_ts \in Nat /\ InitT \in Nat
      BY <1>2, TickerAssumption, EmulatorAssumption DEF Types, TypeOK
<1>4. ASSUME ~Infinite
      PROVE  OnTime(gap)' /\ Stamped'
  <2>1. OnTime(gap) /\ Stamped
        BY <1>4 DEF TimeInv
  <2>2. previous_ts < goal /\ goal <= IntMax /\ previous_ts = current_ts
        BY <1>1, <1>4, <2>1 DEF GoesOn, OnTime
  <2>3. CASE do_wait
    <3>1. /\ now <= previous_ts + gap /\ count * period <= now
          /\ current_ts <= now
          BY <1>1, <2>1, <2>2, <2>3 DEF OnTime
    <3>2. now < Wrap
          BY <1>2, <1>3, <2>2, <3>1
    <3>3. current_ts' = now
          BY <1>1, <1>3, <2>3, <3>2, SmallRemainder DEF Timestamp, CurrentTs
    <3>4. OnTime(gap)'
          BY <1>1, <1>3, <2>1, <2>2, <2>3, <3>1, <3>3 DEF OnTime, InStep
    <3>5. Clock <= Clock' /\ Clock \in Int /\ Clock' \in Int
          BY <1>1, <1>3, <2>3, <3>1, <3>3 DEF Clock
    <3>. QED  BY <1>1, <1>2, <2>1, <3>4, <3>5, TickForward
  <2>4. CASE ~do_wait
    <3>1. previous_ts <= count * Milli /\ count * Milli <= previous_ts + Milli
          BY <1>1, <2>1, <2>2, <2>4 DEF OnTime
    <3>2. count * Milli \in Nat
          BY <1>3
    <3>3. count * Milli < Wrap
          BY <1>2, <1>3, <2>2, <3>1, <3>2
    <3>4. current_ts' = count * Milli
          BY <1>1, <1>3, <2>4, <3>2, <3>3, SmallRemainder DEF Timestamp
    <3>5. OnTime(gap)'
          BY <1>1, <1>3, <2>1, <2>2, <2>4, <3>1, <3>2, <3>4 DEF OnTime, InStep
    <3>6. Clock' = Clock /\ Clock \in Int
          BY <1>1, <1>3, <2>4 DEF Clock
    <3>. QED  BY <1>1, <1>2, <2>1, <3>5, <3>6, TickForward
  <2>. QED  BY <2>3, <2>4
<1>. QED  BY <1>1, <1>4 DEF TimeInv, Progressed, Infinite

(* After a tick the next one is due a period after this one was.            *)
LEMMA EndTime ==
    ASSUME NEW gap, Inv, StepsFit(gap), TimeInv(gap), EndTick,
           UNCHANGED <<telemetryVars, mpc, enabled, counters>>
    PROVE  TimeInv(gap)'
<1>1. /\ tpc = "sleep" /\ tpc' = "test" /\ previous_ts' = current_ts /\ count' = count + 1
      /\ UNCHANGED <<period, goal, do_wait, current_ts>>
      /\ UNCHANGED <<slot, accum, snapshot, newest, emitted_ts, next_progress>>
      BY DEF EndTick, setup, telemetryVars, windows, tallies, counters
<1>2. Types /\ gap \in Nat /\ IntMax + gap < Wrap
      BY DEF Inv, StepsFit
<1>3. /\ goal \in Int /\ now \in Nat /\ count \in Nat /\ Milli \in Nat
      /\ Wrap \in Nat \ {0} /\ IntMax \in Nat /\ period \in Int
      /\ current_ts \in Nat /\ InitT \in Nat /\ Oversleep \subseteq Nat
      BY <1>2, TickerAssumption, EmulatorAssumption DEF Types, TypeOK
<1>4. ASSUME ~Infinite
      PROVE  OnTime(gap)' /\ Stamped'
  <2>1. OnTime(gap) /\ Stamped
        BY <1>4 DEF TimeInv
  <2>2. goal <= IntMax /\ \A l \in Oversleep \union {0} : period + l <= gap
        BY <2>1 DEF OnTime
  <2>3. CASE do_wait
    <3>1. PICK wait \in Nat, late \in Oversleep \union {0} :
             /\ wait = WaitFinite /\ now' = now + wait + late
             /\ wait = 0 => late = 0
          BY <1>2, <1>4, <2>3, WaitsAreNat DEF EndTick
    <3>2. PICK a, b \in Costs : now = current_ts + a + b
          BY <1>1, <2>1, <2>3 DEF OnTime
    <3>3. a \in Nat /\ b \in Nat /\ late \in Nat /\ a + b <= gap /\ period + late <= gap
      <4>1. a \in Nat /\ b \in Nat /\ late \in Nat
            BY <1>3, EmulatorAssumption
      <4>2. a + b + 0 <= gap /\ period + late <= gap
            BY <2>2 DEF StepsFit
      <4>. QED  BY <4>1, <4>2
    <3>4. current_ts <= now'
          BY <1>3, <3>1, <3>2, <3>3
    <3>5. count * period <= current_ts
          BY <1>1, <2>1, <2>3 DEF OnTime, InStep
    <3>6. ASSUME current_ts < goal
          PROVE  now' <= current_ts + gap /\ count' * period <= now'
      <4>1. PICK d \in Int : d = period * (count + 1) /\ d = count' * period
                             /\ d = count * period + period
            BY <1>1, <1>3, OneMore
      <4>2. d <= current_ts + period
            BY <1>3, <3>5, <4>1, OneMore
      <4>3. now < Wrap
            BY <1>2, <1>3, <2>2, <3>2, <3>3, <3>6
      <4>4. CurrentTs(now) = now
            BY <1>3, <4>3, SmallRemainder DEF CurrentTs
      <4>5. wait = Max({0, d - now})
            BY <3>1, <4>1, <4>4 DEF WaitFinite
      <4>6. d - now \in Int /\ 0 \in Int
            BY <1>3
      <4>7. wait \in {0, d - now} /\ wait >= 0 /\ wait >= d - now
            BY <4>5, <4>6, MaxOfTwo, Zenon
      <4>8. CASE wait = 0
            BY <1>2, <1>3, <3>1, <3>2, <3>3, <4>1, <4>7, <4>8
      <4>9. CASE wait = d - now
            BY <1>2, <1>3, <3>1, <3>2, <3>3, <4>1, <4>2, <4>9
      <4>. QED  BY <4>7, <4>8, <4>9
    <3>7. OnTime(gap)'
          BY <1>1, <1>3, <2>1, <2>3, <3>4, <3>6 DEF OnTime, InStep
    <3>8. Clock' = Clock /\ Clock \in Int
          BY <1>1, <1>3, <2>3 DEF Clock
    <3>. QED  BY <1>1, <1>2, <2>1, <3>7, <3>8, TickForward
  <2>4. CASE ~do_wait
    <3>1. now' = now
          BY <2>4 DEF EndTick
    <3>2. current_ts = count * Milli
          BY <1>1, <2>1, <2>4 DEF OnTime, InStep
    <3>3. count' * Milli = current_ts + Milli
          BY <1>1, <1>3, <3>2, OneMore
    <3>4. OnTime(gap)'
          BY <1>1, <1>3, <2>1, <2>4, <3>1, <3>3 DEF OnTime, InStep
    <3>5. Clock' = Clock /\ Clock \in Int
          BY <1>1, <1>3, <2>4, <3>1 DEF Clock
    <3>. QED  BY <1>1, <1>2, <2>1, <3>4, <3>5, TickForward
  <2>. QED  BY <2>3, <2>4
<1>. QED  BY <1>1, <1>4 DEF TimeInv, Progressed, Infinite

LEMMA StepMacTime ==
    ASSUME NEW gap, Inv, TimeInv(gap), StepMac
    PROVE  TimeInv(gap)'
<1>1. /\ tpc = "mac" /\ tpc' = "ue"
      /\ slot' = IF do_wait THEN InitT + current_ts ELSE 0
      /\ UNCHANGED <<period, goal, do_wait, count, current_ts, previous_ts>>
      /\ UNCHANGED <<accum, snapshot, newest, emitted_ts, next_progress>>
      BY DEF StepMac, setup, clockwork, windows, tallies
<1>2. PICK cost \in Costs : now' = now + cost
      BY DEF StepMac, Spend
<1>3. /\ Types /\ cost \in Nat /\ now \in Nat /\ current_ts \in Nat /\ InitT \in Nat
      BY EmulatorAssumption, TickerAssumption DEF Inv, Types, TypeOK
<1>4. ASSUME ~Infinite
      PROVE  OnTime(gap)' /\ Stamped'
  <2>1. OnTime(gap) /\ Stamped
        BY <1>4 DEF TimeInv
  <2>2. do_wait => now = current_ts
        BY <1>1, <2>1 DEF OnTime
  <2>3. OnTime(gap)'
        BY <1>1, <1>2, <1>3, <2>1, <2>2 DEF OnTime, InStep
  <2>4. Clock <= Clock' /\ Clock \in Int /\ Clock' \in Int
        BY <1>1, <1>2, <1>3 DEF Clock
  <2>5. PointsBy(Clock)'
    <3>1. PICK u \in Int : u = Clock'
          BY <2>4
    <3>2. PointsBy(u)
          BY <1>3, <2>1, <2>4, <3>1, PointsByLater DEF Stamped
    <3>. QED  BY <1>1, <3>1, <3>2 DEF PointsBy
  <2>. QED  BY <1>1, <2>3, <2>5 DEF Stamped
<1>. QED  BY <1>1, <1>4 DEF TimeInv, Progressed, Infinite

(* The stamp of a point published in a step is the latest so far.           *)
LEMMA StampIsClock ==
    ASSUME Types, Stamped, tpc \in {"ue", "log"}
    PROVE  /\ Stamp(InitT + now) = Clock /\ Clock \in Nat
           /\ InitT + now \in Nat
<1>1. now \in Nat /\ current_ts \in Nat /\ InitT \in Nat \ {0}
      BY EmulatorAssumption, TickerAssumption DEF Types, TypeOK
<1>2. slot = IF do_wait THEN InitT + current_ts ELSE 0
      BY DEF Stamped
<1>3. CASE do_wait
      BY <1>1, <1>2, <1>3 DEF Stamp, Clock
<1>4. CASE ~do_wait
      BY <1>1, <1>2, <1>4 DEF Stamp, Clock
<1>. QED  BY <1>3, <1>4

LEMMA StepUeTime ==
    ASSUME NEW gap, Inv, TimeInv(gap), StepUe
    PROVE  TimeInv(gap)'
<1>1. /\ tpc = "ue" /\ tpc' = "log"
      /\ UNCHANGED <<period, goal, do_wait, count, current_ts, previous_ts>>
      /\ UNCHANGED <<next_progress, total_steps>>
      BY DEF StepUe, setup, clockwork, counters
<1>2. PICK cost \in Costs : now' = now + cost
      BY DEF StepUe, Spend
<1>3. /\ Types /\ Types' /\ cost \in Nat /\ now \in Nat /\ current_ts \in Nat
      /\ InitT \in Nat
      BY StepUeInv, EmulatorAssumption, TickerAssumption DEF Inv, Types, TypeOK
<1>4. ASSUME ~Infinite
      PROVE  OnTime(gap)' /\ Stamped'
  <2>1. OnTime(gap) /\ Stamped
        BY <1>4 DEF TimeInv
  <2>2. do_wait => \E a \in Costs : now = current_ts + a
        BY <1>1, <2>1 DEF OnTime
  <2>3. OnTime(gap)'
        BY <1>1, <1>2, <1>3, <2>1, <2>2 DEF OnTime, InStep
  <2>4. Clock <= Clock' /\ Clock \in Int /\ Clock' \in Int
        BY <1>1, <1>2, <1>3 DEF Clock
  <2>5. slot' = slot /\ PointsBy(Clock)'
    <3>1. PICK t \in Nat : t = Clock /\ t = Stamp(InitT + now) /\ InitT + now \in Nat
          BY <1>1, <1>3, <2>1, StampIsClock
    <3>2. PointsBy(t)
          BY <2>1, <3>1 DEF Stamped
    <3>3. slot' = slot /\ PointsBy(t)'
      <4>1. CASE UNCHANGED telemetryVars
            BY <3>2, <4>1 DEF telemetryVars, windows, tallies, PointsBy
      <4>2. CASE Publish("ue_queue", 1, total_steps, InitT + now) /\ slot' = slot
        <5>1. "ue_queue" \in Series /\ total_steps \in Nat
              BY <1>3, EmulatorAssumption DEF Types
        <5>. QED  BY <1>3, <3>1, <3>2, <4>2, <5>1, PublishStamped, Zenon
      <4>. QED  BY <4>1, <4>2 DEF StepUe
    <3>4. PICK u \in Int : u = Clock' /\ t <= u
          BY <2>4, <3>1
    <3>5. PointsBy(u)'
          BY <1>3, <3>3, <3>4, PointsByLaterNext
    <3>. QED  BY <3>3, <3>4, <3>5 DEF PointsBy
  <2>. QED  BY <1>1, <2>1, <2>3, <2>5 DEF Stamped
<1>. QED  BY <1>1, <1>4 DEF TimeInv, Progressed, Infinite

LEMMA StepLogTime ==
    ASSUME NEW gap, Inv, TimeInv(gap), StepLog
    PROVE  TimeInv(gap)'
<1>1. /\ tpc = "log" /\ tpc' = "sleep" /\ slot' = 0
      /\ UNCHANGED <<period, goal, do_wait, count, current_ts, previous_ts, now>>
      /\ next_progress' = IF ProgressPeriod > 0 /\ current_ts >= next_progress
                          THEN NextProgress(next_progress, current_ts)
                          ELSE next_progress
      BY DEF StepLog, setup, clockwork
<1>2. /\ Types /\ current_ts \in Nat /\ next_progress \in Nat /\ total_steps \in Nat
      BY TickerAssumption DEF Inv, Types, TypeOK
<1>3. Progressed'
  <2>1. CASE ProgressPeriod > 0 /\ current_ts >= next_progress
        BY <1>1, <1>2, <2>1, NextIsLater DEF Progressed
  <2>2. CASE ProgressPeriod > 0 /\ ~(current_ts >= next_progress)
        BY <1>1, <1>2, <2>2 DEF Progressed
  <2>3. CASE ~(ProgressPeriod > 0)
        BY <2>3 DEF Progressed
  <2>. QED  BY <2>1, <2>2, <2>3
<1>4. ASSUME ~Infinite
      PROVE  OnTime(gap)' /\ Stamped'
  <2>1. OnTime(gap) /\ Stamped
        BY <1>4 DEF TimeInv
  <2>2. OnTime(gap)'
        BY <1>1, <2>1 DEF OnTime, InStep
  <2>3. PICK t \in Nat : t = Clock /\ t = Stamp(InitT + now) /\ InitT + now \in Nat
        BY <1>1, <1>2, <2>1, StampIsClock
  <2>4. PointsBy(t)
        BY <2>1, <2>3 DEF Stamped
  <2>5. PointsBy(t)'
    <3>1. CASE Publish("emulator_runtime", Freq, total_steps, InitT + now)
      <4>1. "emulator_runtime" \in Series /\ Freq \in Nat
            BY EmulatorAssumption
      <4>. QED  BY <1>2, <2>3, <2>4, <3>1, <4>1, PublishStamped, Zenon
    <3>2. CASE UNCHANGED <<windows, tallies>>
          BY <2>4, <3>2 DEF windows, tallies, PointsBy
    <3>. QED  BY <3>1, <3>2 DEF StepLog, HandleTimeLog
  <2>6. Clock' = t
        BY <1>1, <2>3 DEF Clock
  <2>. QED  BY <1>1, <2>2, <2>5, <2>6 DEF Stamped, PointsBy
<1>. QED  BY <1>1, <1>3, <1>4 DEF TimeInv, Infinite

LEMMA TimeNext ==
    ASSUME NEW gap, Inv, StepsFit(gap), TimeInv(gap), [Next]_vars
    PROVE  TimeInv(gap)'
<1>1. CASE Main
      BY <1>1, MainTime
<1>2. CASE Ticking
      BY <1>2, EnterTime, BeginTime, EndTime, FinishTime, StepMacTime, StepUeTime,
         StepLogTime DEF Ticking
<1>3. CASE Working
      BY <1>3, WorkerTime
<1>4. CASE UNCHANGED vars
  <2>1. UNCHANGED <<setup, now, count, current_ts, previous_ts, slot, accum, snapshot,
                    newest, emitted_ts, next_progress>> /\ tpc' = tpc
        BY <1>4 DEF vars, tickerVars, clockwork, telemetryVars, windows, tallies, counters
  <2>. QED  BY <2>1, TimeStill
<1>. QED  BY <1>1, <1>2, <1>3, <1>4 DEF Next, Terminated

(* In a run with a goal no tick comes before its time, the ticks go         *)
(* forward, the last field of a window is the value published last and the  *)
(* lines of a series go forward; the progress log catches up in every run.  *)
(* A step, with the sleep after it, must not be so long that a timestamp    *)
(* wraps before the goal is seen.                                           *)
THEOREM TimeIsKept ==
    ASSUME NEW gap, StepsFit(gap)
    PROVE  Spec => []KeepsTime
<1>1. Init => TimeInv(gap)
      BY TimeInit
<1>2. Inv /\ TimeInv(gap) /\ [Next]_vars => TimeInv(gap)'
      BY TimeNext
<1>3. Inv /\ TimeInv(gap) => KeepsTime
  <2>. SUFFICES ASSUME Inv, TimeInv(gap) PROVE KeepsTime
       OBVIOUS
  <2>1. ASSUME ~Infinite, do_wait, InStep
        PROVE  count * period <= now
    <3>1. count * period <= current_ts /\ current_ts <= now
          BY <2>1 DEF TimeInv, OnTime
    <3>2. count * period \in Int /\ current_ts \in Int /\ now \in Int
          BY TickerAssumption DEF Inv, Types, TypeOK
    <3>. QED  BY <3>1, <3>2
  <2>. QED  BY <2>1 DEF TimeInv, OnTime, Stamped, PointsBy, Progressed, KeepsTime, TickPacing
<1>. QED  BY <1>1, <1>2, <1>3, Always, PTL DEF Spec
=============================================================================
