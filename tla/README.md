# A specification of the 5G network emulator

TLA+ models, TLC runs and TLAPS proofs about this repository: a real-time
emulator of a 5G radio link. IP packets are captured from the host with NFQUEUE
(or generated), wait in a buffer per UE and direction, are granted radio
resources by a MAC scheduler in every step, and get a verdict (accept, accept
with CE, drop) after a backhaul delay. `PROJECT.json` lists components, runs,
mutants, findings, hazards and theorems, and maps every definition to the lines
it models; this file says how the pieces fit and what they show.

## 1. The system

`main` builds the simulator, starts the ticker thread of `timer` and waits for it.
The ticker runs `simulator::step`, a MAC step and a UE step, once per millisecond
if the machine keeps up. Both are handed to thread pools: the MAC's
two resource grids are two jobs of one pool, the UEs are the jobs of another. A
reader thread per captured queue feeds packets in; a monitoring thread aggregates
points. "The stepping thread" below is the ticker.

| part | state | operations | who calls it | correct when |
|---|---|---|---|---|
| `thread_pool` | `jobs_`, `isRunning`, `index`, `goal`, `busy`, `shutdown_`, one mutex, two condition variables | `do_job`, `do_jobs`, `wait_threads`, `thread_entry`, destructor | `mac_layer`, `ue_handler` | a round is a barrier: every job runs once, none outside the round; rounds and the destructor end |
| `pkt_capture`, `netfilter_interface` | queue of captured packets, NFQUEUE handle, socket, reader thread | `enqueue_captured_packet` (reader), `pop_captured_packet`, `verdict`, `start`, `close` | captured handler | one verdict per packet; nothing is used after it is freed |
| `captured_packet_handler` | `ingress_pkts`, `out_pkts`, `prev_released_id` | `ingest`, `push`, `drop`, `drop_ingress_pkt`, `release` | `pdcp_layer` | verdicts match what happened to the bits, and come in order |
| `simulated_packet_handler` | `ingress_pkts`, `pkt_list`, `pending_results` | `ingest`, `push`, `drop`, `release` | `pdcp_layer` | every fragmented packet is put together once, whatever the order of its blocks |
| `traffic_generator` | file position, `last_t`, `last_tp`, `t_acc` | `generate` | simulated handler | the traffic is the file's |
| `ip_buffer` | `pkt_list` or `dualpi2_queue`, `current_size` | `add_pkt`, `get_pkts`, `pop_oldest_pkt`, `pop_aqm_dropped_pkt` | `pdcp_layer` | no bit lost or doubled by splitting; the size is that of the contents |
| `dualpi2_queue` | `l_queue`, `c_queue`, `dropped_queue`, PI state | `enqueue`, `pop_next`, `pop_oldest`, `step` | `ip_buffer` | only ECN-capable packets are marked; each queue is served |
| `pdcp_layer` | one of each of the above, HARQ buffer, clock | `step`, `handle_pkt`, `release` | `ue` | nothing older than the delay budget is sent |
| `harq_handler` | blocks waiting for retransmission | `queue`, `add_pkts`, `get_pkt`, `pop_pkt_older_than`, `get_rtx` | `pdcp_layer` | retries end, in time |
| `grid`, `rb`, `metric_handler` | metrics, scheduled UEs, round-robin index of each UE | `grid::step` | `mac_layer` | an RBG goes to the UE with the highest metric; round robin is fair |
| `tdd_handler` | the TDD scheme and a cursor per direction | `get_syms` | `grid` | the directions share no symbol |
| `phy_layer` | SINR, CQI, rate and rank, a step counter and three periods | `estimate_channel_state`, `get_tp`, `get_metric` | `ue`, `grid` | reports are as fresh as their periods promise, and consistent |
| mobility models, map | position, speed, direction, next turn | `update_pos`, `get_distance` | `ue` | the UE stays on the map and in range |
| `timer` | ticker thread, `run`, `finished`, `current_ts`, `previous_ts`, goal | `start`, `wait_finished`, destructor | `simulator` | ticks keep to the period; a run with a goal ends |
| `simulator` | `step_c`, `total_steps`, next progress log | `start`, `join`, `step` | `main`, ticker | every step is counted; threads are joined before what they use goes |
| `aggregator`, `monitoring_manager`, `influx_sender` | a window of points per series, the worker thread, the slot time, sockets | `init`, `publish`, `add_point`, `send_line`, destructors | everybody | no point is in two windows, few are lost at the end |

Control flows downwards by calls; results come back as return values, except in
three places where data crosses threads: the capture queue (mutex), the window of
the aggregator (mutex), and the pools, whose only synchronisation is the barrier. UEs are shared by the MAC's jobs (they
call `handle_pkt` of either direction) and by the UE jobs; the barrier between the
two rounds is all that protects them.

What is hard about it: the unlocked stores of `do_jobs` against the workers; the
path of a packet through seven containers, in fragments, with four ways out
(accepted, expired, dropped by the AQM, refused); the order gate of
`release()`; cursors and indices that several objects keep separately and that
must stay in step; wrap-arounds (TDD frame, traffic file, round robin); threads that
are cancelled or outlive what they use, at both ends of a run. The list
`hazards` of `PROJECT.json` names each place with the properties that watch it.

## 2. The modules

Each component has a module; `MC*` modules hold the definitions its instances need.
Modules of the packet path share a convention: `pc` names the loop the stepping
thread is in and one action is one iteration of that loop, so that guards,
early exits and the order of the loops are those of the code. `PacketBits` holds what all three
count with: the bits of a packet, or of everything, in a queue. `BufferSize` is the arithmetic of
`ip_buffer::current_size`, a float: the sum or difference of two floats is a float nearest to it
(`Nearest`), and a negative one becomes 0 (`NotNegative`). `Floats` is the set of numbers there are,
`Exact` up to where it has every integer, 2^24 in the code, where `max_size` is about 1e10. Of a tie either
neighbour may result, which is more than the machine does. A grant and a packet's size stay far
below 2^24 bits and are exact.

ThreadPool and UeRadio name their specification `PoolSpec` and `RadioSpec`, with the
initial states, the next-state relation and the type invariant named alike, because their theorems
share a module with those of MacGrid and SimFlow (section 5).

### ThreadPool, and JobRound above it

`ThreadPool` models every member of the class. Points of detail:

* `do_jobs()` holds no lock: its three stores (`Store(field)`) become visible one
  at a time, in any order, and `Notify` wakes only threads that are blocked.
* A worker tests the predicate (`Pick`, `Decline`) and blocks (`Block`) in two
  steps; the notification may come in between. `index++` is `Pick`/`Take` and `busy--` is
  `ReadBusy`/`WriteBusy`, because `do_jobs()` may store to them in the middle.
* `jobs_` is represented by its length `goal` (both change only in `do_job`, under
  the lock). A job that returns is recorded in `finished` when its worker has the
  lock again, which can only delay the record.
* `FirstIndex` is what the uninitialised `index` may hold: a set of integers. The passing run takes a
  value that is no index of a job; section 4 says what smaller and negative ones do.

`JobRound` is the promise `mac_layer::step` and `ue_handler::step` rely on, and
`BarrierRound` is the refinement.

### PdcpFlow with ReleaseBuffer, and PacketFate above them

One direction of a captured UE with the plain FIFO: `Capture` (reader thread, at
any time), `Ingest`, `Admit`/`TailDrop`, `Expire`, `ReleaseDrop`/`ReleaseAccept`, and
`Handle`, `TakeWhole`/`TakeFragment`, `Push` for a grant. `ReleaseBuffer` holds what
`captured_packet_handler` does to `out_pkts`: merging fragments (`WithData`), taking
dropped bits off (`WithoutData`), sorting by uid (`Sortings`: `std::sort` is not
stable, so any sorted permutation), the order gate and `remove_data`.
`PacketFate` is the service: at most one verdict per captured packet, accepted
packets in capture order; `OneOrderedVerdict` is the refinement.

Abstractions: packets are numbered by capture, so the capture and ingress queues
are intervals; time is relative (`age` of a packet, capped just above the delay budget;
`wait` of a released one, down to 0) and a step of the clock is one unit;
wall-clock and emulated time, which the code compares with each other, agree.
`get_rtx` returns 0 before its error model (`harq_handler.cpp:160`), so no block is
ever retransmitted and the HARQ buffer stays empty. `handle_pkt`'s own `is_expired` test finds
nothing in the FIFO: that is `NoExpiredBuffered`, checked, not assumed.

### DualPdcp

The same direction with `l4s_dual_queue: true`: the two queues, `choose_l4s`, marks and
drops at every pop, remainders enqueued again at the tail, the drop queue drained
by `handle_pkt`, and the `is_expired` branch, which *is* reachable here. A block has the backhaul
delay it was drawn, so entries of `out_pkts` that are not due come before others that are. The PI
controller is abstracted to the sign of `p_base`; what an update may do to it
follows from the signs of its two terms. A probability strictly between 0 and 1
may or may not mark. The path from capture to buffer is one action (`Admit`) because
PdcpFlow has its interleavings, and the buffer does not overflow.

### SimFlow with TrafficTrace

One direction of a simulated UE. `TrafficTrace` is the loop of
`traffic_generator::generate_dl` (and of its twin for the uplink), one action per
iteration; `SimFlow` is `simulated_packet_handler` around the same FIFO: ceil split,
blocks kept whole in `pkt_list`, released in any order of delays, fragments put together
in `pending_results`. The clock moves by one or two units per step, since a step
may be late. `t_acc` is exact; the code's is a float, whose shift of a late replay may move a record by what
is rounded away. Simulated packets are Not-ECT and the FIFO never marks, so
`congestion_signal` is left out. A refused packet gets no verdict
(`drop_ingress_pkt` of the base class does nothing).

### MacGrid

Both grids, each with its loop over slots and RBGs, `tdd_handler` with a cursor per
direction, the choice of a UE per RBG (`Assigned`), the round-robin index each UE
keeps (`NextRr`), and the grant. The two grids interleave RBG by RBG, as jobs of a
pool. Rates and metrics are inputs: a UE step chooses new ones from small sets
(the code changes them only in some steps, so this allows more). Within
a step a UE's rate is the same for all frequencies. A grant takes whole bits, as
`floorf` in `get_pkts` does.

### Capture

The life of one `pkt_capture` with its `netfilter_interface`, against the kernel.
`OpenSocket`/`CreateReader` are `netfilter_interface_open` and its failures; `Recv`, `QueueCb` (which counts the
packet, without a lock), `HandleCapture` (which enqueues it, under `mtx`) and `CancellationPoint` the reader
thread; `PopCapturedPacket` and `Verdict` what the handler does,
in any order of packets (PdcpFlow and DualPdcp have the orders it chooses); `Cancel` and `Free`
the two halves of `netfilter_interface_close`, between which, and after which, the reader runs
on. What the reader does with a freed interface, in the callback or when it comes back to `recv`, either
crashes (`UseAfterFree`) or happens to work (`late` counts the packets captured that way). The kernel is external: `HostSends` puts a packet into the queue and a message into
the socket, or drops it when one of them is full; closing the socket drops what is held. A
failing `sendto` of a verdict is a choice of `ReleasePkt`. The socket does not block, so `recv`
polls; a poll that finds nothing changes only `recv_fails` and is left out.

### Emulator with Ticker and Telemetry

The process. `Ticker` is `timer`: both ticker loops, with what they compute to sleep, the
32-bit timestamps and the cast of the goal. `Telemetry` is the way of a metric:
`Publish` (`monitoring_manager::publish` and `aggregator::add_point`), the worker's loop, and
`send_line`, split at its test of `pimpl` because the destructor may run in between.
`Emulator` composes them: `main` (constructor, start, wait, and the destructors in the order C++
runs them: timer, then after `main` the static manager with its sender before its aggregator),
and `simulator::step` in three parts, MAC, UEs and logs. What the MAC and the UEs do is the
subject of the other modules; here they take time and may publish. A series has one summed
and one last field; a mean is a sum and a count. Time is an integer and windows have no
fixed length, so the worker may take one over at any moment. The clock only moves forward: `timer` reads
`system_clock`, and one that is set back during a run is not modelled. `NextProgress` counts in whole units where
the code adds floating-point seconds with a tolerance of 1e-9. `EmitRuntime` is the configuration's
`emit_emulator_runtime`; the runs have it on, the theorems hold for both values. That the worker starts
before its callback is set (`SetEmitCallback`) loses nothing, since nothing is published until then.

### UeRadio with Mobility

`Mobility` moves a UE on a square grid: `Turns` and `NextPositions` say where each model
would like to go, `Accepts` and `Move` what `update_pos` makes of it. Directions are rounded
to the eight neighbours, and a division by 0 gives `Nan`, which every comparison refuses.
`UeRadio` is the channel half of `ue::step`: the UE's own SINR period (computed from another
unit of speed than that of `phy_layer`, hence `UeCoherence`), the lookup of the fading, and
`estimate_channel_state` with its three periods. Values are abstracted to what decides:
the band of the SINR for the rank, and the age and rank of what a report was computed from.

## 3. Runs

`pass` runs check invariants and temporal properties over the complete state space
of an instance; every property has a mutant, a plausible bug in a mapped
definition, that violates it.

| run | instance | states | what it shows |
|---|---|---|---|
| ThreadPoolSafe | 3 workers, 2 jobs, any number of rounds, spurious wake-ups | 147 527 | a round is a barrier although the stores race: no worker is in a job when `wait_threads` has returned; jobs get a thread; a round that finds a worker awake ends; the destructor ends |
| PdcpFlowSafe | 4 packets of 7 bits in all, a buffer of 6 bits, floats 0 to 4, 6 and 8, grants 1, 2, 4, delays 0, 2, budget 2, `order_pkts` | 155 393 | `PacketFate` is implemented; no bit lost or doubled; `current_size` within its limit, and exact until it was rounded; nothing expired is sent; verdicts match the data; all packets are decided unless one was tail-dropped |
| DualPdcpSafe | 3 packets of 4 bits in all, 3 ECN codepoints each, floats 0 to 3 and 6, grants 1, 3, a delay of 2, budget 1, `order_pkts` off | 721 433 | marks only on ECT packets; bits conserved across drops, requeues, expiry; every packet decided |
| SimFlowSafe | a file of 4 records over 4 units replayed until 5, packets of 12 bits, buffer of 24, floats multiples of 4 up to 24 and 32, delays 0, 3, steps 1, 2 | 453 349 | fragments put together once; every packet decided; the traffic is the file's up to its end and never less afterwards |
| MacGridSafe | 2 UEs, 3 RBGs, a 6-symbol frame read 4 symbols at a time, both directions, round robin | 2 252 367 | directions never share a symbol; a UE with data is passed over for less than one turn; no RBG is wasted; statistics agree |
| EmulatorSafe | period 2, goals 2, 4, 9 (beyond the int of 7) and none, timestamps modulo 16, half steps of 0 or 3, sleeps late by 0 or 1, log windows of 2 steps, monitoring on and off | 163 257 | the ticker is in a step only while `main` waits; every step is in one window of `emulator_runtime`; at most two windows are lost; time is kept with a goal, and the run ends |
| CaptureSafe | 4 packets, 2 messages in the socket, 3 packets in the kernel | 31 007 | every packet the kernel holds is accounted for by the reader, the queue, the handler or a failed verdict, and the counters are at most one ahead, while the reader is between its count and its enqueue; marks are not turned into drops; after `close` the reader ends |
| UeRadioSafe | 3x3 map, distance 1, both directions, CQI and rank every 4 and 3 steps, SINR every 2 or 3, the UE's own every 1 or 2, rank 2 with a table of 1 | 635 372 | position on the map and in range; reports as fresh as the periods say, and for one rank when they divide; steps go on |
| ThreadPoolHang | 1 worker | | finding 1 |
| PdcpFlowStall | as PdcpFlowSafe, a buffer of 4 bits | | finding 2 |
| DualPdcpMark | 2 ECT(1) packets | | finding 3 |
| EmulatorPace | period 2, no goal | | finding 4 |

Why the bounds are enough. *Pool*: the races are between one store of `do_jobs` and one
worker's step; more workers than jobs (as in `mac_layer`) and several jobs per worker both
occur, and rounds are not bounded. *PDCP*: one packet that never fits a grant, one that
needs exactly one, and small ones that share a grant, in a buffer that holds
some but not all of them, give every combination of whole, split, expired in part
and refused; time is relative, so steps are not bounded. The floats have gaps below and above `MaxSize`, so
sums round down into the buffer and up out of it. *Dual queue*: a packet
in fragments and two small ones of any codepoint, enough for overtaking, requeueing
behind another packet and a decision changing between fragments; with the delay, entries that are not due come before others that are (a packet
whose last fragment was sent late, a dropped one), and a size of 4 rounds to 3, so the clamp at 0 acts.
*Simulated*: in the file's first pass a record is read ahead of its time and counted by a later call, two records are
taken by one call, and steps come late, so every branch of `generate` decides an equality of `TrafficFollowsFile`;
then it is replayed beyond its end. Packets larger and smaller than a grant exist; the
traffic stops at `MaxClock`, the steps do not. *MAC*: RBGs per slot, UEs and the frame are pairwise
coprime or indivisible, so indices and cursors drift through all their phases;
steps are not bounded. `MaxBacklog` bounds only how many bits a UE may have waiting.
*Process*: a half step longer than the period, ticks that are late by half a period, goals
above and below the int, and runs that outlast the timestamps all occur; `MaxTicks` bounds only
runs without a goal. The worker's windows are as long or short as TLC likes. *Capture*: a packet in each
place (socket, reader, queue, handler) at once, and both limits of the kernel reached.
*Radio*: `Cycle` (12) is a common multiple of the periods, so all their phases occur and steps are
not bounded; the map has a corner beyond the maximum distance, and a walk in range that leaves it.
`MaxSpeed` bounds the speed, to which the code adds noise for ever; the waypoint model turns and moves as the walk.

Deadlock is checked except in ThreadPoolHang: with one worker `do_jobs()` can leave
every thread blocked for good, which finding 1 is about. With two workers or more
that does not happen, because the lock keeps all but one of them out of the gap
between the test and the wait.

### Fairness

* Pool: weak fairness of the main thread and of each worker (the OS schedules
  runnable threads, jobs terminate), and only finitely many spurious
  wake-ups: the mutex is not fair, and a thread waking up for ever could keep others out.
* Packet path: weak fairness of the iterations of the main thread (`UeStep`), which the
  main loop of `simulator::run` provides. Neither the traffic nor the scheduler owes
  anything: `Capture`, `Admit` of DualPdcp and `Handle` have no fairness.
* Process: weak fairness of the main thread, the ticker and the worker: each is scheduled, and what
  it calls returns. It is needed for each: `main` waits for the ticker and joins the worker.
* Capture: weak fairness of the reader (it polls) and of the second half of open and close. The
  host owes no packets and the handler no verdicts; `close` itself need not happen.
* UeRadio: weak fairness of the next step, which the main loop provides; the random draws of
  `compute_d_in` eventually fall below a positive distance.
* MacGrid: safety only.

## 4. Findings

Each is a run with a counterexample; `PROJECT.json` quotes the text it contradicts.

1. **Lost wake-up** (`thread_pool.h:65`). `do_jobs()` stores and notifies without
   `lock_`. A worker between its test and its wait misses it; with one worker the round
   never runs.
2. **Stall after a tail drop** (`captured_packet_handler.cpp:108`). A dropped packet moves
   `prev_released_id` without regard to the order. Earlier packets then never satisfy
   `check_order` and stay at the head of `out_pkts`. With `max_size` at its default
   this needs a very full buffer; `DecidedUnlessTailDropped` shows it is the only way
   to lose a verdict in the FIFO.
3. **Lost CE mark** (`captured_packet_handler.cpp:204`). `add_data` merges fragments without
   merging `ce_marked`; a packet whose second fragment was marked leaves unmarked.
4. **Pace without a goal** (`timer.h:145`). `ticker_inf` subtracts `sign*diff` where it means to
   correct. After a gap shorter than the period the next gap is no longer than that one or the step
   itself, and the first gap is close to 0: with `duration: -1` the ticks come as fast as the longest
   step so far, until a gap reaches the period; after a gap `g` beyond it the next is `2*period - g`.

What the instances of the passing runs leave out because the code does not keep its promise there,
with the change of an instance that shows it:

* ThreadPoolSafe with `FirstIndex = {0, 1, 2}`: `index` (`thread_pool.h:123`) is not initialised and
  stored after `isRunning`, so in the first round a worker can take a job by the old value and the
  job is given out again; `BarrierRound` fails. A negative value indexes `jobs_` before its beginning:
  the proviso of `PoolTypeCorrect` excludes it.
* DualPdcpSafe with `OrderPkts = TRUE`: an L4S packet may overtake a classic one, which is then out of
  order for ever (`captured_packet_handler.cpp:235`); `EveryPacketDecided` fails without any overflow.
* MacGridSafe with `RoundRobin = FALSE` and metrics -10 and 1: -1, where the maximum of `reset()` starts
  (`metric_handler.cpp:15`), is above the delay metric from 0.1 s to 1.1 s of delay; an RBG stays
  empty although a UE has data, and `HighestMetricAssigned` fails.
* `SizeAccounted` promises an exact `current_size` only until a sum above 2^24 bits was stored (`ip_buffer.h:36-37`,
  `ip_buffer.cpp:80,138,181,224`). What is then rounded away, and the clamp at 0, which keeps only one sign of the
  difference, leave a residue that nothing takes off again: with `~rounded` dropped PdcpFlowSafe ends with an empty
  buffer of non-zero size. The limit itself is kept.
* `HeldAccounted` has the counters one ahead while the reader is between `total_recv++`
  (`netfilter_interface.cpp:302`, no lock) and the enqueue; `stats()` of the main thread can see it.
* SimFlowSafe states `TrafficFollowsFile` as an equality only up to the end of the file: from the
  second pass on a record is counted when it is read and again when its shifted time comes
  (`traffic_generator.h:94`).
* UeRadioSafe assumes a UE that does not start in the antenna's place outdoors: there
  `compute_d_in` (`phy_layer.cpp:502`) draws for ever; the fallback of `set_random_initial_position` is that place.
  A rank table one entry short (`RI_THRES`, `phy_l_definitions.h:56`, with 4 antennas) is in the
  instance: what is read past its end decides between the further ranks and keeping the rank, and nothing else
  depends on it.
* `MacGrid.Scheme` is for the 61 rows the TDD table has (`mac_definitions.h:66`); configuration 61, which the check
  against `N_CONFIG` (62) lets through (`tdd_handler.cpp:21`), is a row of zeros without a transition slot and not
  covered by `TddAssumption`.
* A duration beyond 2147 s may become a negative goal (`timer.h:39`), the code's infinite mode: `RunEnds` is about
  goals that stay positive.
* EmulatorSafe states `KeepsTime` for runs with a goal: without one the 32-bit timestamps start
  again after 71.6 minutes, and with them the values of last fields and the order of lines.
* At the end of a run the sender is deleted before the worker that uses it is joined
  (`monitoring_manager.h:26-27`), and the reader of a capture is cancelled but not joined
  (`netfilter_interface.cpp:522`): `crashed` is a possible end in both models. What holds is
  what `AtMostTwoWindowsLost` and `ReaderStops` say.

## 5. Proofs

TLAPS proves every invariant the runs check, both refinements and the action property about RBGs, for
every value of the constants. A component's theorems are in `<module>Proofs`; those of the two parts of
the MAC layer, the pool and the grid, are in `MacProofs`, those of the two sides of a UE, its radio and
its simulated packets, in `UeProofs`. The parts of the inductive invariant come before
the lemmas about them; TLC checked each of those on the instance of the run before it was proved.
`PacketBitsProofs` is the lemma library of all packet flows: sequences, and the sums over them when
an entry is appended, changed or removed, and the rounding of `BufferSize`. `ReleaseBufferProofs` adds, for both PDCP flows, merging and
taking off of data and sorting.

| module | theorem | states | needs |
|---|---|---|---|
| MacProofs, ThreadPool | `PoolTypeCorrect` | `PoolTypeOK` | `index` does not start negative |
| | `Barrier` | `BarrierRound`: ThreadPool implements JobRound | `index` does not start below the number of jobs |
| PdcpFlowProofs | `TypeCorrect` | `TypeOK` | |
| | `OrderKept` | `PipelineInOrder` | |
| | `VerdictsInOrder` | `OneOrderedVerdict`: PdcpFlow implements PacketFate | |
| | `BudgetKept` | `NoExpiredBuffered` | |
| | `FateIsTrue` | `FateMatchesData` | |
| | `SizeIsKept` | `SizeAccounted` | |
| | `NoBitLost` | `BitsConserved` | |
| DualPdcpProofs | `TypeCorrect` | `TypeOK` | |
| | `NoBitLost` | `BitsConserved` | |
| | `FateIsTrue` | `FateMatchesData` | |
| | `OnlyCapableMarked` | `CeOnlyIfCapable` | |
| MacProofs, MacGrid | `TypeCorrect` | `TypeOK` | |
| | `SymsAreTheFrames` | `SymsOfTheFrame` | |
| | `OnlyActiveScheduled` | `ScheduledWereActive` | |
| | `NobodyIsStarved` | `RoundRobinFair` | |
| | `HighestGets` | `HighestMetricAssigned` | round robin, or no metric below -1 |
| | `LowMetricsGetNothing` | a metric below -1 gets no RBG | |
| EmulatorProofs | `TypeCorrect` | `TypeOK` | |
| | `NothingUncounted` | `StepsAccounted` | |
| | `TwoWindowsAtMost` | `AtMostTwoWindowsLost` | |
| | `TimeIsKept` | `KeepsTime` | `StepsFit(gap)` |
| CaptureProofs | `TypeCorrect` | `TypeOK` | |
| | `VerdictsReachHost` | `VerdictReachesHost` | |
| | `NothingLostInCapture` | `HeldAccounted` | |
| UeProofs, UeRadio | `RadioTypeCorrect` | `RadioTypeOK` | |
| | `FreshReports` | `ReportConsistent` | `CycleFits` |
| UeProofs, SimFlow | `TypeCorrect` | `TypeOK` | |
| | `BitsOfPacketsConserved` | `BitsConserved` | |
| | `FateIsThatOfTheData` | `FateMatchesData` | |
| | `TrafficIsThatOfTheFile` | `TrafficFollowsFile` | |

All rest on the assumptions the modules name on their constants (numbers and sets of numbers; sizes
and grants positive; what the code checks of a configuration). Five need more:

* `PoolTypeCorrect`: `index` is not initialised, and a worker that sees `isRunning` before `index = 0` reads `jobs_`
  at what it holds, before the beginning if that is negative.
* `Barrier`: a smaller first `index` breaks the barrier, see section 4.
* `HighestGets`: the assignment begins from -1, and a UE whose metric is lower gets nothing even when
  no other has data. That is `LowMetricsGetNothing`, so the proviso cannot be dropped. With a
  priority above 0 and a delta below 1, all metrics of the code but the delay metric satisfy it
  (`metric_handler.cpp:103`, and section 4).
* `TimeIsKept`: a step, the sleep after it and a period take less than what is left of an unsigned
  32-bit timestamp beyond the largest goal, 35 minutes.
* `FreshReports`: the periods divide `Cycle`, at which the model restarts its counters to stay finite.
  The code's counters do not restart; the assumption is the bound's, not the code's.

### The arguments

*Thread pool.* The stores of `do_jobs()` become visible one by one, so neither `busy` nor `index` means
anything by itself during a round. `JobsInOrder` says which jobs have been taken given what is
visible: those up to `index` once it is stored, none before, when it is still past the end. `RoundRuns`
says that `isRunning`, once visible, is up while jobs are left, and `LockKept` who may be between which locks.
`BusyCounts` says that `busy`, once stored, is at least the number of jobs not done or negative; the second
case, and the clause on `seen`, are for a `busy--` that read before the store of `goal` and writes after it.
`wait_threads` returns once `isRunning` is cleared, by the worker that brings `busy` to 0, and then
nothing is undone.

*Order of verdicts.* That an accept is legal (no later packet accepted before) needs to know what
`out_pkts` holds when its first ready entry is released, and that depends on everything upstream.
`PipelineInOrder` is the strengthening, in four parts:

* `InFlightOrder`: the buffer and the block under way are in capture order, the block ahead of
  the buffer, with at most one entry of a packet in each;
* `ReleaseOrder`: `out_pkts` has one entry per packet, and its live entries are sorted
  and not behind anything in the buffer or the block;
* `Accounting`: an entry of `out_pkts` holds no more bits than have been sent of its packet,
  so a *complete* entry (which is what `is_ready` tests) has no part elsewhere and its packet will
  not come back;
* `DecidedOrder`: nothing is left of a decided packet, and an accepted one is
  ahead of all that is left.

Without the third the second verdict of a packet cannot be excluded, without the
fourth the first accept after an out-of-order drop cannot.

*Bits and sizes.* The sums of `PacketBits` are recursive functions over sequences. The library's
induction theorems cannot be used (they take an operator), but the principle needed is a statement
about sets, proved from well-founded induction: a set of naturals with 0 that is closed under + 1
is all of them (`AllOfNat`). With it sums over a sequence that is
appended to, cut, merged into or permuted are lemmas, and `BitsConserved` follows from
`PipelineInOrder`: `Owed` is split into what is buffered, under way and in
`out_pkts`. In the dual queue nothing is in order, so `Conserved` counts over both queues, the drop
queue and the block, and `Counted` ties `current_size` to the same sums until it was rounded. `BufferSize` needs
one fact about floats (`NearestIs`): a number that is one rounds to itself, and all up to `Exact` are. So as long as
no sum above `Exact` was stored, additions and subtractions are exact and the clamp never acts (`SizeGrows`,
`SizeShrinks`); whatever was stored, a sum rounded is no more than `max_size` if `add_pkt` let it in, and a
difference rounded is no more than what it was taken from (`NearestBelow`).

*Fate.* `LostIsErased`: an undecided packet has lost something if and only if its entry in `out_pkts`
is erased; what is not erased was sent. A verdict reads that flag and the size, so the accept and the drop
are right. `BudgetKept` needs `OldestFirst`: ages fall along the buffer.

*Simulated packets.* `FlowInv` is about every state, also the ones inside a loop, where part of a packet
may be in the ingress list or in the block under way. `Conserved` of a packet: what is carried (in the
ingress list, the buffer, the block and the blocks released later) and what `pending_results` has
of it make up the packet until it is decided, and are both nothing afterwards. So when a block comes back,
the entry it completes is exactly the one of which nothing is carried any more, whatever the order of the
blocks, and `AccountOne` follows one packet through `update_pending_packet`. `FragmentsTrue`
keeps the flag of an entry equal to what happened to its bits, in every order; a verdict reads it.
`FlowLoops` says which lists are empty between loops, that packets come into the ingress list whole
(a refused one is nowhere else). `IngestInv` is the ceil split: the sizes of
the new packets, all but the last full and the last not empty (`LastPacket`).

*The traffic.* A file is replayed in a circle, and `t_acc` and the cursor only say where the generator is.
The closed form is `Replayed(k)`: there is a number `k` of replays such that `t_acc` is `k` times the
duration, every record has come `k` times, and those up to the cursor that are due have come once more. All records
read but the last are due; the last may be ahead, and then nothing further is read. Reading a record
changes one term of that sum and a rewind turns the sum for `k` with every record due into the one for `k + 1`
(`DueRewound`). The record counted twice after the first replay (section 4) is why the sum
is an equality for `k = 0` and a lower bound afterwards: `TrafficFollowsFile` says just that.

*Marks.* `CeTrue`: in every queue, in the block and in `out_pkts` a mark sits only on a packet that came
with ECT, and the codepoint a fragment carries is the original or CE.

*The grid.* `CursorInv`: both cursors are, modulo the frame, the slots walked in this step after the frame's
start, and equal cursors count equal symbols (`HitsSame`, with `ModAdd`); `WalkIs` says what
`get_syms`' loop computes. `InStep`: the UEs' copies of the index agree, the frequency each remembers is
never the one asked for next (this needs two RBGs per slot), and a waiting UE has waited since its own turn
at most. `AssignedIs` is what the loop of `estimate_params` computes. `ActiveInv`: while the RBGs drain
the queues, what has data is active.

*The process.* `Stages` relates the stages of `main`, ticker and worker; `Balanced` counts every point of a
series where it is; `Settling` that what was published before the last exchange is sent or in the snapshot,
while the sender is up; `StepsLogged` the steps in the series. For time, `OnTime` bounds the next
tick from both sides, and `PointsBy` the stamps in the windows by the clock.

*Capture.* `OnePlace`: a packet that waits is in one of socket, reader, queue and handler, once;
`KernelKnows`: the kernel holds those and the ones whose verdict failed; `Counters` relates
`total_recv`, `total_rlsd` and `rlsd_fails` to the size of those sets and to where the reader is.

*Radio.* `Aged`: what is due every `p` steps is as old as the counter modulo `p` says unless it is due
now; a report's age is the sum of two such. `Placed` holds of `Move` whatever the speed.

### Only model-checked

* All liveness, and the action and leads-to properties under fairness: fairness and ENABLED are out of
  the prover's reach. These are `PlacedJobGetsThread`, `AwakeRoundEnds`, `DestructorEnds`,
  `DecidedUnlessTailDropped`, `EveryPacketDecided` (of DualPdcp and of SimFlow), `RunEnds`, `ReaderStops` and `StepsGoOn`.
* The counterexamples of the findings.

## 6. Not modelled, and why

* The formulas of `phy_layer` and of the shadow map: floating point and random draws. Rates and metrics
  are inputs of the schedulers' models, the band of the SINR one of UeRadio.
* `harq_handler`: unreachable. `get_rtx` returns 0 (`harq_handler.cpp:160`) before its model of
  errors, so no block is queued for retransmission; the blocks that pass through are those of `Handle`/`Push`.
* `stop()`, `terminate()` and `override_duration()`: no caller. `configuration_loader`: it reads values
  with defaults and keeps no state that changes.
* Socket errors of `influx_sender` (reported, not retried), the parsing of netlink messages.
* Fractions of a bit (`BIT_ROUND_MARGIN`), statistics, logs, configuration files, the MAC tables,
  scripts and analyzers, vendored libraries.
* The constant-rate traffic model: a rate times the elapsed time, with noise.

## 7. Plan

Modelled and proved, in this order: ThreadPool against JobRound; PdcpFlow against PacketFate; DualPdcp;
MacGrid; the process (Emulator); Capture; UeRadio; SimFlow. What could be added:

* ThreadPool: the part of `JobRound` that a smaller first `index` leaves intact from the second round on.
* SimFlow: how much more than the file's the traffic may be after the first replay, as a bound from above.
* The constant-rate traffic model and the delay metric, with fixed-point numbers.
