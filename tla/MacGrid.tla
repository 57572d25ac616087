------------------------------ MODULE MacGrid ------------------------------
(***************************************************************************)
(* The MAC scheduler: one resource grid per direction, whose resource      *)
(* block groups (RBGs) are given one by one to the UE with the highest     *)
(* metric, tdd_handler, which says how many symbols of a slot belong to    *)
(* the direction, and the round-robin metric, which every UE computes for  *)
(* itself.                                                                 *)
(*                                                                         *)
(* A TTI is a MAC step followed by a UE step.  The two grids are two jobs  *)
(* of the MAC's thread pool, so their RBGs interleave; the UEs are the     *)
(* jobs of another pool.  Between the two lies the barrier of JobRound.    *)
(* Rates and metrics come from floating-point channel formulas: a UE step  *)
(* chooses them from small sets.                                           *)
(***************************************************************************)
EXTENDS Integers, Sequences, FiniteSets

CONSTANTS
    NumUes,          \* UEs are numbered from 0, as ue_handler::add_ues does
    NumFreq,         \* n_freq_rbg
    NumTime,         \* n_time_rbg
    Dirs,            \* the directions, "dl" and "ul"
    Tdd,             \* duplexing_t = TDD
    DlSlots, UlSlots, Transition,   \* tdd_config; a row of TDD_5G_CONFIGURATION
    SlotSyms,        \* N_5G_SYMS
    RbgSyms,         \* n_sym_rbg
    RoundRobin,      \* metric_handler::is_rr
    MaxBacklog,      \* bound: bits waiting in a direction of a UE
    Rates,           \* bits per symbol a channel may give
    Metrics          \* values of the other metrics

Ues == 0..(NumUes - 1)
Freqs == 0..(NumFreq - 1)

ASSUME NumUesAssumption == NumUes \in Nat \ {0}
\* check_frequency_division: 20 resource blocks at least, in groups of 16 at most
ASSUME NumFreqAssumption == NumFreq \in Nat /\ NumFreq > 1
ASSUME NumTimeAssumption == NumTime \in Nat \ {0}
ASSUME DirsAssumption == Dirs \subseteq {"dl", "ul"}
ASSUME SymsAssumption == SlotSyms \in Nat \ {0} /\ RbgSyms \in Nat
ASSUME TddAssumption ==
    /\ Tdd \in BOOLEAN
    /\ DlSlots \in Nat /\ UlSlots \in Nat
    /\ Transition \in [1..3 -> Nat]
    /\ Transition[1] + Transition[2] + Transition[3] = SlotSyms
ASSUME RoundRobinAssumption == RoundRobin \in BOOLEAN
ASSUME DataAssumption == MaxBacklog \in Nat /\ Rates \subseteq Nat /\ Metrics \subseteq Int

VARIABLES
    phase,       \* "mac" or "ue"
    pos,         \* where each grid is: before, at or after its loops, t and f
    syms,        \* symbols of the slot under way that belong to the direction
    c_index,     \* tdd_handler::c_index
    rr,          \* rr_index and prev_f of each UE's metric_handler
    backlog,     \* bits of each UE waiting in pdcp_layer
    rate,        \* tp_v: bits per symbol
    metric,      \* metric_v
    active,      \* UEs with packets when the step began
    scheduled,   \* scheduled_ues
    last,        \* last_ue_index_v of the RBG just handled
    todo,        \* UEs whose step has not run yet
    frame,       \* history: symbols since the start, modulo the frame
    waited       \* history: RBGs a UE has been passed over for, while it had data

grid == <<pos, syms, c_index, rr, active, scheduled, last>>
ues == <<backlog, rate, metric>>
vars == <<phase, grid, ues, todo, frame, waited>>

None == -1

Repeat(n, s) == [i \in 1..n |-> s]

(* tdd_scheme: the downlink slots, the transition slot, the uplink slots.   *)
(* The table has 61 rows for 62 configurations: the last row is all zero,   *)
(* and its transition slot, of no symbols, is not one TddAssumption allows. *)
Scheme ==
    Repeat(DlSlots * SlotSyms, "dl") \o
    Repeat(Transition[1], "dl") \o Repeat(Transition[2], "guard") \o Repeat(Transition[3], "ul") \o
    Repeat(UlSlots * SlotSyms, "ul")

FrameLen == Len(Scheme)

Before == [at |-> "before", t |-> 0, f |-> 0]

Init ==
    /\ phase = "mac"
    /\ pos = [d \in Dirs |-> Before]
    /\ syms = [d \in Dirs |-> 0]
    /\ c_index = [d \in Dirs |-> 0]
    /\ rr = [d \in Dirs |-> [u \in Ues |-> [index |-> 0, prev_f |-> -1]]]
    /\ backlog = [d \in Dirs |-> [u \in Ues |-> 0]]
    /\ rate = [d \in Dirs |-> [u \in Ues |-> 0]]
    /\ metric = [d \in Dirs |-> [u \in Ues |-> 0]]
    /\ active = [d \in Dirs |-> {}]
    /\ scheduled = [d \in Dirs |-> {}]
    /\ last = [d \in Dirs |-> None]
    /\ todo = {}
    /\ frame = 0
    /\ waited = [d \in Dirs |-> [u \in Ues |-> 0]]
-----------------------------------------------------------------------------
(* get_syms: walk the scheme from c_index, wrapping when the end is read,   *)
(* and count the symbols of the direction                                   *)
Walk(d, start) ==
    LET walk[n \in 0..RbgSyms] ==
          IF n = 0 THEN [index |-> start, out |-> 0]
          ELSE LET i == IF walk[n - 1].index >= FrameLen THEN 0 ELSE walk[n - 1].index
               IN  [index |-> i + 1,
                    out |-> walk[n - 1].out + (IF Scheme[i + 1] = d THEN 1 ELSE 0)]
    IN  walk[RbgSyms]

\* fault: every slot is read from the beginning of the scheme
GetSymsFromStart(d) == Walk(d, 0)

GetSyms(d) == Walk(d, c_index[d])

(* grid::step begins: the UEs with packets are counted *)
Begin(d) ==
    /\ phase = "mac"
    /\ pos[d].at = "before"
    /\ pos' = [pos EXCEPT ![d].at = "slot"]
    /\ active' = [active EXCEPT ![d] = {u \in Ues : backlog[d][u] > 0}]
    /\ scheduled' = [scheduled EXCEPT ![d] = {}]
    /\ UNCHANGED <<phase, syms, c_index, rr, last, ues, todo, frame, waited>>

(* the next slot: how many of its symbols are the direction's *)
Slot(d) ==
    /\ pos[d].at = "slot"
    /\ pos' = [pos EXCEPT ![d].at = "rbg"]
    /\ IF Tdd
       THEN /\ syms' = [syms EXCEPT ![d] = GetSyms(d).out]
            /\ c_index' = [c_index EXCEPT ![d] = GetSyms(d).index]
       ELSE /\ syms' = [syms EXCEPT ![d] = RbgSyms]
            /\ UNCHANGED c_index
    /\ UNCHANGED <<phase, rr, active, scheduled, last, ues, todo, frame, waited>>

\* fault: the index wraps one too late
NextRrPastEnd(m, f) ==
    IF m.prev_f = f THEN m
    ELSE [index |-> IF m.index + 1 > NumUes THEN 0 ELSE m.index + 1, prev_f |-> f]

\* fault: the index moves once per slot
NextRrPerSlot(m, f) ==
    IF m.prev_f <= f THEN [m EXCEPT !.prev_f = f]
    ELSE [index |-> IF m.index + 1 >= NumUes THEN 0 ELSE m.index + 1, prev_f |-> f]

(* get_rr_metric: the index moves when another frequency is asked for *)
NextRr(m, f) ==
    IF m.prev_f = f THEN m
    ELSE [index |-> IF m.index + 1 >= NumUes THEN 0 ELSE m.index + 1, prev_f |-> f]

MetricOf(d, u, f) ==
    IF RoundRobin
    THEN IF NextRr(rr[d][u], f).index = u THEN 1 ELSE 0
    ELSE metric[d][u]

\* fault: a UE competes without packets
HasRate(d, u) == rate[d][u] > 0

HasData(d, u) == backlog[d][u] > 0 /\ rate[d][u] > 0

\* fault: the metric an RBG starts from keeps out a metric of zero
ResetMetricHigh == [ue |-> None, value |-> 1]

(* max_metric_handler::reset *)
ResetMetric == [ue |-> None, value |-> -1]

(* estimate_params: the UEs are evaluated in the order of the list *)
Assigned(d, f) ==
    LET best[n \in 0..NumUes] ==
          IF n = 0 THEN ResetMetric
          ELSE IF HasData(d, n - 1) /\ MetricOf(d, n - 1, f) >= best[n - 1].value
               THEN [ue |-> n - 1, value |-> MetricOf(d, n - 1, f)]
               ELSE best[n - 1]
    IN  IF syms[d] > 0 THEN best[NumUes].ue ELSE None

After(p) ==
    IF p.f + 1 < NumFreq THEN [p EXCEPT !.f = @ + 1]
    ELSE IF p.t + 1 < NumTime THEN [at |-> "slot", t |-> p.t + 1, f |-> 0]
    ELSE [at |-> "after", t |-> 0, f |-> 0]

(* one RBG: estimate_params, then handle_packet grants rate * syms bits *)
Rbg(d) ==
    LET f == pos[d].f
        u == Assigned(d, f)
    IN
    /\ pos[d].at = "rbg"
    /\ pos' = [pos EXCEPT ![d] = After(@)]
    /\ rr' = [rr EXCEPT ![d] =
                IF syms[d] > 0 THEN [v \in Ues |-> NextRr(rr[d][v], f)] ELSE @]
    /\ last' = [last EXCEPT ![d] = u]
    /\ scheduled' = [scheduled EXCEPT ![d] = IF u = None THEN @ ELSE @ \cup {u}]
    /\ backlog' = [backlog EXCEPT ![d] =
                     [v \in Ues |-> IF v # u THEN @[v]
                                    ELSE IF @[v] > rate[d][v] * syms[d]
                                    THEN @[v] - rate[d][v] * syms[d] ELSE 0]]
    /\ waited' = [waited EXCEPT ![d] =
                    [v \in Ues |-> IF v = u \/ ~HasData(d, v) THEN 0
                                   ELSE IF syms[d] > 0 /\ @[v] < NumUes THEN @[v] + 1
                                   ELSE @[v]]]
    /\ UNCHANGED <<phase, syms, c_index, active, rate, metric, todo, frame>>

(* wait_threads returns, and the UE step begins *)
MacDone ==
    /\ phase = "mac"
    /\ \A d \in Dirs : pos[d].at = "after"
    /\ phase' = "ue"
    /\ todo' = Ues
    /\ pos' = [d \in Dirs |-> Before]
    /\ frame' = (frame + NumTime * RbgSyms) % FrameLen
    /\ UNCHANGED <<syms, c_index, rr, active, scheduled, last, ues, waited>>

(* ue::step: packets arrive, expire and the channel changes; the round-robin *)
(* metric is not stored in metric_v                                          *)
UeStep(u) ==
    /\ phase = "ue"
    /\ u \in todo
    /\ todo' = todo \ {u}
    /\ \E b \in [Dirs -> 0..MaxBacklog], r \in [Dirs -> Rates],
          m \in [Dirs -> IF RoundRobin THEN {0} ELSE Metrics] :
         /\ backlog' = [d \in Dirs |-> [backlog[d] EXCEPT ![u] = b[d]]]
         /\ rate' = [d \in Dirs |-> [rate[d] EXCEPT ![u] = r[d]]]
         /\ metric' = [d \in Dirs |-> [metric[d] EXCEPT ![u] = m[d]]]
    /\ UNCHANGED <<phase, grid, frame, waited>>

UesDone ==
    /\ phase = "ue"
    /\ todo = {}
    /\ phase' = "mac"
    /\ UNCHANGED <<grid, ues, todo, frame, waited>>

Next ==
    \/ \E d \in Dirs : Begin(d) \/ Slot(d) \/ Rbg(d)
    \/ MacDone
    \/ \E u \in Ues : UeStep(u)
    \/ UesDone

Spec == Init /\ [][Next]_vars
-----------------------------------------------------------------------------
(* The type invariant. *)
TypeOK ==
    /\ phase \in {"mac", "ue"}
    /\ pos \in [Dirs -> [at : {"before", "slot", "rbg", "after"},
                         t : 0..(NumTime - 1), f : Freqs]]
    /\ syms \in [Dirs -> 0..RbgSyms]
    /\ c_index \in [Dirs -> 0..FrameLen]
    /\ rr \in [Dirs -> [Ues -> [index : Ues, prev_f : Freqs \cup {-1}]]]
    /\ backlog \in [Dirs -> [Ues -> 0..MaxBacklog]]
    /\ rate \in [Dirs -> [Ues -> Rates \cup {0}]]
    /\ metric \in [Dirs -> [Ues -> Metrics \cup {0}]]
    /\ active \in [Dirs -> SUBSET Ues]
    /\ scheduled \in [Dirs -> SUBSET Ues]
    /\ last \in [Dirs -> Ues \cup {None}]
    /\ todo \subseteq Ues
    /\ frame \in Nat
    /\ waited \in [Dirs -> [Ues -> 0..NumUes]]

(* Each direction counts for a slot the symbols the TDD frame gives it at   *)
(* that time, so that downlink and uplink, whose handlers count apart, never *)
(* use the same symbol, however slots and frame divide.                     *)
SymsOfTheFrame ==
    Tdd => \A d \in Dirs :
        pos[d].at = "rbg" =>
            syms[d] = Cardinality({k \in 0..(RbgSyms - 1) :
                Scheme[1 + ((frame + pos[d].t * RbgSyms + k) % FrameLen)] = d})

(* The statistics of a step agree: a UE is scheduled only if it was counted *)
(* among the active ones, so scheduled_ue_count <= active_ues_with_data.    *)
ScheduledWereActive ==
    phase = "mac" =>
        \A d \in Dirs : pos[d].at # "before" => scheduled[d] \subseteq active[d]

(* With the round-robin metric a UE with data is passed over for fewer RBGs *)
(* in a row than there are UEs: the indices kept by the UEs stay in step.   *)
RoundRobinFair ==
    RoundRobin => \A d \in Dirs, u \in Ues : waited[d][u] < NumUes

(* An RBG with symbols goes to a UE with data whose metric is the highest   *)
(* ("assigning the one with highest metric", resource_block.h), and stays   *)
(* empty only when no UE has data.                                          *)
HighestMetricAssigned ==
    [][\A d \in Dirs :
         pos[d].at = "rbg" /\ pos'[d] # pos[d] /\ syms[d] > 0 =>
           LET f == pos[d].f
               wanting == {u \in Ues : HasData(d, u)}
           IN  IF wanting = {} THEN last'[d] = None
               ELSE /\ last'[d] \in wanting
                    /\ \A u \in wanting : MetricOf(d, u, f) <= MetricOf(d, last'[d], f)]_vars
=============================================================================
