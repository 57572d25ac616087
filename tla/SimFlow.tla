------------------------------ MODULE SimFlow -------------------------------
(***************************************************************************)
(* One direction of a simulated UE: simulated_packet_handler splits what   *)
(* the traffic model generates into IP packets, the FIFO ip_buffer and     *)
(* handle_pkt carry them as in PdcpFlow, whole blocks wait in pkt_list for *)
(* their backhaul delay, and update_pending_packet puts the fragments of a *)
(* packet together whatever the order in which their blocks are released.  *)
(*                                                                         *)
(* `pc' is the loop of the main thread, as in PdcpFlow; the clock moves by *)
(* one of StepTimes per UE step, a late step moving it further.  Packets   *)
(* are numbered by current_id.  A packet refused by add_pkt gets no        *)
(* verdict: packet_handler::drop_ingress_pkt does nothing.                 *)
(***************************************************************************)
EXTENDS TrafficTrace, BufferSize

CONSTANTS
    MaxClock,    \* bound: the clock stops here, and the traffic with it
    StepTimes,   \* how far the clock may move in one UE step
    PktSize,     \* traffic_config::pkt_size, in bits
    MaxSize,     \* ip_buffer::max_size
    Budget,      \* pkt_delay_budget_s
    Grants,      \* what the scheduler may grant to one handle_pkt, in bits
    Delays       \* backhaul delay of a released block

ASSUME SimAssumption ==
    /\ MaxClock \in Nat /\ StepTimes \subseteq Nat \ {0}
    /\ PktSize \in Nat \ {0} /\ MaxSize \in Floats /\ Budget \in Nat
    /\ Grants \subseteq Nat \ {0} /\ Delays \subseteq Nat

VARIABLES
    clock, pc,
    ingress_pkts, q, current_size, bits, harq,
    pkt_list,        \* blocks that wait for the backhaul
    pending_results, \* uid -> what is known of a packet in fragments
    orig,            \* history: the size of every packet generated, by uid
    verdict,         \* history: the verdict of every packet, by uid
    generated,       \* history: bytes generated
    lost             \* history: packets some bits of which were dropped

flow == <<ingress_pkts, q, current_size, bits, harq>>
release == <<pkt_list, pending_results, verdict>>
history == <<orig, generated, lost>>
vars == <<file, clock, pc, flow, release, history>>

NoHarq == [bits |-> 0, pkts |-> <<>>, wait |-> 0]
NoFragments == [bits |-> 0, dropped |-> FALSE]

Init ==
    /\ TraceInit
    /\ clock = 0 /\ pc = "mac"
    /\ ingress_pkts = <<>> /\ q = <<>> /\ current_size = 0
    /\ bits = 0 /\ harq = NoHarq
    /\ pkt_list = <<>> /\ pending_results = <<>>
    /\ orig = <<>> /\ verdict = <<>> /\ generated = 0 /\ lost = {}

Uids == DOMAIN orig
-----------------------------------------------------------------------------
(* pdcp_layer::step begins *)
Step(dt) ==
    /\ pc = "mac"
    /\ clock' = IF clock + dt > MaxClock THEN MaxClock ELSE clock + dt
    /\ q' = [i \in DOMAIN q |->
               [q[i] EXCEPT !.age = IF @ > Budget THEN @ ELSE @ + dt]]
    /\ pkt_list' = [i \in DOMAIN pkt_list |->
               [pkt_list[i] EXCEPT !.wait = IF @ > dt THEN @ - dt ELSE 0]]
    /\ Call(clock')
    /\ pc' = "generate"
    /\ UNCHANGED <<ingress_pkts, current_size, bits, harq, pending_results,
                   verdict, history>>

Generate ==
    /\ pc = "generate"
    /\ ReadRecord(clock) \/ Rewind(clock)
    /\ UNCHANGED <<clock, pc, flow, release, history>>

\* fault: a last packet of full size is cut
CeilFloor(n) == n \div PktSize + 1

(* ceil(bits / pkt_size) *)
NumPkts(n) == (n + PktSize - 1) \div PktSize

(* simulated_packet_handler::ingest: packets of pkt_size, the last shorter *)
Ingest ==
    LET new == 8 * total_tp
        count == NumPkts(new)
        size == [i \in 1..count |->
                   IF i < count THEN PktSize ELSE new - (count - 1) * PktSize]
    IN
    /\ pc = "generate"
    /\ Exhausted(clock)
    /\ ingress_pkts' = ingress_pkts \o
          [i \in 1..count |-> [uid |-> Len(orig) + i, size |-> size[i], age |-> 0]]
    /\ orig' = orig \o size
    /\ verdict' = verdict \o [i \in 1..count |-> "none"]
    /\ generated' = generated + total_tp
    /\ pc' = "admit"
    /\ UNCHANGED <<file, clock, q, current_size, bits, harq, pkt_list,
                   pending_results, lost>>

(* drain_ingress_pkts: add_pkt takes the packet ... *)
Admit ==
    LET p == Head(ingress_pkts) IN
    /\ pc = "admit"
    /\ ingress_pkts # <<>>
    /\ \E sum \in Nearest(current_size + p.size) :
          sum <= MaxSize /\ current_size' = sum
    /\ ingress_pkts' = Tail(ingress_pkts)
    /\ q' = Append(q, p)
    /\ UNCHANGED <<file, clock, pc, bits, harq, release, history>>

(* ... or refuses it, and the packet is forgotten *)
Refuse ==
    LET p == Head(ingress_pkts) IN
    /\ pc = "admit"
    /\ ingress_pkts # <<>>
    /\ \E sum \in Nearest(current_size + p.size) : sum > MaxSize
    /\ ingress_pkts' = Tail(ingress_pkts)
    /\ verdict' = [verdict EXCEPT ![p.uid] = "refused"]
    /\ UNCHANGED <<file, clock, pc, q, current_size, bits, harq, pkt_list,
                   pending_results, history>>

AdmitDone ==
    /\ pc = "admit"
    /\ ingress_pkts = <<>>
    /\ pc' = "expire"
    /\ UNCHANGED <<file, clock, flow, release, history>>
-----------------------------------------------------------------------------
FragmentsOf(u) ==
    IF u \in DOMAIN pending_results THEN pending_results[u] ELSE NoFragments

\* fault: the first fragments of a packet are forgotten when it is dropped
AfterForgetful(pkts, dropped) ==
    [u \in DOMAIN pending_results \cup {pkts[i].uid : i \in DOMAIN pkts} |->
        [bits    |-> (IF dropped THEN 0 ELSE FragmentsOf(u).bits) + BitsOf(pkts, u),
         dropped |-> FragmentsOf(u).dropped \/ (dropped /\ BitsOf(pkts, u) > 0)]]

\* fault: the fragment that completes a packet decides alone
AfterLastWins(pkts, dropped) ==
    [u \in DOMAIN pending_results \cup {pkts[i].uid : i \in DOMAIN pkts} |->
        [bits    |-> FragmentsOf(u).bits + BitsOf(pkts, u),
         dropped |-> IF BitsOf(pkts, u) > 0 THEN dropped ELSE FragmentsOf(u).dropped]]

(* pending_results once the packets of a block have been accounted for *)
After(pkts, dropped) ==
    [u \in DOMAIN pending_results \cup {pkts[i].uid : i \in DOMAIN pkts} |->
        [bits    |-> FragmentsOf(u).bits + BitsOf(pkts, u),
         dropped |-> FragmentsOf(u).dropped \/ (dropped /\ BitsOf(pkts, u) > 0)]]

(* update_pending_packet for each of them; a complete packet gets a verdict *)
Account(pkts, dropped) ==
    LET after == After(pkts, dropped)
        done == {u \in DOMAIN after : after[u].bits >= orig[u]}
    IN
    /\ pending_results' = Restrict(after, DOMAIN after \ done)
    /\ verdict' = [u \in Uids |->
                     IF u \notin done THEN verdict[u]
                     ELSE IF after[u].dropped THEN "drop" ELSE "accept"]

(* cleanup_expired_ip_pkts: pop_oldest_pkt, then drop *)
Expire ==
    LET p == Head(q) IN
    /\ pc = "expire"
    /\ q # <<>>
    /\ p.age > Budget
    /\ q' = Tail(q)
    /\ current_size' \in Nearest(NotNegative(current_size - p.size))
    /\ Account(<<p>>, TRUE)
    /\ lost' = lost \cup {p.uid}
    /\ UNCHANGED <<file, clock, pc, ingress_pkts, bits, harq, pkt_list, orig, generated>>

ExpireDone ==
    /\ pc = "expire"
    /\ q # <<>> => Head(q).age <= Budget
    /\ pc' = "release"
    /\ UNCHANGED <<file, clock, flow, release, history>>

BlockDue(i) == pkt_list[i].wait = 0

(* the next block of the scan of release() *)
NextDue(i) == BlockDue(i) /\ \A j \in 1..(i - 1) : ~BlockDue(j)

(* simulated_packet_handler::release: every block that is due *)
Release ==
    \E i \in DOMAIN pkt_list :
        /\ pc = "release"
        /\ NextDue(i)
        /\ Account(pkt_list[i].pkts, FALSE)
        /\ pkt_list' = RemoveAt(pkt_list, i)
        /\ UNCHANGED <<file, clock, pc, flow, history>>

ReleaseDone ==
    /\ pc = "release"
    /\ \A i \in DOMAIN pkt_list : ~NextDue(i)
    /\ pc' = "mac"
    /\ UNCHANGED <<file, clock, flow, release, history>>
-----------------------------------------------------------------------------
(* handle_pkt, called by the resource grid *)
Handle(g, d) ==
    /\ pc = "mac"
    /\ q # <<>>
    /\ bits' = g
    /\ harq' = [NoHarq EXCEPT !.wait = d]
    /\ pc' = "get"
    /\ UNCHANGED <<file, clock, ingress_pkts, q, current_size, release, history>>

InHarq(u, size) ==
    [harq EXCEPT !.bits = @ + size, !.pkts = Append(@, [uid |-> u, size |-> size])]

(* what goes back to the front of the buffer when a packet is split *)
Rest(p) == p.size - bits

(* get_pkts: a whole packet ... *)
TakeWhole ==
    LET p == Head(q) IN
    /\ pc = "get"
    /\ bits > 0 /\ q # <<>>
    /\ bits >= p.size
    /\ bits' = bits - p.size
    /\ harq' = InHarq(p.uid, p.size)
    /\ q' = Tail(q)
    /\ UNCHANGED <<file, clock, pc, ingress_pkts, current_size, release, history>>

(* ... or a fragment *)
TakeFragment ==
    LET p == Head(q) IN
    /\ pc = "get"
    /\ bits > 0 /\ q # <<>>
    /\ bits < p.size
    /\ bits' = 0
    /\ harq' = InHarq(p.uid, bits)
    /\ q' = [q EXCEPT ![1].size = Rest(p)]
    /\ UNCHANGED <<file, clock, pc, ingress_pkts, current_size, release, history>>

(* release_pkts -> packet_handler::push: the block waits as a whole *)
Push ==
    /\ pc = "get"
    /\ bits = 0 \/ q = <<>>
    /\ current_size' \in Nearest(NotNegative(current_size - harq.bits))
    /\ pkt_list' = Append(pkt_list, [pkts |-> harq.pkts, wait |-> harq.wait])
    /\ bits' = 0
    /\ harq' = NoHarq
    /\ pc' = "mac"
    /\ UNCHANGED <<file, clock, ingress_pkts, q, pending_results, verdict, history>>
-----------------------------------------------------------------------------
UeStep ==
    \/ \E dt \in StepTimes : Step(dt)
    \/ Generate \/ Ingest
    \/ Admit \/ Refuse \/ AdmitDone
    \/ Expire \/ ExpireDone
    \/ Release \/ ReleaseDone
    \/ TakeWhole \/ TakeFragment \/ Push

Next ==
    \/ UeStep
    \/ \E g \in Grants, d \in Delays : Handle(g, d)

(* Steps follow one another; the scheduler owes the UE no resources. *)
Spec == Init /\ [][Next]_vars /\ WF_vars(UeStep)
-----------------------------------------------------------------------------
PcAt == {"mac", "generate", "admit", "expire", "release", "get"}
Verdicts == {"none", "refused", "drop", "accept"}
BufferEntry == [uid : Uids, size : Nat \ {0}, age : Nat]
BlockEntry == [uid : Uids, size : Nat \ {0}]

(* The type invariant. *)
TypeOK ==
    /\ TraceTypeOK
    /\ clock \in 0..MaxClock /\ pc \in PcAt
    /\ ingress_pkts \in Seq(BufferEntry) /\ q \in Seq(BufferEntry)
    /\ current_size \in Floats /\ bits \in Nat /\ generated \in Nat
    /\ harq \in [bits : Nat, pkts : Seq(BlockEntry), wait : Nat]
    /\ pkt_list \in Seq([pkts : Seq(BlockEntry), wait : Nat])
    /\ DOMAIN pending_results \subseteq Uids
    /\ \A u \in DOMAIN pending_results :
          pending_results[u] \in [bits : 1..orig[u], dropped : BOOLEAN]
    /\ orig \in Seq(1..PktSize) /\ verdict \in Seq(Verdicts)
    /\ lost \subseteq Uids

Decided(u) == verdict[u] # "none"

\* the bits of packet u in blocks that wait for the backhaul
BlockBits(list, u) == SumOf([i \in DOMAIN list |-> BitsOf(list[i].pkts, u)])

(* Between two loops every bit of a packet that waits for its verdict is in *)
(* the buffer, in a block or in pending_results, once; nothing is left of a *)
(* decided one, so pending_results does not grow with the packets that have *)
(* gone, and no packet is decided twice.                                    *)
BitsConserved ==
    pc \in {"mac", "release"} => \A u \in Uids :
        BitsOf(q, u) + FragmentsOf(u).bits + BlockBits(pkt_list, u)
        = IF Decided(u) THEN 0 ELSE orig[u]

(* A packet some bits of which were dropped is never accepted, even when    *)
(* the rest arrives later, and a packet is dropped only if some bits were.  *)
FateMatchesData ==
    \A u \in Uids : verdict[u] \in {"accept", "drop"} =>
        (verdict[u] = "drop" <=> u \in lost)

(* Every packet that was generated is decided: no fragment is left waiting  *)
(* for one that will never come, and generate() returns.                    *)
EveryPacketDecided == []<>(\A u \in Uids : Decided(u))

(* The traffic is that of the file until its last record and never less     *)
(* afterwards, however irregular the steps of the clock are.                *)
TrafficFollowsFile ==
    pc = "mac" /\ clock > 0 =>
                  /\ clock < Duration => generated = BytesUntil(clock)
                  /\ generated >= BytesUntil(clock)
=============================================================================
