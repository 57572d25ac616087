------------------------------ MODULE PdcpFlow ------------------------------
(***************************************************************************)
(* One direction of an emulated UE whose traffic is captured from the      *)
(* host: pkt_capture -> captured_packet_handler -> ip_buffer -> HARQ block *)
(* -> out_pkts -> verdict, as pdcp_layer drives them, with the plain FIFO  *)
(* buffer (l4s_dual_queue: false; DualPdcp has the other one).             *)
(*                                                                         *)
(* The main thread alternates a MAC step, in which the scheduler calls     *)
(* handle_pkt any number of times, and a UE step: pdcp_layer::step then    *)
(* pdcp_layer::release.  `pc' says which loop of this sequence is running  *)
(* and one action is one iteration of that loop; the reader thread of      *)
(* pkt_capture captures packets at any time, in between.                   *)
(*                                                                         *)
(* Packets are numbered by capture, so that the capture queue, a FIFO, is  *)
(* the interval ingested + 1 .. captured, the ingress queue is             *)
(* admitted + 1 .. ingested, and the uid captured just before u (prev_uid) *)
(* is u - 1.  Time is relative: `age' is current_t - pkt.current_t, capped *)
(* where its only use (the delay budget) stops telling values apart, and   *)
(* `wait' is t_out - current_t, capped at 0.  get_rtx returns 0 in this    *)
(* build, so the HARQ buffer stays empty and no block is retransmitted.     *)
(***************************************************************************)
EXTENDS ReleaseBuffer, BufferSize

CONSTANTS
    MaxSize,     \* ip_buffer::max_size
    Budget,      \* pkt_delay_budget_s, in steps
    Grants,      \* what the scheduler may grant to one handle_pkt, in bits
    Delays       \* backhaul delay of a released block, in steps

ASSUME MaxSizeAssumption == MaxSize \in Floats
ASSUME BudgetAssumption == Budget \in Nat
ASSUME GrantsAssumption == Grants \subseteq Nat \ {0}
ASSUME DelaysAssumption == Delays \subseteq Nat

VARIABLES
    captured, ingested, admitted,  \* how far each stage has got
    pc,          \* the loop the main thread is in
    q,           \* ip_buffer::pkt_list
    current_size,\* ip_buffer::current_size
    rounded,     \* history: a sum above Exact, perhaps rounded, was stored in it
    bits,        \* what is left of the grant being served
    harq,        \* the harq_pkt under construction
    sent,        \* history: bits of each packet taken out of the buffer
    lost         \* history: packets some bits of which were dropped

vars == <<captured, ingested, admitted, pc, q, current_size, rounded, bits, harq,
          out_pkts, prev_released_id, verdict, sent, lost>>
stages == <<captured, ingested, admitted>>
buffer == <<q, current_size, rounded>>
grant == <<bits, harq>>
history == <<sent, lost>>

NoHarq == [bits |-> 0, pkts |-> <<>>, wait |-> 0]

Init ==
    /\ captured = 0 /\ ingested = 0 /\ admitted = 0
    /\ pc = "mac"
    /\ q = <<>> /\ current_size = 0 /\ rounded = FALSE
    /\ bits = 0 /\ harq = NoHarq
    /\ ReleaseInit
    /\ sent = [u \in Pkts |-> 0] /\ lost = {}
-----------------------------------------------------------------------------
(* The reader thread: enqueue_captured_packet *)
Capture ==
    /\ captured < NumPkts
    /\ captured' = captured + 1
    /\ UNCHANGED <<ingested, admitted, pc, buffer, grant, release, history>>

(* pdcp_layer::step begins: a step of time has passed *)
Step ==
    /\ pc = "mac"
    /\ pc' = "ingest"
    /\ q' = [i \in DOMAIN q |->
               [q[i] EXCEPT !.age = IF @ > Budget THEN @ ELSE @ + 1]]
    /\ out_pkts' = Later
    /\ UNCHANGED <<stages, current_size, rounded, grant, prev_released_id, verdict, history>>

(* captured_packet_handler::ingest *)
Ingest ==
    /\ pc = "ingest"
    /\ ingested < captured
    /\ ingested' = ingested + 1
    /\ UNCHANGED <<captured, admitted, pc, buffer, grant, release, history>>

IngestDone ==
    /\ pc = "ingest"
    /\ ingested = captured
    /\ pc' = "admit"
    /\ UNCHANGED <<stages, buffer, grant, release, history>>

(* drain_ingress_pkts: ip_buffer::add_pkt takes the packet ... *)
Admit ==
    LET u == admitted + 1 IN
    /\ pc = "admit"
    /\ admitted < ingested
    /\ \E sum \in Nearest(current_size + Size[u]) :
          sum <= MaxSize /\ current_size' = sum
    /\ rounded' = (rounded \/ current_size + Size[u] > Exact)
    /\ q' = Append(q, [uid |-> u, size |-> Size[u], age |-> 0])
    /\ admitted' = u
    /\ UNCHANGED <<captured, ingested, pc, grant, release, history>>

(* ... or has no room for it: drop_ingress_pkt *)
TailDrop ==
    LET u == admitted + 1 IN
    /\ pc = "admit"
    /\ admitted < ingested
    /\ \E sum \in Nearest(current_size + Size[u]) : sum > MaxSize
    /\ out_pkts' \in Sortings(Append(out_pkts, Entry(u, Size[u], 0, FALSE, TRUE)))
    /\ lost' = lost \cup {u}
    /\ admitted' = u
    /\ UNCHANGED <<captured, ingested, pc, buffer, grant, prev_released_id,
                   verdict, sent>>

AdmitDone ==
    /\ pc = "admit"
    /\ admitted = ingested
    /\ pc' = "expire"
    /\ UNCHANGED <<stages, buffer, grant, release, history>>

Expired(e) == e.age > Budget

(* cleanup_expired_ip_pkts: pop_oldest_pkt and drop_harq_pkt *)
Expire ==
    LET e == Head(q) IN
    /\ pc = "expire"
    /\ q # <<>>
    /\ Expired(e)
    /\ q' = Tail(q)
    /\ current_size' \in Nearest(NotNegative(current_size - e.size))
    /\ out_pkts' = WithoutData(e.uid, e.size)
    /\ sent' = [sent EXCEPT ![e.uid] = @ + e.size]
    /\ lost' = lost \cup {e.uid}
    /\ UNCHANGED <<stages, pc, rounded, grant, prev_released_id, verdict>>

\* fault: one packet per step at most is looked at
ExpireOnce ==
    /\ pc = "expire"
    /\ pc' = "release"
    /\ UNCHANGED <<stages, buffer, grant, release, history>>

ExpireDone ==
    /\ pc = "expire"
    /\ q # <<>> => ~Expired(Head(q))
    /\ pc' = "release"
    /\ UNCHANGED <<stages, buffer, grant, release, history>>
-----------------------------------------------------------------------------
(* captured_packet_handler::release                                        *)

ReleaseDrop ==
    /\ pc = "release"
    /\ DropFirst
    /\ UNCHANGED <<stages, pc, buffer, grant, history>>

ReleaseAccept ==
    /\ pc = "release"
    /\ AcceptFirst
    /\ UNCHANGED <<stages, pc, buffer, grant, history>>

ReleaseDone ==
    /\ pc = "release"
    /\ NothingDue
    /\ pc' = "mac"
    /\ UNCHANGED <<stages, buffer, grant, release, history>>
-----------------------------------------------------------------------------
(* pdcp_layer::handle_pkt, called by the resource grid                     *)

Handle(g, d) ==
    /\ pc = "mac"
    /\ q # <<>>
    /\ bits' = g
    /\ harq' = [NoHarq EXCEPT !.wait = d]
    /\ pc' = "get"
    /\ UNCHANGED <<stages, buffer, release, history>>

InHarq(u, size) ==
    [harq EXCEPT !.bits = @ + size, !.pkts = Append(@, [uid |-> u, size |-> size])]

\* faults: the remainder goes to the tail; its size is not reduced
RequeueTail(e) == Append(Tail(q), e)
RequeueUncut(e) == q

(* backend_requeue_front of the fragment just popped *)
RequeueFront(e) == [q EXCEPT ![1] = e]

\* fault: a packet that fits exactly is split, and leaves an empty remainder
FitsStrictly(e) == bits > e.size

Fits(e) == bits >= e.size

(* ip_buffer::get_pkts: the packet fits in what is left of the grant ... *)
TakeWhole ==
    LET e == Head(q) IN
    /\ pc = "get"
    /\ bits > 0
    /\ q # <<>>
    /\ Fits(e)
    /\ bits' = bits - e.size
    /\ harq' = InHarq(e.uid, e.size)
    /\ q' = Tail(q)
    /\ sent' = [sent EXCEPT ![e.uid] = @ + e.size]
    /\ UNCHANGED <<stages, pc, current_size, rounded, release, lost>>

(* ... or is split, its remainder going back to the front of the buffer *)
TakeFragment ==
    LET e == Head(q) IN
    /\ pc = "get"
    /\ bits > 0
    /\ q # <<>>
    /\ ~Fits(e)
    /\ bits' = 0
    /\ harq' = InHarq(e.uid, bits)
    /\ q' = RequeueFront([e EXCEPT !.size = @ - bits])
    /\ sent' = [sent EXCEPT ![e.uid] = @ + bits]
    /\ UNCHANGED <<stages, pc, current_size, rounded, release, lost>>

GetDone ==
    /\ pc = "get"
    /\ bits = 0 \/ q = <<>>
    /\ current_size' \in Nearest(NotNegative(current_size - harq.bits))
    /\ bits' = 0
    /\ pc' = "push"
    /\ UNCHANGED <<stages, q, rounded, harq, release, history>>

(* release_pkts -> captured_packet_handler::push, one packet of the block *)
Push ==
    LET p == Head(harq.pkts) IN
    /\ pc = "push"
    /\ harq.pkts # <<>>
    /\ out_pkts' = WithData(p.uid, p.size, harq.wait, FALSE)
    /\ harq' = [harq EXCEPT !.pkts = Tail(@)]
    /\ UNCHANGED <<stages, pc, buffer, bits, prev_released_id, verdict, history>>

PushDone ==
    /\ pc = "push"
    /\ harq.pkts = <<>>
    /\ out_pkts' \in Sortings(out_pkts)
    /\ harq' = NoHarq
    /\ pc' = "mac"
    /\ UNCHANGED <<stages, buffer, bits, prev_released_id, verdict, history>>
-----------------------------------------------------------------------------
(* The iterations the main thread is bound to make, one after the other. *)
UeStep ==
    \/ Step
    \/ Ingest \/ IngestDone
    \/ Admit \/ TailDrop \/ AdmitDone
    \/ Expire \/ ExpireDone
    \/ ReleaseDrop \/ ReleaseAccept \/ ReleaseDone
    \/ TakeWhole \/ TakeFragment \/ GetDone
    \/ Push \/ PushDone

Next ==
    \/ Capture
    \/ UeStep
    \/ \E g \in Grants, d \in Delays : Handle(g, d)

Safety == Init /\ [][Next]_vars

(* Steps of the emulator follow one another; the scheduler owes the UE no   *)
(* resources, so Handle has no fairness.                                    *)
Spec == Safety /\ WF_vars(UeStep)
-----------------------------------------------------------------------------
PcAt == {"mac", "ingest", "admit", "expire", "release", "get", "push"}

BufferEntry == [uid : Pkts, size : Nat \ {0}, age : Nat]
BlockEntry == [uid : Pkts, size : Nat \ {0}]

(* The type invariant. *)
TypeOK ==
    /\ captured \in Nat /\ ingested \in Nat /\ admitted \in Nat
    /\ admitted <= ingested /\ ingested <= captured /\ captured <= NumPkts
    /\ pc \in PcAt
    /\ q \in Seq(BufferEntry)
    /\ current_size \in Floats
    /\ rounded \in BOOLEAN
    /\ bits \in Nat
    /\ harq \in [bits : Nat, pkts : Seq(BlockEntry), wait : Nat]
    /\ ReleaseTypeOK
    /\ sent \in [Pkts -> Nat]
    /\ lost \subseteq Pkts

(* Packets get one verdict each and the accepted ones leave in capture      *)
(* order: the FIFO buffer, the merge of fragments in out_pkts and the scan  *)
(* of release() together implement PacketFate, with or without order_pkts.  *)
Fate == INSTANCE PacketFate WITH held <- captured, fate <- verdict

OneOrderedVerdict == Fate!Spec

(* A packet is accepted only when every bit of it went through the radio    *)
(* and none was dropped, and is dropped only if some bit was.               *)
FateMatchesData ==
    \A u \in Pkts :
        /\ Accepted(u) => sent[u] = Size[u] /\ u \notin lost
        /\ verdict[u] = "drop" => u \in lost



(* Between two loops no bit of a packet is missing or counted twice: what   *)
(* is buffered and what waits in out_pkts make up an undecided packet, and  *)
(* nothing is left of a decided one, so it cannot get a second verdict.     *)
BitsConserved ==
    pc \in {"mac", "release"} =>
        \A u \in 1..admitted :
            BitsOf(q, u) + BitsOf(out_pkts, u) =
                IF verdict[u] = "none" THEN Size[u] ELSE 0

(* current_size, on which add_pkt decides, never exceeds max_size, and is    *)
(* what the buffer holds (together with the block get_pkts is filling) until  *)
(* a sum above Exact was stored in it.  From then on it may be off by what    *)
(* was rounded away, for good: nothing recomputes it, not even when the       *)
(* buffer is empty.                                                           *)
SizeAccounted ==
    /\ current_size <= MaxSize
    /\ ~rounded =>
          current_size = SumSizes(q) + (IF pc = "get" THEN harq.bits ELSE 0)

(* After a UE step nothing older than the delay budget is buffered, so the  *)
(* next MAC step never transmits an expired packet (handle_pkt's own test   *)
(* of is_expired has nothing to drop).  pdcp_flow_test asserts the same of  *)
(* ip_oldest_age.                                                           *)
NoExpiredBuffered ==
    pc \in {"release", "mac", "get"} => \A i \in DOMAIN q : ~Expired(q[i])

(* Why the verdicts come in capture order, one per packet: the inductive    *)
(* invariant of PdcpFlowProofs.  The parts of a packet are at most one      *)
(* entry of the buffer, one of the block under way and one of out_pkts.     *)
Live(i) == ~out_pkts[i].erase

\* buffer and block are in capture order, the block ahead of the buffer
InFlightOrder ==
    /\ \A i, j \in DOMAIN q : i < j => q[i].uid < q[j].uid
    /\ \A i, j \in DOMAIN harq.pkts : i < j => harq.pkts[i].uid < harq.pkts[j].uid
    /\ \A i \in DOMAIN harq.pkts, j \in DOMAIN q :
          /\ harq.pkts[i].uid <= q[j].uid
          /\ pc = "get" /\ bits > 0 => harq.pkts[i].uid < q[j].uid
    /\ \A i \in DOMAIN q : q[i].uid <= admitted
    /\ \A i \in DOMAIN harq.pkts : harq.pkts[i].uid <= admitted
    /\ pc \notin {"get", "push"} => harq.pkts = <<>>

\* out_pkts has one entry per packet, its live ones sorted and ahead of the rest
ReleaseOrder ==
    /\ \A i, j \in DOMAIN out_pkts : out_pkts[i].uid = out_pkts[j].uid => i = j
    /\ \A i, j \in DOMAIN out_pkts :
          i < j /\ Live(i) /\ Live(j) => out_pkts[i].uid < out_pkts[j].uid
    /\ \A i \in DOMAIN out_pkts : out_pkts[i].uid <= admitted
    /\ \A i \in DOMAIN out_pkts : Live(i) =>
          /\ \A j \in DOMAIN q : out_pkts[i].uid <= q[j].uid
          /\ \A j \in DOMAIN harq.pkts : out_pkts[i].uid <= harq.pkts[j].uid

\* a complete entry of out_pkts has no part elsewhere
Accounting ==
    /\ \A u \in Pkts : sent[u] <= Size[u]
    /\ \A j \in DOMAIN q : q[j].size + sent[q[j].uid] = Size[q[j].uid]
    /\ \A k \in DOMAIN harq.pkts : harq.pkts[k].size <= sent[harq.pkts[k].uid]
    /\ \A i \in DOMAIN out_pkts :
          /\ \A j \in DOMAIN q : q[j].uid = out_pkts[i].uid =>
                out_pkts[i].size <= sent[q[j].uid]
          /\ \A k \in DOMAIN harq.pkts : harq.pkts[k].uid = out_pkts[i].uid =>
                out_pkts[i].size + harq.pkts[k].size <= sent[harq.pkts[k].uid]
    /\ \A u \in Pkts : u > admitted => sent[u] = 0

\* nothing is left of a decided packet, and the accepted ones are ahead of the rest
DecidedOrder ==
    \A u \in Pkts : verdict[u] # "none" =>
        /\ u <= admitted
        /\ \A i \in DOMAIN q : q[i].uid # u /\ (Accepted(u) => u <= q[i].uid)
        /\ \A i \in DOMAIN harq.pkts :
              harq.pkts[i].uid # u /\ (Accepted(u) => u <= harq.pkts[i].uid)
        /\ \A i \in DOMAIN out_pkts :
              out_pkts[i].uid # u /\ (Accepted(u) /\ Live(i) => u <= out_pkts[i].uid)

(* The four together. *)
PipelineInOrder == InFlightOrder /\ ReleaseOrder /\ Accounting /\ DecidedOrder

\* some packet was refused by add_pkt, so nothing of it was ever sent
TailDropped == \E u \in lost : sent[u] = 0

(* The order gate of release() withholds verdicts only after a tail drop.   *)
DecidedUnlessTailDropped ==
    \A u \in Pkts : (captured >= u) ~> (verdict[u] # "none" \/ TailDropped)
=============================================================================
