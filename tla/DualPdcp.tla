------------------------------ MODULE DualPdcp ------------------------------
(***************************************************************************)
(* The same direction of a UE as PdcpFlow with l4s_dual_queue: true:       *)
(* ip_buffer keeps its packets in a dualpi2_queue, two FIFOs of which one  *)
(* is chosen at every pop, and its AQM marks packets with CE or drops      *)
(* them.  The remainder of a split packet is enqueued again at the tail.   *)
(*                                                                         *)
(* The path of a packet from the capture to the buffer is the one of       *)
(* PdcpFlow and one action, Admit, here; the buffer does not overflow.     *)
(*                                                                         *)
(* The PI controller is abstracted to the sign of p_base: "zero", "some",  *)
(* or "one", its upper bound.  An update cannot raise p_base when the      *)
(* queue delay is neither above target nor growing, and cannot lower it    *)
(* when it is neither below target nor shrinking.  A probability strictly  *)
(* between 0 and 1 marks or does not mark.                                 *)
(***************************************************************************)
EXTENDS ReleaseBuffer, BufferSize, FiniteSetsExt

CONSTANTS
    Ecns,        \* ECN codepoints of the captured packets
    Budget,      \* pkt_delay_budget_s, in steps
    Grants,      \* what the scheduler may grant to one handle_pkt, in bits
    Delays,      \* backhaul delay of a block, in steps
    Target,      \* l4s_target, in steps
    MinTh,       \* l4s_min_th, in steps
    Guard        \* l4s_classic_guard, in steps

ASSUME EcnsAssumption == Ecns \subseteq {"not_ect", "ect0", "ect1", "ce"}
ASSUME DualBudgetAssumption == Budget \in Nat
ASSUME DualGrantsAssumption == Grants \subseteq Nat \ {0}
ASSUME DualDelaysAssumption == Delays \subseteq Nat
ASSUME AqmAssumption == Target \in Nat /\ MinTh \in Nat /\ Guard \in Nat

VARIABLES
    admitted,      \* packets captured and admitted so far
    pc,            \* the loop the main thread is in
    lq, cq,        \* l_queue, c_queue
    dropped_queue,
    p_base, prev_q,
    classic_idle,  \* current_t - last_classic_dequeue_t, capped at Guard
    current_size,  \* ip_buffer::current_size
    rounded,       \* history: a sum above Exact, perhaps rounded, was stored in it
    granted,       \* the argument of handle_pkt
    bits,          \* what get_pkts has left of it
    harq,          \* the harq_pkt under construction
    ecn_in,        \* history: the ECN field of each packet at its capture
    sent, lost,    \* history, as in PdcpFlow
    marked         \* history: packets a transmitted part of which has been marked

vars == <<admitted, pc, lq, cq, dropped_queue, p_base, prev_q, classic_idle,
          current_size, rounded, granted, bits, harq, out_pkts, prev_released_id,
          verdict, ecn_in, sent, lost, marked>>
queues == <<lq, cq, dropped_queue, classic_idle, current_size, rounded>>
aqm == <<p_base, prev_q>>
grant == <<granted, bits, harq>>
history == <<ecn_in, sent, lost, marked>>

NoHarq == [bits |-> 0, pkts |-> <<>>, age |-> 0, wait |-> 0]

Init ==
    /\ admitted = 0
    /\ pc = "mac"
    /\ lq = <<>> /\ cq = <<>> /\ dropped_queue = <<>>
    /\ p_base = "zero" /\ prev_q = 0 /\ classic_idle = 0
    /\ current_size = 0 /\ rounded = FALSE
    /\ granted = 0 /\ bits = 0 /\ harq = NoHarq
    /\ ReleaseInit
    /\ ecn_in \in [Pkts -> Ecns]
    /\ sent = [u \in Pkts |-> 0] /\ lost = {} /\ marked = {}

IsL4s(e) == e.ecn \in {"ect1", "ce"}

Enqueue(e) ==
    /\ lq' = IF IsL4s(e) THEN Append(lq, e) ELSE lq
    /\ cq' = IF IsL4s(e) THEN cq ELSE Append(cq, e)

HasPkts == lq # <<>> \/ cq # <<>>

(* peek_oldest: the older of the two heads, the L4S one on a tie *)
OldestIsL4s == cq = <<>> \/ (lq # <<>> /\ Head(lq).age >= Head(cq).age)
Oldest == Head(IF OldestIsL4s THEN lq ELSE cq)

Expired(age) == age > Budget
-----------------------------------------------------------------------------
(* The UE step: dualpi2_queue::step, then the loops of pdcp_layer::step.   *)

Delay(s) == IF s = <<>> THEN 0 ELSE Head(s).age

Older(s) == [i \in DOMAIN s |->
               [s[i] EXCEPT !.age = IF @ > Budget THEN @ ELSE @ + 1]]

(* maybe_update_pi: not before next_update_t, which is not modelled *)
UpdatePi(curq) ==
    \/ UNCHANGED aqm
    \/ /\ prev_q' = curq
       /\ p_base' \in {"zero", "some", "one"}
       /\ curq <= Target /\ curq <= prev_q =>
            CASE p_base = "zero" -> p_base' = "zero"
              [] p_base = "some" -> p_base' # "one"
              [] p_base = "one"  -> TRUE
       /\ curq >= Target /\ curq >= prev_q =>
            CASE p_base = "zero" -> TRUE
              [] p_base = "some" -> p_base' # "zero"
              [] p_base = "one"  -> p_base' = "one"

Step ==
    /\ pc = "mac"
    /\ pc' = "admit"
    /\ lq' = Older(lq)
    /\ cq' = Older(cq)
    /\ classic_idle' = Min({classic_idle + 1, Guard})
    /\ UpdatePi(Max({Delay(lq'), Delay(cq')}))
    /\ out_pkts' = Later
    /\ UNCHANGED <<admitted, dropped_queue, current_size, rounded, grant,
                   prev_released_id, verdict, history>>

Admit ==
    LET u == admitted + 1 IN
    /\ pc = "admit"
    /\ u \in Pkts
    /\ admitted' = u
    /\ Enqueue([uid |-> u, size |-> Size[u], age |-> 0, ecn |-> ecn_in[u], ce |-> FALSE])
    /\ current_size' \in Nearest(current_size + Size[u])
    /\ rounded' = (rounded \/ current_size + Size[u] > Exact)
    /\ UNCHANGED <<pc, dropped_queue, classic_idle, aqm, grant, release, history>>

AdmitDone ==
    /\ pc = "admit"
    /\ pc' = "expire"
    /\ UNCHANGED <<admitted, queues, aqm, grant, release, history>>

(* cleanup_expired_ip_pkts: pop_oldest looks at the two heads only *)
Expire ==
    /\ pc = "expire"
    /\ HasPkts
    /\ Expired(Oldest.age)
    /\ IF OldestIsL4s THEN lq' = Tail(lq) /\ UNCHANGED cq
                      ELSE cq' = Tail(cq) /\ UNCHANGED lq
    /\ current_size' \in Nearest(NotNegative(current_size - Oldest.size))
    /\ out_pkts' = WithoutData(Oldest.uid, Oldest.size)
    /\ sent' = [sent EXCEPT ![Oldest.uid] = @ + Oldest.size]
    /\ lost' = lost \cup {Oldest.uid}
    /\ UNCHANGED <<admitted, pc, dropped_queue, classic_idle, rounded, aqm, grant,
                   prev_released_id, verdict, ecn_in, marked>>

ExpireDone ==
    /\ pc = "expire"
    /\ HasPkts => ~Expired(Oldest.age)
    /\ pc' = "release"
    /\ UNCHANGED <<admitted, queues, aqm, grant, release, history>>

ReleaseDrop ==
    /\ pc = "release"
    /\ DropFirst
    /\ UNCHANGED <<admitted, pc, queues, aqm, grant, history>>

ReleaseAccept ==
    /\ pc = "release"
    /\ AcceptFirst
    /\ UNCHANGED <<admitted, pc, queues, aqm, grant, history>>

ReleaseDone ==
    /\ pc = "release"
    /\ NothingDue
    /\ pc' = "mac"
    /\ UNCHANGED <<admitted, queues, aqm, grant, release, history>>
-----------------------------------------------------------------------------
(* pdcp_layer::handle_pkt                                                  *)

(* one iteration of its loop begins: a new harq_pkt as old as the oldest    *)
(* head; its backhaul delay, drawn when it is pushed, is known from here on *)
BeginBlock(d) ==
    /\ harq' = [NoHarq EXCEPT !.age = Oldest.age, !.wait = d]
    /\ pc' = "get"

Handle(g, d) ==
    /\ pc = "mac"
    /\ HasPkts
    /\ granted' = g
    /\ bits' = g
    /\ BeginBlock(d)
    /\ UNCHANGED <<admitted, queues, aqm, release, history>>

(* choose_l4s and the fallback of pop_next: no queue is served while empty *)
ChooseL4s ==
    /\ lq # <<>>
    /\ cq = <<>> \/ Guard = 0 \/ classic_idle < Guard

Chosen == Head(IF ChooseL4s THEN lq ELSE cq)

MarkCe(e) == IF e.ecn = "ce" THEN e ELSE [e EXCEPT !.ecn = "ce", !.ce = TRUE]

(* mark_likelihood: what a draw may say *)
L4sMark(e) == IF p_base = "zero" /\ e.age <= MinTh THEN {FALSE} ELSE BOOLEAN
ClassicMark == CASE p_base = "zero" -> {FALSE}
                 [] p_base = "some" -> BOOLEAN
                 [] p_base = "one"  -> {TRUE}

\* fault: any classic packet may be marked
MarkableAlways(e) == p_base # "one"

(* the fate of a packet the classic draw marks: CE if ECT(0), else a drop *)
ClassicMarkable(e) == e.ecn = "ect0" /\ p_base # "one"

(* the forms in which pop_next may return its packet *)
Marked(e) ==
    {IF m THEN MarkCe(e) ELSE e :
        m \in IF IsL4s(e) THEN L4sMark(e)
              ELSE {d \in ClassicMark : d => ClassicMarkable(e)}}

Popping ==
    /\ pc = "get"
    /\ bits > 0
    /\ HasPkts

LqPopped == IF ChooseL4s THEN Tail(lq) ELSE lq
CqPopped == IF ChooseL4s THEN cq ELSE Tail(cq)
IdlePopped == IF ChooseL4s THEN classic_idle ELSE 0

(* pop_next: an iteration that drops the packet it has popped *)
AqmDrop ==
    /\ Popping
    /\ ~ChooseL4s
    /\ TRUE \in ClassicMark
    /\ ~ClassicMarkable(Chosen)
    /\ lq' = LqPopped /\ cq' = CqPopped
    /\ classic_idle' = IdlePopped
    /\ dropped_queue' = Append(dropped_queue, Chosen)
    /\ UNCHANGED <<admitted, pc, current_size, rounded, aqm, grant, release, history>>

Packed(e, size) ==
    [harq EXCEPT !.bits = @ + size,
                 !.pkts = Append(@, [uid |-> e.uid, size |-> size, ce |-> e.ce])]

\* fault: a packet that fits exactly is split, and leaves an empty remainder
FitsStrictly(e) == bits > e.size

Fits(e) == bits >= e.size

\* fault: the remainder keeps the size of the packet
RestUncut(e) == e

Rest(e) == [e EXCEPT !.size = @ - bits]

(* get_pkts: the popped packet fits in what is left of the grant ... *)
TakeWhole ==
    /\ Popping
    /\ Fits(Chosen)
    /\ \E e \in Marked(Chosen) :
         /\ bits' = bits - e.size
         /\ harq' = Packed(e, e.size)
    /\ lq' = LqPopped /\ cq' = CqPopped
    /\ classic_idle' = IdlePopped
    /\ UNCHANGED <<admitted, pc, dropped_queue, current_size, rounded, granted,
                   aqm, release, history>>

(* ... or is split, and the remainder, mark included, is enqueued again *)
TakeFragment ==
    /\ Popping
    /\ ~Fits(Chosen)
    /\ \E e \in Marked(Chosen) :
         /\ harq' = Packed(e, bits)
         /\ lq' = IF IsL4s(e) THEN Append(LqPopped, Rest(e)) ELSE LqPopped
         /\ cq' = IF IsL4s(e) THEN CqPopped ELSE Append(CqPopped, Rest(e))
    /\ bits' = 0
    /\ classic_idle' = IdlePopped
    /\ UNCHANGED <<admitted, pc, dropped_queue, current_size, rounded, granted,
                   aqm, release, history>>

GetDone ==
    /\ pc = "get"
    /\ bits = 0 \/ ~HasPkts
    /\ current_size' \in Nearest(NotNegative(current_size - harq.bits))
    /\ pc' = "drain"
    /\ UNCHANGED <<admitted, lq, cq, dropped_queue, classic_idle, rounded, aqm,
                   grant, release, history>>

(* pop_aqm_dropped_pkt and packet_handler::drop *)
Drain ==
    LET e == Head(dropped_queue) IN
    /\ pc = "drain"
    /\ dropped_queue # <<>>
    /\ dropped_queue' = Tail(dropped_queue)
    /\ current_size' \in Nearest(NotNegative(current_size - e.size))
    /\ out_pkts' = WithoutData(e.uid, e.size)
    /\ sent' = [sent EXCEPT ![e.uid] = @ + e.size]
    /\ lost' = lost \cup {e.uid}
    /\ UNCHANGED <<admitted, pc, lq, cq, classic_idle, rounded, aqm, grant,
                   prev_released_id, verdict, ecn_in, marked>>

(* what the block is for: nothing (all dropped), the drop, or the radio *)
DrainDone ==
    /\ pc = "drain"
    /\ dropped_queue = <<>>
    /\ pc' = IF harq.bits = 0 THEN "next"
             ELSE IF Expired(harq.age) THEN "discard" ELSE "push"
    /\ UNCHANGED <<admitted, queues, aqm, grant, release, history>>

Transfer(p) ==
    /\ harq.pkts # <<>>
    /\ harq' = [harq EXCEPT !.pkts = Tail(@)]
    /\ sent' = [sent EXCEPT ![p.uid] = @ + p.size]

(* is_expired: drop_harq_pkt of the whole block, one packet of it *)
Discard ==
    LET p == Head(harq.pkts) IN
    /\ pc = "discard"
    /\ Transfer(p)
    /\ out_pkts' = WithoutData(p.uid, p.size)
    /\ lost' = lost \cup {p.uid}
    /\ UNCHANGED <<admitted, pc, queues, aqm, granted, bits, prev_released_id,
                   verdict, ecn_in, marked>>

DiscardDone ==
    /\ pc = "discard"
    /\ harq.pkts = <<>>
    /\ pc' = "next"
    /\ UNCHANGED <<admitted, queues, aqm, grant, release, history>>

(* continue: the loop goes on with the whole grant *)
NextBlock ==
    /\ pc = "next"
    /\ HasPkts
    /\ bits' = granted
    /\ \E d \in Delays : BeginBlock(d)
    /\ UNCHANGED <<admitted, queues, aqm, granted, release, history>>

HandleDone ==
    /\ pc = "next"
    /\ ~HasPkts
    /\ pc' = "mac"
    /\ granted' = 0 /\ bits' = 0 /\ harq' = NoHarq
    /\ UNCHANGED <<admitted, queues, aqm, release, history>>

Push ==
    LET p == Head(harq.pkts) IN
    /\ pc = "push"
    /\ Transfer(p)
    /\ out_pkts' = WithData(p.uid, p.size, harq.wait, p.ce)
    /\ marked' = IF p.ce THEN marked \cup {p.uid} ELSE marked
    /\ UNCHANGED <<admitted, pc, queues, aqm, granted, bits, prev_released_id,
                   verdict, ecn_in, lost>>

PushDone ==
    /\ pc = "push"
    /\ harq.pkts = <<>>
    /\ out_pkts' \in Sortings(out_pkts)
    /\ pc' = "mac"
    /\ granted' = 0 /\ bits' = 0 /\ harq' = NoHarq
    /\ UNCHANGED <<admitted, queues, aqm, prev_released_id, verdict, history>>
-----------------------------------------------------------------------------
UeStep ==
    \/ Step \/ AdmitDone
    \/ Expire \/ ExpireDone
    \/ ReleaseDrop \/ ReleaseAccept \/ ReleaseDone
    \/ AqmDrop \/ TakeWhole \/ TakeFragment \/ GetDone
    \/ Drain \/ DrainDone \/ Discard \/ DiscardDone
    \/ NextBlock \/ HandleDone
    \/ Push \/ PushDone

Next ==
    \/ Admit
    \/ UeStep
    \/ \E g \in Grants, d \in Delays : Handle(g, d)

Safety == Init /\ [][Next]_vars

(* As in PdcpFlow: the emulator keeps stepping, and neither the host's      *)
(* traffic nor the scheduler owes anything.                                 *)
Spec == Safety /\ WF_vars(UeStep)
-----------------------------------------------------------------------------
PcAt == {"mac", "admit", "expire", "release", "get", "drain", "discard",
         "next", "push"}
QueueEntry == [uid : Pkts, size : Nat \ {0}, age : Nat, ecn : Ecns \cup {"ce"},
               ce : BOOLEAN]
BlockEntry == [uid : Pkts, size : Nat \ {0}, ce : BOOLEAN]

(* The type invariant. *)
TypeOK ==
    /\ admitted \in 0..NumPkts
    /\ pc \in PcAt
    /\ lq \in Seq(QueueEntry) /\ cq \in Seq(QueueEntry)
    /\ dropped_queue \in Seq(QueueEntry)
    /\ p_base \in {"zero", "some", "one"} /\ prev_q \in Nat
    /\ classic_idle \in 0..Guard
    /\ current_size \in Floats /\ rounded \in BOOLEAN /\ granted \in Nat /\ bits \in Nat
    /\ harq \in [bits : Nat, pkts : Seq(BlockEntry), age : Nat, wait : Nat]
    /\ ReleaseTypeOK
    /\ ecn_in \in [Pkts -> Ecns]
    /\ sent \in [Pkts -> Nat] /\ lost \subseteq Pkts /\ marked \subseteq Pkts

(* Only ECN-capable traffic is marked: the host never sees CE on a packet   *)
(* it sent as Not-ECT.                                                      *)
CeOnlyIfCapable ==
    \A u \in Pkts : verdict[u] = "accept_ce" => ecn_in[u] \in {"ect0", "ect1"}

(* Accepted packets went through whole; dropped ones lost some part, to the *)
(* delay budget or to the AQM.                                              *)
FateMatchesData ==
    \A u \in Pkts :
        /\ Accepted(u) => sent[u] = Size[u] /\ u \notin lost
        /\ verdict[u] = "drop" => u \in lost

(* Splitting, requeueing, AQM drops and expiry neither lose nor double a    *)
(* bit: buffered and released parts make up each undecided packet, nothing  *)
(* is left of a decided one (so no second verdict).  current_size is what   *)
(* the queues hold until a sum that a float may not have was stored in it.  *)
BitsConserved ==
    pc \in {"mac", "release"} =>
        /\ ~rounded => current_size = SumSizes(lq) + SumSizes(cq)
        /\ dropped_queue = <<>>
        /\ \A u \in 1..admitted :
             BitsOf(lq, u) + BitsOf(cq, u) + BitsOf(out_pkts, u) =
                IF verdict[u] = "none" THEN Size[u] ELSE 0

(* With order_pkts off every packet is decided, although a queue may be     *)
(* bypassed and remainders go to its tail.                                  *)
EveryPacketDecided == \A u \in Pkts : (admitted >= u) ~> (verdict[u] # "none")

(* tests/pdcp_flow_test.cpp, test_captured_packet_handler_rewrites_ecn_payload: *)
(* a transmitted packet the AQM has marked leaves with its ECN field        *)
(* rewritten to CE.                                                         *)
MarkReachesHost == \A u \in marked : verdict[u] # "accept"
=============================================================================
