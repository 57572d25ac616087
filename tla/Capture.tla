------------------------------ MODULE Capture -------------------------------
(***************************************************************************)
(* The capture of one direction of a real UE: the host's packets wait in   *)
(* an NFQUEUE of the kernel, a message for each goes through a netlink     *)
(* socket to the reader thread of netfilter_interface, whose callback puts *)
(* the packet into pkt_capture; the main thread pops it from there and     *)
(* later gives a verdict, in any order.  In the end the destructor of the  *)
(* handler closes the capture under the reader.                            *)
(*                                                                         *)
(* `mpc' is how far start() and close() of the main thread have got, `rpc' *)
(* where the reader is.  enqueue, pop and verdict hold mtx, so each is one *)
(* action; what the reader does before it has mtx is one of its own.       *)
(* The socket does not block: a recv that finds nothing is a stutter (and  *)
(* counts in recv_fails).  The kernel is external: it holds what has no    *)
(* verdict, drops what it cannot announce or has no room for, and drops    *)
(* all it holds when the socket goes.                                      *)
(***************************************************************************)
EXTENDS Integers, Sequences, SequencesExt, FiniteSets

CONSTANTS
    NumPkts,   \* packets of the host
    SockMax,   \* messages the socket has room for
    QueueMax   \* packets the kernel's queue has room for

ASSUME CaptureAssumption ==
    /\ NumPkts \in Nat /\ SockMax \in Nat \ {0} /\ QueueMax \in Nat \ {0}

Pkts == 1 .. NumPkts

VARIABLES
    mpc, rpc,
    cancelled,         \* pthread_cancel was called
    arrived,           \* packets the host has sent so far
    fate,              \* what became of them, for the host
    sock, enobufs,     \* messages not yet received, and the overrun flag
    buf,               \* the message being handled, as a set
    captured_packets,  \* deque
    payloads,          \* keys of the map
    awaiting,          \* popped by the handler, no verdict yet
    total_recv, recv_fails, total_rlsd, rlsd_fails,
    asked,             \* history: the verdicts given
    late,              \* history: packets captured by a closed interface
    crashed

kernel == <<arrived, fate, sock, enobufs>>
queues == <<captured_packets, payloads, awaiting>>
stats == <<total_recv, recv_fails, total_rlsd, rlsd_fails>>
vars == <<mpc, rpc, cancelled, kernel, buf, queues, stats, asked, late, crashed>>

Held == {i \in Pkts : fate[i] = "held"}
Actions == {"accept", "ce", "drop"}

Init ==
    /\ mpc = "start" /\ rpc = "none" /\ cancelled = FALSE
    /\ arrived = 0 /\ fate = [i \in Pkts |-> "none"]
    /\ sock = <<>> /\ enobufs = FALSE /\ buf = {}
    /\ captured_packets = <<>> /\ payloads = {} /\ awaiting = {}
    /\ total_recv = 0 /\ recv_fails = 0 /\ total_rlsd = 0 /\ rlsd_fails = 0
    /\ asked = [i \in Pkts |-> "none"] /\ late = 0 /\ crashed = FALSE
-----------------------------------------------------------------------------
(* The kernel.                                                             *)
Bound == mpc \in {"bound", "running", "cancel"}

HostSends ==
    /\ Bound /\ arrived < NumPkts
    /\ arrived' = arrived + 1
    /\ \/ /\ Cardinality(Held) < QueueMax /\ Len(sock) < SockMax
          /\ fate' = [fate EXCEPT ![arrived + 1] = "held"]
          /\ sock' = Append(sock, arrived + 1)
          /\ UNCHANGED enobufs
       \/ /\ Cardinality(Held) < QueueMax /\ Len(sock) = SockMax
          /\ fate' = [fate EXCEPT ![arrived + 1] = "drop"]
          /\ enobufs' = TRUE
          /\ UNCHANGED sock
       \/ /\ Cardinality(Held) = QueueMax
          /\ fate' = [fate EXCEPT ![arrived + 1] = "drop"]
          /\ UNCHANGED <<sock, enobufs>>
    /\ UNCHANGED <<mpc, rpc, cancelled, buf, queues, stats, asked, late, crashed>>

\* the last descriptor of the socket is closed
Unbind ==
    /\ fate' = [i \in Pkts |-> IF i \in Held THEN "drop" ELSE fate[i]]
    /\ sock' = <<>> /\ enobufs' = FALSE
    /\ UNCHANGED arrived
-----------------------------------------------------------------------------
(* The reader thread: run() and queue_cb().                                *)
Recv ==
    /\ rpc = "recv" /\ ~cancelled
    /\ \/ /\ enobufs
          /\ enobufs' = FALSE /\ recv_fails' = recv_fails + 1
          /\ UNCHANGED <<rpc, sock, buf>>
       \/ /\ ~enobufs /\ sock # <<>>
          /\ buf' = {Head(sock)} /\ sock' = Tail(sock)
          /\ rpc' = "callback"
          /\ UNCHANGED <<enobufs, recv_fails>>
    /\ UNCHANGED <<mpc, cancelled, arrived, fate, queues, total_recv,
                   total_rlsd, rlsd_fails, asked, late, crashed>>

\* fault: the packet can be popped before its payload is there
EnqueueBare(i) ==
    /\ captured_packets' = Append(captured_packets, i)
    /\ UNCHANGED payloads
EnqueueCapturedPacket(i) ==
    /\ captured_packets' = Append(captured_packets, i)
    /\ payloads' = payloads \union {i}

(* What the reader does with the interface once close() has freed it may    *)
(* crash, or may go well, as long as nobody reused the memory.              *)
UseAfterFree ==
    /\ mpc = "closed"
    /\ crashed' = TRUE
    /\ UNCHANGED <<mpc, rpc, cancelled, kernel, buf, queues, stats, asked, late>>

(* queue_cb counts the packet, without a lock ...                          *)
QueueCb ==
    /\ rpc = "callback"
    /\ \/ /\ total_recv' = total_recv + 1
          /\ rpc' = "counted"
          /\ UNCHANGED <<mpc, cancelled, kernel, buf, queues, recv_fails,
                         total_rlsd, rlsd_fails, asked, late, crashed>>
       \/ UseAfterFree

(* ... and then handle_capture puts it into pkt_capture, under mtx.         *)
HandleCapture ==
    /\ rpc = "counted"
    /\ \/ /\ \A i \in buf : EnqueueCapturedPacket(i)
          /\ rpc' = "recv" /\ buf' = {}
          /\ late' = IF mpc = "closed" THEN late + 1 ELSE late
          /\ UNCHANGED <<mpc, cancelled, kernel, awaiting, stats, asked, crashed>>
       \/ UseAfterFree

(* recv is where a cancellation takes effect; its arguments are read from   *)
(* the interface before that.                                              *)
CancellationPoint ==
    /\ rpc = "recv" /\ cancelled
    /\ \/ /\ rpc' = "gone"
          /\ UNCHANGED <<mpc, cancelled, kernel, buf, queues, stats, asked, late,
                         crashed>>
       \/ UseAfterFree

Reader == Recv \/ QueueCb \/ HandleCapture \/ CancellationPoint
-----------------------------------------------------------------------------
(* The main thread: netfilter_interface_open, and pkt_capture::start.      *)
OpenSocket ==
    /\ mpc = "start"
    /\ \/ mpc' = "bound" /\ UNCHANGED crashed
       \/ mpc' = "failed" /\ UNCHANGED crashed
       \/ UNCHANGED mpc /\ crashed' = TRUE  \* mnl_socket_close(NULL)
    /\ UNCHANGED <<rpc, cancelled, kernel, buf, queues, stats, asked, late>>

CreateReader ==
    /\ mpc = "bound"
    /\ \/ mpc' = "running" /\ rpc' = "recv" /\ UNCHANGED kernel
       \/ mpc' = "failed" /\ Unbind /\ UNCHANGED rpc
    /\ UNCHANGED <<cancelled, buf, queues, stats, asked, late, crashed>>

PopCapturedPacket ==
    /\ mpc = "running" /\ captured_packets # <<>>
    /\ awaiting' = awaiting \union {Head(captured_packets)}
    /\ captured_packets' = Tail(captured_packets)
    /\ UNCHANGED <<mpc, rpc, cancelled, kernel, buf, payloads, stats, asked,
                   late, crashed>>

\* fault: a verdict that could not be sent is taken for one that was
ReleasePktUncounted(i, action) ==
    \/ /\ fate' = [fate EXCEPT ![i] = action]
       /\ total_rlsd' = total_rlsd + 1 /\ UNCHANGED rlsd_fails
    \/ /\ total_rlsd' = total_rlsd + 1 /\ UNCHANGED <<rlsd_fails, fate>>
\* sendto may fail; the result is counted and not looked at
ReleasePkt(i, action) ==
    \/ /\ fate' = [fate EXCEPT ![i] = action]
       /\ total_rlsd' = total_rlsd + 1 /\ UNCHANGED rlsd_fails
    \/ /\ rlsd_fails' = rlsd_fails + 1 /\ UNCHANGED <<total_rlsd, fate>>

\* pkt_capture::verdict: a mark needs the payload
Effective(i, action) ==
    IF action = "ce" /\ i \notin payloads THEN "drop" ELSE action

Verdict(i, action) ==
    /\ mpc = "running" /\ i \in awaiting
    /\ awaiting' = awaiting \ {i}
    /\ payloads' = payloads \ {i}
    /\ asked' = [asked EXCEPT ![i] = action]
    /\ ReleasePkt(i, Effective(i, action))
    /\ UNCHANGED <<mpc, rpc, cancelled, arrived, sock, enobufs, buf,
                   captured_packets, total_recv, recv_fails, late, crashed>>

\* fault: the reader is left running
CloseOnly ==
    /\ mpc = "running" /\ mpc' = "cancel"
    /\ UNCHANGED <<rpc, cancelled, kernel, buf, queues, stats, asked, late,
                   crashed>>
\* pkt_capture::close and netfilter_interface_close
Cancel ==
    /\ mpc = "running" /\ mpc' = "cancel"
    /\ cancelled' = TRUE
    /\ UNCHANGED <<rpc, kernel, buf, queues, stats, asked, late, crashed>>

\* fault: the memory is freed and the socket stays open
FreeMemoryOnly ==
    /\ mpc = "cancel" /\ mpc' = "closed"
    /\ UNCHANGED <<rpc, cancelled, kernel, buf, queues, stats, asked, late,
                   crashed>>
Free ==
    /\ mpc = "cancel" /\ mpc' = "closed"
    /\ Unbind
    /\ UNCHANGED <<rpc, cancelled, buf, queues, stats, asked, late, crashed>>

\* without an interface there is nothing to close
CloseFailed ==
    /\ mpc = "failed" /\ mpc' = "closed"
    /\ UNCHANGED <<rpc, cancelled, kernel, buf, queues, stats, asked, late,
                   crashed>>

Handler == PopCapturedPacket \/ \E i \in Pkts, a \in Actions : Verdict(i, a)
Life == OpenSocket \/ CreateReader \/ Cancel \/ Free \/ CloseFailed

Stopped == (mpc = "closed" /\ rpc \in {"none", "gone"}) \/ crashed
Terminated == Stopped /\ UNCHANGED vars

Next ==
    \/ ~crashed /\ (HostSends \/ Reader \/ Handler \/ Life)
    \/ Terminated

(* The reader is scheduled; start() and close() run to their end.          *)
Spec ==
    /\ Init /\ [][Next]_vars
    /\ WF_vars(~crashed /\ Reader) /\ WF_vars(~crashed /\ (CreateReader \/ Free))
-----------------------------------------------------------------------------
Fates == {"none", "held"} \union Actions

(* Types, and the life cycle: a reader exists only with an interface, and  *)
(* one that comes back to recv after close() receives nothing any more: it *)
(* is cancelled there, or crashes on what was freed.                       *)
TypeOK ==
    /\ mpc \in {"start", "bound", "running", "cancel", "closed", "failed"}
    /\ rpc \in {"none", "recv", "callback", "counted", "gone"}
    /\ arrived \in 0 .. NumPkts /\ fate \in [Pkts -> Fates]
    /\ buf \subseteq Pkts /\ payloads \subseteq Pkts /\ awaiting \subseteq Pkts
    /\ asked \in [Pkts -> {"none"} \union Actions]
    /\ mpc \in {"start", "bound", "failed"} => rpc = "none"
    /\ mpc = "closed" /\ rpc = "recv" => cancelled
    /\ late <= 1

Decided == {i \in Pkts : asked[i] # "none"}

\* packets counted in total_recv that are not enqueued yet
InHand == IF rpc = "counted" THEN 1 ELSE 0

(* While the interface is open, what the kernel holds is known: a message  *)
(* in the socket, one in the reader, a captured packet, one the handler    *)
(* has, or one whose verdict could not be sent, which nobody will send     *)
(* again.  The counters of the two threads tell how many wait, one more    *)
(* while the reader is between its count and its enqueue (stats() may look *)
(* then), and a payload is kept exactly as long as its verdict is to come. *)
HeldAccounted ==
    LET waiting == ToSet(captured_packets) \union awaiting
        stuck == Decided \intersect Held
    IN  /\ payloads = waiting
        /\ Bound =>
             /\ Held = ToSet(sock) \union buf \union waiting \union stuck
             /\ Cardinality(stuck) = rlsd_fails
             /\ Cardinality(waiting) + InHand = total_recv - total_rlsd - rlsd_fails

(* A verdict that was sent is what the host sees: a marked packet is never *)
(* dropped for want of its payload, whatever the order of verdicts and     *)
(* captures; and nobody but the kernel drops a packet without a verdict.   *)
VerdictReachesHost ==
    \A i \in Pkts :
       /\ fate[i] \in {"accept", "ce"} => asked[i] = fate[i]
       /\ Bound /\ asked[i] # "none" => fate[i] \in {asked[i], "held"}

(* close() does not join the reader; still it ends, and then nothing of    *)
(* the host is left waiting, verdicts that failed included.                *)
ReaderStops == cancelled ~> (crashed \/ (rpc = "gone" /\ Held = {}))
=============================================================================
