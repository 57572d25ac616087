----------------------------- MODULE PacketFate -----------------------------
(***************************************************************************)
(* What the emulator owes the host whose packets it holds: every packet    *)
(* taken from the NFQUEUE gets at most one verdict, and the packets it     *)
(* accepts leave in the order in which they were captured.                 *)
(***************************************************************************)
EXTENDS Integers

CONSTANT Pkts    \* packets, numbered in the order of their capture

VARIABLES
    held,        \* the number of packets captured so far
    fate         \* the verdict given to each packet, "none" while it is held

vars == <<held, fate>>

(* a packet may leave as it came or with its ECN field rewritten to CE *)
Acceptance == {"accept", "accept_ce"}

Init ==
    /\ held = 0
    /\ fate = [u \in Pkts |-> "none"]

Capture ==
    /\ held + 1 \in Pkts
    /\ held' = held + 1
    /\ UNCHANGED fate

Accept(u) ==
    /\ u <= held
    /\ fate[u] = "none"
    /\ \A v \in Pkts : v > u => fate[v] \notin Acceptance
    /\ \E f \in Acceptance : fate' = [fate EXCEPT ![u] = f]
    /\ UNCHANGED held

Drop(u) ==
    /\ u <= held
    /\ fate[u] = "none"
    /\ fate' = [fate EXCEPT ![u] = "drop"]
    /\ UNCHANGED held

Next == Capture \/ \E u \in Pkts : Accept(u) \/ Drop(u)

Spec == Init /\ [][Next]_vars
=============================================================================
