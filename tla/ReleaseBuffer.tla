---------------------------- MODULE ReleaseBuffer ----------------------------
(***************************************************************************)
(* out_pkts of captured_packet_handler: the packets and fragments that     *)
(* came out of the radio, or were dropped before it, and wait for their    *)
(* verdict.  PdcpFlow and DualPdcp extend this module with what feeds it.  *)
(*                                                                         *)
(* Packets are numbered by capture: prev_uid of u, the uid captured just   *)
(* before it, is u - 1, and -1 for the first.  `wait' is t_out - current_t *)
(* in steps, capped at 0.                                                  *)
(***************************************************************************)
EXTENDS PacketBits

CONSTANTS
    NumPkts,     \* bound: packets captured in a behaviour
    Size,        \* original_size of each packet, in bits
    OrderPkts    \* pdcp_config::order_packets

Pkts == 1..NumPkts

ASSUME NumPktsAssumption == NumPkts \in Nat
ASSUME SizeAssumption == Size \in [Pkts -> Nat \ {0}]
ASSUME OrderPktsAssumption == OrderPkts \in BOOLEAN

VARIABLES
    out_pkts,
    prev_released_id,
    verdict      \* the verdict each packet has got

release == <<out_pkts, prev_released_id, verdict>>

ReleaseInit ==
    /\ out_pkts = <<>>
    /\ prev_released_id = -1
    /\ verdict = [u \in Pkts |-> "none"]

PrevUid(u) == IF u = 1 THEN -1 ELSE u - 1

Entry(u, size, wait, ce, erase) ==
    [uid |-> u, prev_uid |-> PrevUid(u), size |-> size, wait |-> wait,
     ce |-> ce, erase |-> erase]

OutEntry == [uid : Pkts, prev_uid : Int, size : Nat, wait : Nat,
             ce : BOOLEAN, erase : BOOLEAN]

Positions(u) == {i \in DOMAIN out_pkts : out_pkts[i].uid = u}

\* the entry the linear search of add_data and remove_data finds
Found(u) == CHOOSE i \in Positions(u) : \A j \in Positions(u) : i <= j

(* sort_by_id: std::sort, so any permutation that is in order *)
Sortings(s) ==
    {t \in {[i \in DOMAIN s |-> s[p[i]]] :
              p \in {f \in [DOMAIN s -> DOMAIN s] :
                       \A i, j \in DOMAIN s : f[i] = f[j] => i = j}} :
       \A i, j \in DOMAIN t : i < j => t[i].uid <= t[j].uid}

(* push of one fragment: add_data to the entry of its packet, which keeps   *)
(* the t_out and the CE mark of its first fragment, or a new entry          *)
WithData(u, size, wait, ce) ==
    IF Positions(u) = {}
    THEN Append(out_pkts, Entry(u, size, wait, ce, FALSE))
    ELSE [out_pkts EXCEPT ![Found(u)].size = @ + size]

(* fault: remove_data forgets to add the size *)
WithoutDataUnsized(u, size) ==
    IF Positions(u) = {}
    THEN Append(out_pkts, Entry(u, size, 0, FALSE, TRUE))
    ELSE [out_pkts EXCEPT ![Found(u)].erase = TRUE]

(* fault: remove_data forgets to set erase *)
WithoutDataKept(u, size) ==
    IF Positions(u) = {}
    THEN Append(out_pkts, Entry(u, size, 0, FALSE, TRUE))
    ELSE [out_pkts EXCEPT ![Found(u)].size = @ + size]

(* drop: remove_data, or a new entry; no sort *)
WithoutData(u, size) ==
    IF Positions(u) = {}
    THEN Append(out_pkts, Entry(u, size, 0, FALSE, TRUE))
    ELSE [out_pkts EXCEPT ![Found(u)].size = @ + size, ![Found(u)].erase = TRUE]

(* current_t advances by one step *)
Later == [i \in DOMAIN out_pkts |->
            [out_pkts[i] EXCEPT !.wait = IF @ = 0 THEN 0 ELSE @ - 1]]

\* fault: a packet is ready with its first fragment
IsReadyEarly(e) == e.size > 0

IsReady(e) == e.size = Size[e.uid]

CheckOrder(u) == prev_released_id > -1 /\ OrderPkts => prev_released_id = u

DropDue(e) == IsReady(e) /\ e.erase

AcceptDue(e) == IsReady(e) /\ ~e.erase /\ CheckOrder(e.prev_uid) /\ e.wait = 0

(* one iteration of release(): update_order, verdict, erase from out_pkts *)
GiveVerdict(v) ==
    /\ verdict' = [verdict EXCEPT ![Head(out_pkts).uid] = v]
    /\ prev_released_id' = Head(out_pkts).uid
    /\ out_pkts' = Tail(out_pkts)

DropFirst ==
    /\ out_pkts # <<>>
    /\ DropDue(Head(out_pkts))
    /\ GiveVerdict("drop")

AcceptFirst ==
    /\ out_pkts # <<>>
    /\ AcceptDue(Head(out_pkts))
    /\ GiveVerdict(IF Head(out_pkts).ce THEN "accept_ce" ELSE "accept")

\* end of the list, or break at the first entry that may not leave yet
NothingDue ==
    out_pkts # <<>> => ~DropDue(Head(out_pkts)) /\ ~AcceptDue(Head(out_pkts))

Accepted(u) == verdict[u] \in {"accept", "accept_ce"}

(* A packet all of whose bits are in out_pkts leaves at last, as            *)
(* test_captured_packet_handler_release asserts of release().               *)
CompleteLeaves ==
    \A u \in Pkts :
        (\E i \in DOMAIN out_pkts : out_pkts[i].uid = u /\ IsReady(out_pkts[i]))
            ~> (verdict[u] # "none")

ReleaseTypeOK ==
    /\ out_pkts \in Seq(OutEntry)
    /\ prev_released_id \in Int
    /\ verdict \in [Pkts -> {"none", "accept", "accept_ce", "drop"}]
=============================================================================
