--------------------------- MODULE CaptureProofs ----------------------------
(* Theorems about Capture, for any number of packets and any room in the    *)
(* socket and in the kernel's queue.                                        *)
EXTENDS Capture, FiniteSetTheorems, TLAPS

(* Once sent, a packet without a verdict is in one place only: a message in *)
(* the socket, one in the reader, a captured packet, or with the handler.   *)
Waiting == ToSet(captured_packets) \union awaiting
Places == ToSet(sock) \union buf \union Waiting
Stuck == Decided \intersect Held

NoDup(s) == \A i, j \in DOMAIN s : s[i] = s[j] => i = j

TypeInv ==
    /\ TypeOK
    /\ sock \in Seq(Pkts) /\ captured_packets \in Seq(Pkts)
    /\ total_recv \in Nat /\ total_rlsd \in Nat /\ rlsd_fails \in Nat
    /\ recv_fails \in Nat /\ late \in Nat
    /\ rpc \notin {"callback", "counted"} => buf = {}
    /\ rpc \in {"callback", "counted"} => \E i \in Pkts : buf = {i}

\* how far the two threads have got, and what is left of the reader at the end
LifeCycle ==
    /\ mpc \in {"start", "bound", "failed"} =>
         /\ captured_packets = <<>> /\ awaiting = {}
         /\ \A i \in Pkts : asked[i] = "none"
         /\ rlsd_fails = 0
    /\ mpc = "start" => arrived = 0 /\ sock = <<>>
    /\ mpc \in {"cancel", "closed"} /\ rpc \in {"recv", "callback", "counted"} => cancelled
    /\ mpc # "closed" => late = 0
    /\ rpc \in {"callback", "counted"} => late = 0

OnePlace ==
    /\ NoDup(sock) /\ NoDup(captured_packets)
    /\ ToSet(sock) \intersect (buf \union Waiting) = {}
    /\ buf \intersect Waiting = {}
    /\ ToSet(captured_packets) \intersect awaiting = {}
    /\ payloads = Waiting
    /\ \A i \in Places : i <= arrived /\ asked[i] = "none"
    /\ \A i \in Pkts : i > arrived => fate[i] = "none" /\ asked[i] = "none"

\* the kernel holds exactly what has a place, or a verdict that was not sent
KernelKnows ==
    Bound => \A i \in Pkts : asked[i] = "none" => (i \in Held <=> i \in Places)

Counters ==
    /\ Cardinality(Waiting) + InHand = total_recv - total_rlsd - rlsd_fails
    /\ Bound => Cardinality(Stuck) = rlsd_fails

Inv ==
    /\ TypeInv /\ LifeCycle /\ OnePlace /\ KernelKnows /\ Counters
    /\ VerdictReachesHost
-----------------------------------------------------------------------------
(* The elements of a queue when one is added at the end or taken off the    *)
(* front.                                                                   *)
LEMMA AppendSet ==
    ASSUME NEW S, NEW s \in Seq(S), NEW e \in S
    PROVE  /\ Append(s, e) \in Seq(S)
           /\ ToSet(Append(s, e)) = ToSet(s) \union {e}
           /\ NoDup(s) /\ e \notin ToSet(s) => NoDup(Append(s, e))
<1>1. /\ Append(s, e) \in Seq(S)
      /\ DOMAIN Append(s, e) = DOMAIN s \union {Len(s) + 1}
      /\ Len(s) + 1 \notin DOMAIN s
      /\ \A i \in DOMAIN s : Append(s, e)[i] = s[i]
      /\ Append(s, e)[Len(s) + 1] = e
      OBVIOUS
<1>2. ToSet(Append(s, e)) = ToSet(s) \union {e}
      BY <1>1 DEF ToSet
<1>3. ASSUME NoDup(s), e \notin ToSet(s)
      PROVE  NoDup(Append(s, e))
      BY <1>1, <1>3 DEF NoDup, ToSet
<1>. QED  BY <1>1, <1>2, <1>3

LEMMA TailSet ==
    ASSUME NEW S, NEW s \in Seq(S), s # <<>>
    PROVE  /\ Tail(s) \in Seq(S)
           /\ Head(s) \in S /\ Head(s) \in ToSet(s)
           /\ NoDup(s) => NoDup(Tail(s)) /\ ToSet(Tail(s)) = ToSet(s) \ {Head(s)}
<1>1. Len(s) \in Nat \ {0} /\ DOMAIN s = 1..Len(s)
      OBVIOUS
<1>2. /\ Tail(s) \in Seq(S) /\ DOMAIN Tail(s) = 1..(Len(s) - 1)
      /\ \A i \in DOMAIN Tail(s) : Tail(s)[i] = s[i + 1]
      /\ Head(s) = s[1] /\ 1 \in DOMAIN s
      BY <1>1
<1>3. ASSUME NoDup(s)
      PROVE  NoDup(Tail(s)) /\ ToSet(Tail(s)) = ToSet(s) \ {Head(s)}
  <2>1. NoDup(Tail(s))
        BY <1>1, <1>2, <1>3 DEF NoDup
  <2>2. ToSet(Tail(s)) \subseteq ToSet(s) \ {Head(s)}
        BY <1>1, <1>2, <1>3 DEF NoDup, ToSet
  <2>3. ASSUME NEW i \in DOMAIN s, s[i] # Head(s)
        PROVE  s[i] \in ToSet(Tail(s))
    <3>1. i - 1 \in DOMAIN Tail(s) /\ Tail(s)[i - 1] = s[i]
          BY <1>1, <1>2, <2>3
    <3>. QED  BY <3>1 DEF ToSet
  <2>. QED  BY <2>1, <2>2, <2>3 DEF ToSet
<1>. QED  BY <1>1, <1>2, <1>3 DEF ToSet

LEMMA NoElements ==
    ToSet(<<>>) = {} /\ NoDup(<<>>) /\ \A S : <<>> \in Seq(S)
<1>1. DOMAIN <<>> = {} /\ \A S : <<>> \in Seq(S)
      OBVIOUS
<1>. QED  BY <1>1 DEF ToSet, NoDup

LEMMA PktsFinite ==
    ASSUME NEW T, T \subseteq Pkts
    PROVE  IsFiniteSet(T) /\ Cardinality(T) \in Nat
<1>1. IsFiniteSet(Pkts)
      BY CaptureAssumption, FS_Interval DEF Pkts
<1>. QED  BY <1>1, FS_Subset, FS_CardinalityType

LEMMA PlacesArePkts ==
    TypeInv => /\ Waiting \subseteq Pkts /\ ToSet(sock) \subseteq Pkts
               /\ ToSet(captured_packets) \subseteq Pkts
<1>1. \A s \in Seq(Pkts) : ToSet(s) \subseteq Pkts
      BY DEF ToSet
<1>. QED  BY <1>1 DEF TypeInv, TypeOK, Waiting

LEMMA InitInv == Init => Inv
<1>. SUFFICES ASSUME Init PROVE Inv
     OBVIOUS
<1>. USE CaptureAssumption DEF Init
<1>1. /\ sock = <<>> /\ captured_packets = <<>> /\ Waiting = {} /\ Places = {}
      /\ buf = {} /\ awaiting = {} /\ payloads = {}
      BY NoElements DEF Waiting, Places
<1>2. TypeInv
  <2>1. TypeOK
        BY <1>1 DEF TypeOK, Fates, Actions, Pkts
  <2>. QED  BY <1>1, <2>1, NoElements DEF TypeInv
<1>3. LifeCycle
      BY DEF LifeCycle
<1>4. OnePlace
      BY <1>1, NoElements DEF OnePlace
<1>5. KernelKnows
      BY DEF KernelKnows, Bound
<1>6. Counters
      BY <1>1, FS_EmptySet DEF Counters, Bound, InHand
<1>7. VerdictReachesHost
      BY DEF VerdictReachesHost, Bound
<1>. QED  BY <1>2, <1>3, <1>4, <1>5, <1>6, <1>7 DEF Inv
-----------------------------------------------------------------------------
(* One lemma per group of actions.                                          *)

(* The kernel announces one more packet, or drops it.                       *)
LEMMA HostSendsInv ==
    ASSUME Inv, HostSends
    PROVE  Inv'
<1>. DEFINE n == arrived + 1
<1>. USE CaptureAssumption DEF Inv, TypeInv, TypeOK, queues, stats
<1>1. /\ n \in Pkts /\ arrived' = n /\ Bound /\ Bound'
      /\ fate[n] = "none" /\ asked[n] = "none" /\ n \notin Places
      BY DEF HostSends, Pkts, Bound, OnePlace
<1>2. /\ UNCHANGED <<mpc, rpc, cancelled, buf, captured_packets, payloads, awaiting,
                     total_recv, recv_fails, total_rlsd, rlsd_fails, asked, late>>
      /\ Waiting' = Waiting
      BY DEF HostSends, Waiting
<1>3. \/ /\ fate' = [fate EXCEPT ![n] = "held"]
         /\ sock' = Append(sock, n)
      \/ fate' = [fate EXCEPT ![n] = "drop"] /\ sock' = sock
      BY DEF HostSends
<1>4. /\ fate' \in [Pkts -> Fates] /\ fate'[n] \in {"held", "drop"}
      /\ \A i \in Pkts : i # n => fate'[i] = fate[i]
      /\ sock' \in Seq(Pkts) /\ NoDup(sock')
      /\ ToSet(sock') = IF fate'[n] = "held" THEN ToSet(sock) \union {n} ELSE ToSet(sock)
  <2>1. CASE fate' = [fate EXCEPT ![n] = "held"] /\ sock' = Append(sock, n)
    <3>1. fate' \in [Pkts -> Fates] /\ fate'[n] = "held"
          BY <1>1, <2>1 DEF Fates
    <3>2. sock' \in Seq(Pkts) /\ ToSet(sock') = ToSet(sock) \union {n} /\ NoDup(sock')
          BY <1>1, <2>1, AppendSet DEF OnePlace, Places
    <3>. QED  BY <2>1, <3>1, <3>2
  <2>2. CASE fate' = [fate EXCEPT ![n] = "drop"] /\ sock' = sock
    <3>1. fate' \in [Pkts -> Fates] /\ fate'[n] = "drop"
          BY <1>1, <2>2 DEF Fates, Actions
    <3>. QED  BY <2>2, <3>1 DEF OnePlace
  <2>. QED  BY <1>3, <2>1, <2>2
<1>. HIDE DEF n
<1>5. Places' = IF fate'[n] = "held" THEN Places \union {n} ELSE Places
      BY <1>2, <1>4 DEF Places
<1>6. TypeInv'
      BY <1>1, <1>2, <1>4 DEF Pkts
<1>7. LifeCycle'
      BY <1>1, <1>2 DEF LifeCycle, Bound
<1>8. OnePlace'
  <2>1. ToSet(sock') \intersect (buf \union Waiting) = {}
        BY <1>1, <1>4 DEF OnePlace, Places
  <2>2. \A i \in Places' : i <= n /\ asked[i] = "none"
    <3>1. Places \subseteq Pkts
          BY PlacesArePkts DEF Places
    <3>. QED  BY <1>1, <1>5, <3>1 DEF OnePlace, n, Pkts
  <2>3. \A i \in Pkts : i > n => fate'[i] = "none" /\ asked[i] = "none"
        BY <1>4 DEF OnePlace, n, Pkts
  <2>. QED  BY <1>1, <1>2, <1>4, <2>1, <2>2, <2>3 DEF OnePlace
<1>9. KernelKnows'
      BY <1>1, <1>2, <1>4, <1>5 DEF KernelKnows, Held
<1>10. Counters'
  <2>1. Stuck' = Stuck
        BY <1>1, <1>2, <1>4 DEF Stuck, Decided, Held
  <2>. QED  BY <1>1, <1>2, <2>1 DEF Counters, InHand
<1>11. VerdictReachesHost'
      BY <1>1, <1>2, <1>4 DEF VerdictReachesHost
<1>. QED  BY <1>6, <1>7, <1>8, <1>9, <1>10, <1>11

(* The reader: a message moves from the socket to the reader, and from      *)
(* there to the captured packets.                                           *)
LEMMA RecvInv ==
    ASSUME Inv, Recv
    PROVE  Inv'
<1>. USE CaptureAssumption DEF Inv, TypeInv, TypeOK, queues, stats
<1>1. UNCHANGED <<mpc, cancelled, arrived, fate, captured_packets, payloads, awaiting,
                  total_recv, total_rlsd, rlsd_fails, asked, late>>
      /\ rpc # "counted" /\ rpc' # "counted"
      BY DEF Recv
<1>2. /\ Waiting' = Waiting /\ Stuck' = Stuck /\ Held' = Held /\ (Bound <=> Bound')
      /\ Counters' /\ VerdictReachesHost'
      BY <1>1 DEF Waiting, Stuck, Decided, Held, Bound, Counters, InHand, VerdictReachesHost
<1>3. CASE UNCHANGED <<rpc, sock, buf>> /\ recv_fails' = recv_fails + 1
  <2>1. Places' = Places
        BY <1>2, <1>3 DEF Places
  <2>2. TypeInv'
        BY <1>1, <1>3
  <2>3. LifeCycle' /\ OnePlace' /\ KernelKnows'
        BY <1>1, <1>2, <1>3, <2>1 DEF LifeCycle, OnePlace, KernelKnows
  <2>. QED  BY <1>2, <2>2, <2>3
<1>4. CASE /\ sock # <<>> /\ buf' = {Head(sock)} /\ sock' = Tail(sock)
           /\ rpc' = "callback" /\ UNCHANGED recv_fails
  <2>. DEFINE h == Head(sock)
  <2>1. /\ h \in Pkts /\ h \in ToSet(sock) /\ sock' \in Seq(Pkts)
        /\ NoDup(sock') /\ ToSet(sock') = ToSet(sock) \ {h} /\ buf' = {h}
        BY <1>4, TailSet DEF OnePlace
  <2>. HIDE DEF h
  <2>2. rpc = "recv" /\ buf = {} /\ ~cancelled
        BY DEF Recv
  <2>3. mpc \in {"running", "bound"}
        BY <2>2 DEF LifeCycle
  <2>4. Places' = Places
        BY <1>2, <2>1, <2>2 DEF Places
  <2>5. TypeInv'
        BY <1>1, <1>4, <2>1, <2>2, <2>3
  <2>6. LifeCycle'
        BY <1>1, <1>4, <2>2, <2>3 DEF LifeCycle
  <2>7. OnePlace' /\ KernelKnows'
        BY <1>1, <1>2, <2>1, <2>2, <2>4 DEF OnePlace, KernelKnows
  <2>. QED  BY <1>2, <2>5, <2>6, <2>7
<1>. QED  BY <1>3, <1>4 DEF Recv

(* Nothing moves when freed memory is used, or when a packet is only counted. *)
LEMMA UseAfterFreeInv ==
    ASSUME Inv, UseAfterFree
    PROVE  Inv'
<1>. USE DEF Inv, TypeInv, TypeOK, queues, stats, kernel
<1>1. UNCHANGED <<mpc, rpc, cancelled, arrived, fate, sock, enobufs, buf, captured_packets,
                  payloads, awaiting, total_recv, recv_fails, total_rlsd, rlsd_fails,
                  asked, late>>
      BY DEF UseAfterFree
<1>2. Waiting' = Waiting /\ Places' = Places /\ Stuck' = Stuck /\ Held' = Held
      BY <1>1 DEF Waiting, Places, Stuck, Decided, Held
<1>. QED  BY <1>1, <1>2 DEF LifeCycle, OnePlace, KernelKnows, Counters, InHand,
                            VerdictReachesHost, Bound

LEMMA QueueCbInv ==
    ASSUME Inv, QueueCb
    PROVE  Inv'
<1>. USE CaptureAssumption DEF Inv, TypeInv, TypeOK, queues, stats, kernel
<1>1. CASE UseAfterFree
      BY <1>1, UseAfterFreeInv
<1>2. CASE total_recv' = total_recv + 1 /\ ~UseAfterFree
  <2>1. /\ UNCHANGED <<mpc, cancelled, arrived, fate, sock, buf, captured_packets, payloads,
                       awaiting, recv_fails, total_rlsd, rlsd_fails, asked, late>>
        /\ rpc = "callback" /\ rpc' = "counted"
        BY <1>2 DEF QueueCb
  <2>2. /\ Held' = Held /\ Stuck' = Stuck /\ (Bound <=> Bound') /\ VerdictReachesHost'
        /\ Waiting' = Waiting /\ Places' = Places
        BY <2>1 DEF Held, Stuck, Decided, Bound, VerdictReachesHost, Waiting, Places
  <2>3. TypeInv' /\ LifeCycle'
        BY <1>2, <2>1 DEF LifeCycle
  <2>4. OnePlace' /\ KernelKnows'
        BY <2>1, <2>2 DEF OnePlace, KernelKnows
  <2>5. InHand = 0 /\ InHand' = 1
        BY <2>1 DEF InHand
  <2>6. Counters'
        BY <1>2, <2>1, <2>2, <2>5, PlacesArePkts, PktsFinite DEF Counters
  <2>. QED  BY <2>2, <2>3, <2>4, <2>6
<1>. QED  BY <1>1, <1>2 DEF QueueCb

LEMMA HandleCaptureInv ==
    ASSUME Inv, HandleCapture
    PROVE  Inv'
<1>. USE CaptureAssumption DEF Inv, TypeInv, TypeOK, queues, stats, kernel
<1>1. CASE UseAfterFree
      BY <1>1, UseAfterFreeInv
<1>2. CASE /\ \A k \in buf : EnqueueCapturedPacket(k)
           /\ rpc' = "recv" /\ buf' = {}
           /\ late' = IF mpc = "closed" THEN late + 1 ELSE late
           /\ UNCHANGED <<mpc, cancelled, kernel, awaiting, stats, asked, crashed>>
  <2>1. PICK i \in Pkts : buf = {i}
        BY DEF HandleCapture
  <2>2. /\ captured_packets' = Append(captured_packets, i) /\ payloads' = payloads \union {i}
        /\ rpc = "counted"
        BY <1>2, <2>1 DEF EnqueueCapturedPacket, HandleCapture
  <2>3. i \notin Waiting /\ i \notin ToSet(sock)
        BY <2>1 DEF OnePlace
  <2>4. /\ captured_packets' \in Seq(Pkts) /\ NoDup(captured_packets')
        /\ ToSet(captured_packets') = ToSet(captured_packets) \union {i}
        BY <2>2, <2>3, AppendSet DEF OnePlace, Waiting
  <2>5. Waiting' = Waiting \union {i} /\ Places' = Places
        BY <1>2, <2>1, <2>4 DEF Waiting, Places
  <2>6. late = 0 /\ (mpc = "closed" => cancelled)
        BY <2>2 DEF LifeCycle
  <2>7. TypeInv'
        BY <1>2, <2>2, <2>4, <2>6
  <2>8. LifeCycle'
        BY <1>2, <2>2, <2>6 DEF LifeCycle
  <2>9. /\ Held' = Held /\ Stuck' = Stuck /\ (Bound <=> Bound') /\ VerdictReachesHost'
        BY <1>2 DEF Held, Stuck, Decided, Bound, VerdictReachesHost
  <2>10. OnePlace'
        BY <1>2, <2>1, <2>2, <2>3, <2>4, <2>5 DEF OnePlace, Waiting
  <2>11. KernelKnows'
        BY <1>2, <2>5, <2>9 DEF KernelKnows
  <2>12. Cardinality(Waiting \union {i}) = Cardinality(Waiting) + 1
        BY <2>3, PlacesArePkts, PktsFinite, FS_AddElement
  <2>13. InHand = 1 /\ InHand' = 0
        BY <1>2, <2>2 DEF InHand
  <2>14. Counters'
        BY <1>2, <2>5, <2>9, <2>12, <2>13, PlacesArePkts, PktsFinite DEF Counters
  <2>. QED  BY <2>7, <2>8, <2>9, <2>10, <2>11, <2>14
<1>. QED  BY <1>1, <1>2 DEF HandleCapture

(* The kernel drops what it holds when the socket goes.                     *)
LEMMA UnbindInv ==
    ASSUME Inv, Unbind, TypeInv', LifeCycle', ~Bound',
           UNCHANGED <<captured_packets, payloads, awaiting, buf, asked,
                       total_recv, total_rlsd, rlsd_fails, rpc>>
    PROVE  Inv'
<1>1. Waiting' = Waiting /\ ToSet(sock') = {} /\ NoDup(sock')
      BY NoElements DEF Waiting, Unbind
<1>2. Places' \subseteq Places
      BY <1>1 DEF Places
<1>3. OnePlace'
      BY <1>1, <1>2 DEF Inv, OnePlace, Unbind, Held
<1>4. VerdictReachesHost'
      BY DEF Inv, VerdictReachesHost, Unbind, Held
<1>. QED  BY <1>1, <1>3, <1>4 DEF Inv, KernelKnows, Counters, InHand

(* The handler takes a captured packet, and gives a verdict.                *)
LEMMA PopInv ==
    ASSUME Inv, PopCapturedPacket
    PROVE  Inv'
<1>. USE CaptureAssumption DEF Inv, TypeInv, TypeOK, queues, stats, kernel
<1>. DEFINE h == Head(captured_packets)
<1>1. /\ UNCHANGED <<mpc, rpc, cancelled, arrived, fate, sock, buf, payloads, total_recv,
                     recv_fails, total_rlsd, rlsd_fails, asked, late>>
      /\ mpc = "running" /\ captured_packets # <<>>
      /\ awaiting' = awaiting \union {h} /\ captured_packets' = Tail(captured_packets)
      BY DEF PopCapturedPacket
<1>2. /\ h \in Pkts /\ h \in ToSet(captured_packets) /\ captured_packets' \in Seq(Pkts)
      /\ NoDup(captured_packets')
      /\ ToSet(captured_packets') = ToSet(captured_packets) \ {h}
      BY <1>1, TailSet DEF OnePlace
<1>. HIDE DEF h
<1>3. Waiting' = Waiting /\ Places' = Places
      BY <1>1, <1>2 DEF Waiting, Places
<1>4. /\ Held' = Held /\ Stuck' = Stuck /\ (Bound <=> Bound') /\ VerdictReachesHost'
      BY <1>1 DEF Held, Stuck, Decided, Bound, VerdictReachesHost
<1>5. TypeInv' /\ LifeCycle'
      BY <1>1, <1>2 DEF LifeCycle
<1>6. OnePlace'
      BY <1>1, <1>2, <1>3 DEF OnePlace
<1>7. KernelKnows' /\ Counters'
      BY <1>1, <1>3, <1>4 DEF KernelKnows, Counters, InHand
<1>. QED  BY <1>4, <1>5, <1>6, <1>7

LEMMA VerdictInv ==
    ASSUME Inv, NEW i \in Pkts, NEW a \in Actions, Verdict(i, a)
    PROVE  Inv'
<1>. USE CaptureAssumption DEF Inv, TypeInv, TypeOK, queues, stats
<1>1. /\ UNCHANGED <<mpc, rpc, cancelled, arrived, sock, buf, captured_packets,
                     total_recv, recv_fails, late>>
      /\ mpc = "running" /\ i \in awaiting
      /\ awaiting' = awaiting \ {i} /\ payloads' = payloads \ {i}
      /\ asked' = [asked EXCEPT ![i] = a]
      BY DEF Verdict
<1>2. Bound /\ Bound'
      BY <1>1 DEF Bound
<1>3. /\ i \in Waiting /\ i \in payloads /\ i \in Places /\ i \in Held
      /\ asked[i] = "none" /\ i <= arrived /\ i \notin ToSet(captured_packets)
      /\ i \notin ToSet(sock) /\ i \notin buf
      BY <1>1, <1>2 DEF Waiting, Places, OnePlace, KernelKnows
<1>4. /\ a # "none" /\ a # "held"
      /\ \/ fate' = [fate EXCEPT ![i] = a] /\ total_rlsd' = total_rlsd + 1
            /\ rlsd_fails' = rlsd_fails
         \/ fate' = fate /\ total_rlsd' = total_rlsd /\ rlsd_fails' = rlsd_fails + 1
      BY <1>3 DEF Verdict, ReleasePkt, Effective, Actions
<1>5. /\ Waiting' = Waiting \ {i} /\ Places' = Places \ {i}
      BY <1>1, <1>3 DEF Waiting, Places
<1>6. /\ fate' \in [Pkts -> Fates] /\ asked' \in [Pkts -> {"none"} \union Actions]
      /\ fate'[i] \in {a, "held"} /\ asked'[i] = a
      /\ \A k \in Pkts : k # i => fate'[k] = fate[k] /\ asked'[k] = asked[k]
      BY <1>1, <1>3, <1>4 DEF Fates, Held
<1>7. TypeInv' /\ LifeCycle'
      BY <1>1, <1>4, <1>6 DEF LifeCycle
<1>8. OnePlace'
  <2>1. \A k \in Pkts : k > arrived => k # i
        BY <1>3 DEF Pkts
  <2>2. Places' \subseteq Pkts
        BY <1>5, PlacesArePkts DEF Places
  <2>. QED  BY <1>1, <1>3, <1>5, <1>6, <2>1, <2>2 DEF OnePlace
<1>9. KernelKnows'
      BY <1>2, <1>4, <1>5, <1>6 DEF KernelKnows, Held
<1>10. VerdictReachesHost'
      BY <1>2, <1>4, <1>6 DEF VerdictReachesHost
<1>11. Counters'
  <2>1. Cardinality(Waiting \ {i}) = Cardinality(Waiting) - 1
        BY <1>3, PlacesArePkts, PktsFinite, FS_RemoveElement
  <2>2. i \notin Stuck /\ Stuck \subseteq Pkts
        BY <1>3 DEF Stuck, Decided
  <2>3. Cardinality(Stuck') = rlsd_fails'
    <3>1. CASE fate' = [fate EXCEPT ![i] = a] /\ rlsd_fails' = rlsd_fails
      <4>1. fate'[i] = a
            BY <1>6, <3>1
      <4>2. Stuck' = Stuck
            BY <1>4, <1>6, <2>2, <4>1 DEF Stuck, Decided, Held
      <4>. QED  BY <1>2, <3>1, <4>2 DEF Counters
    <3>2. CASE fate' = fate /\ rlsd_fails' = rlsd_fails + 1
      <4>1. Stuck' = Stuck \union {i}
            BY <1>3, <1>4, <1>6, <3>2 DEF Stuck, Decided, Held
      <4>2. Cardinality(Stuck \union {i}) = Cardinality(Stuck) + 1
            BY <2>2, PktsFinite, FS_AddElement
      <4>. QED  BY <1>2, <3>2, <4>1, <4>2 DEF Counters
    <3>. QED  BY <1>4, <3>1, <3>2
  <2>4. Cardinality(Waiting') + InHand' = total_recv' - total_rlsd' - rlsd_fails'
    <3>1. InHand' = InHand /\ InHand \in Nat /\ Cardinality(Waiting) \in Nat
          BY <1>1, PlacesArePkts, PktsFinite DEF InHand
    <3>2. Cardinality(Waiting) + InHand = total_recv - total_rlsd - rlsd_fails
          BY DEF Counters
    <3>3. Cardinality(Waiting') = Cardinality(Waiting) - 1
          BY <1>5, <2>1
    <3>4. total_rlsd' + rlsd_fails' = total_rlsd + rlsd_fails + 1 /\ total_recv' = total_recv
          BY <1>1, <1>4, SMTT(30)
    <3>5. total_recv' \in Nat /\ total_rlsd' \in Nat /\ rlsd_fails' \in Nat
          /\ total_recv \in Nat /\ total_rlsd \in Nat /\ rlsd_fails \in Nat
          BY <1>7
    <3>6. Cardinality(Waiting') + InHand' = total_recv - total_rlsd - rlsd_fails - 1
          BY ONLY <3>1, <3>2, <3>3, <3>5
    <3>7. PICK l \in Nat, f \in Nat : l = total_rlsd' /\ f = rlsd_fails'
          BY <3>5
    <3>8. l + f = total_rlsd + rlsd_fails + 1
          BY <3>4, <3>7
    <3>9. total_recv - total_rlsd - rlsd_fails - 1 = total_recv - l - f
          BY ONLY <3>5, <3>8, l \in Nat, f \in Nat
    <3>. QED  BY ONLY <3>4, <3>6, <3>7, <3>9
  <2>. QED  BY <2>3, <2>4 DEF Counters
<1>. QED  BY <1>7, <1>8, <1>9, <1>10, <1>11

LEMMA FreedType ==
    ASSUME Unbind, fate \in [Pkts -> Fates]
    PROVE  fate' \in [Pkts -> Fates] /\ sock' = <<>> /\ sock' \in Seq(Pkts)
<1>1. sock' = <<>> /\ sock' \in Seq(Pkts)
      BY NoElements DEF Unbind
<1>. QED  BY <1>1 DEF Unbind, Fates, Actions, Held

(* start(), close() and the cancellation of the reader. *)
LEMMA LifeInv ==
    ASSUME Inv, Life \/ CancellationPoint \/ UNCHANGED vars
    PROVE  Inv'
<1>. USE CaptureAssumption DEF Inv, TypeInv, TypeOK, queues, stats, kernel
<1>1. ASSUME UNCHANGED <<fate, arrived, sock, captured_packets, payloads, awaiting, buf,
                         asked, total_recv, recv_fails, total_rlsd, rlsd_fails, late>>,
             InHand' = InHand
      PROVE  /\ Waiting' = Waiting /\ Places' = Places /\ Stuck' = Stuck /\ Held' = Held
             /\ OnePlace'
             /\ (Bound' => Bound) => KernelKnows' /\ Counters' /\ VerdictReachesHost'
      BY <1>1 DEF Waiting, Places, Stuck, Held, Decided, OnePlace, KernelKnows, Counters,
                  InHand, VerdictReachesHost
<1>2. CASE OpenSocket
  <2>1. /\ UNCHANGED <<fate, arrived, sock, captured_packets, payloads, awaiting, buf, asked,
                       total_recv, recv_fails, total_rlsd, rlsd_fails, late, rpc, cancelled>>
        /\ mpc = "start" /\ mpc' \in {"start", "bound", "failed"} /\ InHand' = InHand
        BY <1>2 DEF OpenSocket, InHand
  <2>2. /\ Places = {} /\ Waiting = {} /\ \A i \in Pkts : fate[i] = "none" /\ asked[i] = "none"
    <3>1. captured_packets = <<>> /\ awaiting = {} /\ sock = <<>> /\ buf = {}
          BY <2>1 DEF LifeCycle
    <3>2. Places = {} /\ Waiting = {}
          BY <3>1, NoElements DEF Places, Waiting
    <3>. QED  BY <2>1, <3>2 DEF LifeCycle, OnePlace, Pkts
  <2>3. Held = {} /\ Stuck = {}
        BY <2>2 DEF Held, Stuck
  <2>4. TypeInv' /\ LifeCycle'
        BY <2>1 DEF LifeCycle
  <2>5. KernelKnows' /\ VerdictReachesHost'
        BY <1>1, <2>1, <2>2, <2>3 DEF KernelKnows, VerdictReachesHost
  <2>6. Counters'
        BY <1>1, <2>1, <2>3, FS_EmptySet DEF Counters, LifeCycle
  <2>. QED  BY <1>1, <2>1, <2>4, <2>5, <2>6
<1>3. CASE CreateReader
  <2>1. CASE mpc' = "running"
    <3>1. /\ UNCHANGED <<fate, arrived, sock, captured_packets, payloads, awaiting, buf, asked,
                         total_recv, recv_fails, total_rlsd, rlsd_fails, late, cancelled>>
          /\ mpc = "bound" /\ rpc = "none" /\ rpc' = "recv" /\ InHand' = InHand
          BY <1>3, <2>1 DEF CreateReader, InHand
    <3>2. TypeInv' /\ LifeCycle' /\ Bound
          BY <2>1, <3>1 DEF LifeCycle, Bound
    <3>. QED  BY <1>1, <3>1, <3>2
  <2>2. CASE mpc' = "failed"
    <3>1. /\ UNCHANGED <<arrived, captured_packets, payloads, awaiting, buf, asked,
                         total_recv, recv_fails, total_rlsd, rlsd_fails, late, rpc, cancelled>>
          /\ mpc = "bound" /\ Unbind
          BY <1>3, <2>2 DEF CreateReader, Unbind
    <3>2. fate' \in [Pkts -> Fates] /\ sock' = <<>> /\ sock' \in Seq(Pkts)
          BY <3>1, FreedType
    <3>3. TypeInv'
          BY <2>2, <3>1, <3>2 DEF Unbind
    <3>4. LifeCycle'
          BY <2>2, <3>1, <3>2 DEF LifeCycle, Unbind
    <3>. QED  BY <2>2, <3>1, <3>3, <3>4, UnbindInv DEF Bound
  <2>. QED  BY <1>3, <2>1, <2>2 DEF CreateReader
<1>4. CASE Free
  <2>1. /\ UNCHANGED <<arrived, captured_packets, payloads, awaiting, buf, asked,
                       total_recv, recv_fails, total_rlsd, rlsd_fails, late, rpc, cancelled>>
        /\ mpc = "cancel" /\ mpc' = "closed" /\ Unbind
        BY <1>4 DEF Free, Unbind
  <2>2. fate' \in [Pkts -> Fates] /\ sock' = <<>> /\ sock' \in Seq(Pkts)
        BY <2>1, FreedType
  <2>3. TypeInv'
        BY <2>1, <2>2 DEF Unbind, LifeCycle
  <2>4. LifeCycle'
        BY <2>1, <2>2 DEF LifeCycle, Unbind
  <2>. QED  BY <2>1, <2>3, <2>4, UnbindInv DEF Bound
<1>5. CASE UseAfterFree
      BY <1>5, UseAfterFreeInv
<1>6. CASE (Cancel \/ CloseFailed \/ CancellationPoint \/ UNCHANGED vars) /\ ~UseAfterFree
  <2>1. /\ UNCHANGED <<fate, arrived, sock, captured_packets, payloads, awaiting, buf, asked,
                       total_recv, recv_fails, total_rlsd, rlsd_fails, late>>
        /\ \/ mpc = "running" /\ mpc' = "cancel" /\ cancelled' /\ rpc' = rpc
           \/ mpc = "failed" /\ mpc' = "closed" /\ UNCHANGED <<cancelled, rpc>>
           \/ rpc = "recv" /\ rpc' = "gone" /\ UNCHANGED <<mpc, cancelled>>
           \/ UNCHANGED <<mpc, cancelled, rpc>>
        BY <1>6 DEF Cancel, CloseFailed, CancellationPoint, vars
  <2>2. (Bound' => Bound) /\ InHand' = InHand
        BY <2>1 DEF Bound, InHand
  <2>3. TypeInv' /\ LifeCycle'
        BY <2>1 DEF LifeCycle
  <2>. QED  BY <1>1, <2>1, <2>2, <2>3
<1>. QED  BY <1>2, <1>3, <1>4, <1>5, <1>6 DEF Life

LEMMA NextInv == Inv /\ [Next]_vars => Inv'
    BY HostSendsInv, RecvInv, QueueCbInv, HandleCaptureInv, PopInv, VerdictInv, LifeInv
    DEF Next, Reader, Handler, Terminated

LEMMA Always == Spec => []Inv
    BY InitInv, NextInv, PTL DEF Spec

(* The life cycle of the interface and its reader: a reader exists only     *)
(* with an interface, one that comes back to recv() after close() receives  *)
(* nothing any more (it is cancelled there, unless reading the freed        *)
(* interface crashes it), and at most one packet is captured by a freed one. *)
THEOREM TypeCorrect == Spec => []TypeOK
<1>1. Inv => TypeOK
      BY DEF Inv, TypeInv
<1>. QED  BY <1>1, Always, PTL

(* A verdict that was sent is what the host sees, in whatever order         *)
(* verdicts and captures come; a mark never turns into a drop because the   *)
(* payload is missing.                                                      *)
THEOREM VerdictsReachHost == Spec => []VerdictReachesHost
<1>1. Inv => VerdictReachesHost
      BY DEF Inv
<1>. QED  BY <1>1, Always, PTL

(* The kernel holds only what pkt_capture knows of, or what it was told of  *)
(* in vain: nothing is lost between the socket, the reader, the captured    *)
(* packets and the handler.  The counters of the two threads agree with     *)
(* what waits, but for the one packet the reader has counted and has not    *)
(* enqueued yet, which stats() may see.                                     *)
THEOREM NothingLostInCapture == Spec => []HeldAccounted
<1>1. Inv => HeldAccounted
  <2>. SUFFICES ASSUME Inv PROVE HeldAccounted
       OBVIOUS
  <2>1. payloads = Waiting
        BY DEF Inv, OnePlace
  <2>2. Bound => Held = Places \union Stuck
    <3>1. Places \subseteq Pkts
          BY PlacesArePkts DEF Places, Inv, TypeInv, TypeOK
    <3>2. \A i \in Places : asked[i] = "none"
          BY DEF Inv, OnePlace
    <3>. QED  BY <3>1, <3>2 DEF Inv, KernelKnows, Stuck, Decided, Held
  <2>3. Cardinality(Waiting) + InHand = total_recv - total_rlsd - rlsd_fails
        BY DEF Inv, Counters
  <2>4. Bound => Cardinality(Stuck) = rlsd_fails
        BY DEF Inv, Counters
  <2>. QED  BY <2>1, <2>2, <2>3, <2>4 DEF HeldAccounted, Places, Waiting, Stuck
<1>. QED  BY <1>1, Always, PTL
=============================================================================
