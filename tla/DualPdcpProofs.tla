--------------------------- MODULE DualPdcpProofs ---------------------------
(* Theorems about DualPdcp, for every number and size of packets, every mix *)
(* of ECN codepoints, every delay budget, set of grants and setting of the  *)
(* AQM: what the two queues, the fragments put back at the tail, the AQM's  *)
(* drops and marks and the delay budget make of a packet.                   *)
EXTENDS DualPdcp, ReleaseBufferProofs

(* The two queues taken together.                                           *)
Elements(s) == {s[i] : i \in DOMAIN s}
TwoSums(l, c) == SumSizes(l) + SumSizes(c)
TwoBits(l, c, u) == BitsOf(l, u) + BitsOf(c, u)

(* Until a sum is rounded current_size is what the queues hold, with what   *)
(* pop_next has dropped and what get_pkts has packed but not yet counted.   *)
Counted ==
    ~rounded =>
        /\ current_size <= Exact
        /\ current_size = TwoSums(lq, cq) + SumSizes(dropped_queue)
                            + (IF pc = "get" THEN harq.bits ELSE 0)

(* Nothing dropped, and no block, is left behind by a loop of handle_pkt.   *)
LoopsEnd ==
    /\ pc \notin {"get", "drain"} => dropped_queue = <<>>
    /\ pc \notin {"get", "drain", "discard", "push"} => harq.pkts = <<>>
    /\ harq.bits = 0 => harq.pkts = <<>>

QueueInv == TypeOK /\ Counted /\ LoopsEnd

(* Each bit of a packet captured has gone to out_pkts, or is in one of the  *)
(* queues or in the block.                                                  *)
Arrived(u) == IF u <= admitted THEN Size[u] ELSE 0
Inside(u) == TwoBits(lq, cq, u) + BitsOf(dropped_queue, u) + BitsOf(harq.pkts, u)
Conserved == \A u \in Pkts : sent[u] + Inside(u) = Arrived(u)

(* out_pkts has one entry for each undecided packet something was sent of,  *)
(* and nothing of a decided one, which was sent whole.                      *)
Released ==
    /\ OneEach(out_pkts)
    /\ \A u \in Pkts :
         /\ verdict[u] = "none" => BitsOf(out_pkts, u) = sent[u]
         /\ verdict[u] # "none" => BitsOf(out_pkts, u) = 0 /\ sent[u] = Size[u]

Erased(i) == out_pkts[i].erase

(* A lost packet has an entry in out_pkts that says so.                     *)
LostIsErased ==
    /\ \A i \in DOMAIN out_pkts : Erased(i) => out_pkts[i].uid \in lost
    /\ \A u \in lost : verdict[u] = "none" =>
         \E i \in DOMAIN out_pkts : out_pkts[i].uid = u /\ Erased(i)

(* A mark is only ever set on a packet that came with ECT.                  *)
Capable(u) == ecn_in[u] \in {"ect0", "ect1"}
MarkTrue(e) == (e.ce => Capable(e.uid)) /\ (e.ecn # "ce" => e.ecn = ecn_in[e.uid])
CeTrue ==
    /\ \A e \in Elements(lq) \cup Elements(cq) : MarkTrue(e)
    /\ \A i \in DOMAIN harq.pkts : harq.pkts[i].ce => Capable(harq.pkts[i].uid)
    /\ \A i \in DOMAIN out_pkts : out_pkts[i].ce => Capable(out_pkts[i].uid)
-----------------------------------------------------------------------------
(* The queues.                                                              *)

LEMMA EntryIs ==
    ASSUME NEW e \in QueueEntry
    PROVE  /\ e.uid \in Pkts /\ e.size \in Nat \ {0} /\ e.size \in Nat /\ e.age \in Nat
           /\ e.ecn \in Ecns \cup {"ce"} /\ e.ce \in BOOLEAN
BY DEF QueueEntry

LEMMA QueueIs ==
    ASSUME NEW s \in Seq(QueueEntry)
    PROVE  /\ \A i \in DOMAIN s : s[i] \in QueueEntry /\ s[i].size \in Nat
           /\ SumSizes(s) \in Nat
           /\ \A u : BitsOf(s, u) \in Nat
<1>1. \A i \in DOMAIN s : s[i] \in QueueEntry
      OBVIOUS
<1>2. \A i \in DOMAIN s : s[i].size \in Nat
      BY <1>1, EntryIs
<1>. QED  BY <1>1, <1>2, SumSizesNat, BitsOfNat

LEMMA BlockIs ==
    ASSUME NEW s \in Seq(BlockEntry)
    PROVE  /\ \A i \in DOMAIN s : /\ s[i] \in BlockEntry /\ s[i].uid \in Pkts
                                  /\ s[i].size \in Nat \ {0} /\ s[i].size \in Nat
                                  /\ s[i].ce \in BOOLEAN
           /\ \A u : BitsOf(s, u) \in Nat
<1>1. \A i \in DOMAIN s : s[i] \in BlockEntry
      OBVIOUS
<1>2. \A i \in DOMAIN s : /\ s[i].uid \in Pkts /\ s[i].size \in Nat \ {0} /\ s[i].size \in Nat
                          /\ s[i].ce \in BOOLEAN
      BY <1>1 DEF BlockEntry
<1>. QED  BY <1>1, <1>2, BitsOfNat

(* The packet at the head of a queue leaves it.                             *)
LEMMA HeadLeaves ==
    ASSUME NEW s \in Seq(QueueEntry), s # <<>>
    PROVE  /\ Head(s) \in QueueEntry /\ Tail(s) \in Seq(QueueEntry)
           /\ SumSizes(s) = Head(s).size + SumSizes(Tail(s))
           /\ \A u : BitsOf(s, u) = PartOf(Head(s), u) + BitsOf(Tail(s), u)
           /\ Head(s) \in Elements(s) /\ Elements(Tail(s)) \subseteq Elements(s)
<1>1. /\ Head(s) \in QueueEntry /\ Tail(s) \in Seq(QueueEntry)
      /\ 1 \in DOMAIN s /\ Head(s) = s[1]
      /\ \A i \in DOMAIN Tail(s) : i + 1 \in DOMAIN s /\ Tail(s)[i] = s[i + 1]
      BY HeadTail
<1>2. \A i \in DOMAIN s : s[i].size \in Nat
      BY QueueIs
<1>3. SumSizes(s) = s[1].size + SumSizes(Tail(s))
      BY <1>2, SumSizesTail
<1>4. \A u : BitsOf(s, u) = PartOf(s[1], u) + BitsOf(Tail(s), u)
      BY <1>2, BitsOfTail
<1>. QED  BY <1>1, <1>3, <1>4 DEF Elements

(* A packet joins a queue at its tail.                                      *)
LEMMA TailJoins ==
    ASSUME NEW s \in Seq(QueueEntry), NEW e \in QueueEntry
    PROVE  /\ Append(s, e) \in Seq(QueueEntry)
           /\ SumSizes(Append(s, e)) = SumSizes(s) + e.size
           /\ \A u : BitsOf(Append(s, e), u) = BitsOf(s, u) + PartOf(e, u)
           /\ Elements(Append(s, e)) \subseteq Elements(s) \cup {e}
<1>1. /\ Append(s, e) \in Seq(QueueEntry)
      /\ DOMAIN Append(s, e) = DOMAIN s \cup {Len(s) + 1}
      /\ \A i \in DOMAIN s : Append(s, e)[i] = s[i]
      /\ Append(s, e)[Len(s) + 1] = e
      BY Appended
<1>2. e.size \in Nat /\ \A i \in DOMAIN s : s[i].size \in Nat
      BY EntryIs, QueueIs
<1>3. SumSizes(Append(s, e)) = SumSizes(s) + e.size
      BY <1>2, SumSizesAppend
<1>4. \A u : BitsOf(Append(s, e), u) = BitsOf(s, u) + PartOf(e, u)
      BY <1>2, BitsOfAppend
<1>. QED  BY <1>1, <1>3, <1>4 DEF Elements

(* A packet e leaves the two queues l and c, which become l2 and c2 ...     *)
Left(e, l, c, l2, c2) ==
    \/ l # <<>> /\ e = Head(l) /\ l2 = Tail(l) /\ c2 = c
    \/ c # <<>> /\ e = Head(c) /\ l2 = l /\ c2 = Tail(c)

(* ... or joins them.                                                       *)
Joined(e, l, c, l2, c2) ==
    \/ l2 = Append(l, e) /\ c2 = c
    \/ l2 = l /\ c2 = Append(c, e)

TwoQueues(l, c) == l \in Seq(QueueEntry) /\ c \in Seq(QueueEntry)

LEMMA TwoAreNat ==
    ASSUME NEW l, NEW c, TwoQueues(l, c)
    PROVE  TwoSums(l, c) \in Nat /\ \A u : TwoBits(l, c, u) \in Nat
<1>1. /\ SumSizes(l) \in Nat /\ SumSizes(c) \in Nat
      /\ \A u : BitsOf(l, u) \in Nat /\ BitsOf(c, u) \in Nat
      BY QueueIs DEF TwoQueues
<1>. QED  BY <1>1 DEF TwoSums, TwoBits

LEMMA LeftIs ==
    ASSUME NEW e, NEW l, NEW c, NEW l2, NEW c2, TwoQueues(l, c), Left(e, l, c, l2, c2)
    PROVE  /\ e \in QueueEntry /\ TwoQueues(l2, c2)
           /\ TwoSums(l, c) = TwoSums(l2, c2) + e.size
           /\ \A u : TwoBits(l, c, u) = TwoBits(l2, c2, u) + PartOf(e, u)
           /\ e \in Elements(l) \cup Elements(c)
           /\ Elements(l2) \cup Elements(c2) \subseteq Elements(l) \cup Elements(c)
<1>1. CASE l # <<>> /\ e = Head(l) /\ l2 = Tail(l) /\ c2 = c
  <2>1. /\ e \in QueueEntry /\ l2 \in Seq(QueueEntry) /\ c \in Seq(QueueEntry)
        /\ SumSizes(l) = e.size + SumSizes(l2)
        /\ \A u : BitsOf(l, u) = PartOf(e, u) + BitsOf(l2, u)
        /\ e \in Elements(l) /\ Elements(l2) \subseteq Elements(l)
        BY <1>1, HeadLeaves DEF TwoQueues
  <2>2. /\ SumSizes(l2) \in Nat /\ SumSizes(c) \in Nat /\ e.size \in Nat
        /\ \A u : BitsOf(l2, u) \in Nat /\ BitsOf(c, u) \in Nat /\ PartOf(e, u) \in Nat
        BY <2>1, QueueIs, EntryIs DEF PartOf
  <2>3. TwoSums(l, c) = TwoSums(l2, c2) + e.size
        BY <1>1, <2>1, <2>2 DEF TwoSums
  <2>4. \A u : TwoBits(l, c, u) = TwoBits(l2, c2, u) + PartOf(e, u)
        BY <1>1, <2>1, <2>2 DEF TwoBits
  <2>. QED  BY <1>1, <2>1, <2>3, <2>4 DEF TwoQueues
<1>2. CASE c # <<>> /\ e = Head(c) /\ l2 = l /\ c2 = Tail(c)
  <2>1. /\ e \in QueueEntry /\ c2 \in Seq(QueueEntry) /\ l \in Seq(QueueEntry)
        /\ SumSizes(c) = e.size + SumSizes(c2)
        /\ \A u : BitsOf(c, u) = PartOf(e, u) + BitsOf(c2, u)
        /\ e \in Elements(c) /\ Elements(c2) \subseteq Elements(c)
        BY <1>2, HeadLeaves DEF TwoQueues
  <2>2. /\ SumSizes(c2) \in Nat /\ SumSizes(l) \in Nat /\ e.size \in Nat
        /\ \A u : BitsOf(c2, u) \in Nat /\ BitsOf(l, u) \in Nat /\ PartOf(e, u) \in Nat
        BY <2>1, QueueIs, EntryIs DEF PartOf
  <2>3. TwoSums(l, c) = TwoSums(l2, c2) + e.size
        BY <1>2, <2>1, <2>2 DEF TwoSums
  <2>4. \A u : TwoBits(l, c, u) = TwoBits(l2, c2, u) + PartOf(e, u)
        BY <1>2, <2>1, <2>2 DEF TwoBits
  <2>. QED  BY <1>2, <2>1, <2>3, <2>4 DEF TwoQueues
<1>. QED  BY <1>1, <1>2 DEF Left

LEMMA JoinedIs ==
    ASSUME NEW e \in QueueEntry, NEW l, NEW c, NEW l2, NEW c2, TwoQueues(l, c),
           Joined(e, l, c, l2, c2)
    PROVE  /\ TwoQueues(l2, c2)
           /\ TwoSums(l2, c2) = TwoSums(l, c) + e.size
           /\ \A u : TwoBits(l2, c2, u) = TwoBits(l, c, u) + PartOf(e, u)
           /\ Elements(l2) \cup Elements(c2) \subseteq Elements(l) \cup Elements(c) \cup {e}
<1>1. /\ SumSizes(l) \in Nat /\ SumSizes(c) \in Nat /\ e.size \in Nat
      /\ \A u : BitsOf(l, u) \in Nat /\ BitsOf(c, u) \in Nat /\ PartOf(e, u) \in Nat
      BY QueueIs, EntryIs DEF TwoQueues, PartOf
<1>2. CASE l2 = Append(l, e) /\ c2 = c
  <2>1. /\ l2 \in Seq(QueueEntry) /\ c \in Seq(QueueEntry)
        /\ SumSizes(l2) = SumSizes(l) + e.size
        /\ \A u : BitsOf(l2, u) = BitsOf(l, u) + PartOf(e, u)
        /\ Elements(l2) \subseteq Elements(l) \cup {e}
        BY <1>2, TailJoins DEF TwoQueues
  <2>2. TwoSums(l2, c2) = TwoSums(l, c) + e.size
        BY <1>1, <1>2, <2>1 DEF TwoSums
  <2>3. \A u : TwoBits(l2, c2, u) = TwoBits(l, c, u) + PartOf(e, u)
        BY <1>1, <1>2, <2>1 DEF TwoBits
  <2>. QED  BY <1>2, <2>1, <2>2, <2>3 DEF TwoQueues
<1>3. CASE l2 = l /\ c2 = Append(c, e)
  <2>1. /\ c2 \in Seq(QueueEntry) /\ l \in Seq(QueueEntry)
        /\ SumSizes(c2) = SumSizes(c) + e.size
        /\ \A u : BitsOf(c2, u) = BitsOf(c, u) + PartOf(e, u)
        /\ Elements(c2) \subseteq Elements(c) \cup {e}
        BY <1>3, TailJoins DEF TwoQueues
  <2>2. TwoSums(l2, c2) = TwoSums(l, c) + e.size
        BY <1>1, <1>3, <2>1 DEF TwoSums
  <2>3. \A u : TwoBits(l2, c2, u) = TwoBits(l, c, u) + PartOf(e, u)
        BY <1>1, <1>3, <2>1 DEF TwoBits
  <2>. QED  BY <1>3, <2>1, <2>2, <2>3 DEF TwoQueues
<1>. QED  BY <1>2, <1>3 DEF Joined

(* A mark leaves uid, size and age, and is only set on ECT packets.         *)
LEMMA MarkedIs ==
    ASSUME NEW d \in QueueEntry, NEW e \in Marked(d)
    PROVE  /\ e \in QueueEntry /\ e.uid = d.uid /\ e.size = d.size /\ e.age = d.age
           /\ MarkTrue(d) => MarkTrue(e)
<1>1. e = d \/ (e = MarkCe(d) /\ (IsL4s(d) \/ ClassicMarkable(d)))
      BY DEF Marked
<1>2. CASE e = d
      BY <1>2
<1>3. CASE e = MarkCe(d) /\ (IsL4s(d) \/ ClassicMarkable(d)) /\ d.ecn # "ce"
  <2>1. e = [d EXCEPT !.ecn = "ce", !.ce = TRUE]
        BY <1>3 DEF MarkCe
  <2>2. e \in QueueEntry /\ e.uid = d.uid /\ e.size = d.size /\ e.age = d.age /\ e.ecn = "ce"
        BY <2>1 DEF QueueEntry
  <2>3. d.ecn \in {"ect0", "ect1"}
        BY <1>3 DEF IsL4s, ClassicMarkable
  <2>. QED  BY <1>3, <2>2, <2>3 DEF MarkTrue, Capable
<1>4. CASE e = MarkCe(d) /\ d.ecn = "ce"
      BY <1>4 DEF MarkCe
<1>. QED  BY <1>1, <1>2, <1>3, <1>4

(* The packet the AQM serves, and the oldest packet, leave their queue.     *)
LEMMA PopLeaves ==
    ASSUME HasPkts
    PROVE  Left(Chosen, lq, cq, LqPopped, CqPopped)
BY DEF HasPkts, Left, Chosen, LqPopped, CqPopped, ChooseL4s

LEMMA OldestLeaves ==
    ASSUME Expire
    PROVE  Left(Oldest, lq, cq, lq', cq')
BY DEF Expire, HasPkts, Left, Oldest, OldestIsL4s
-----------------------------------------------------------------------------
(* What the actions do to the queues, the block and the record of what was  *)
(* sent.                                                                    *)

MarksTrue(l, c) == \A e \in Elements(l) \cup Elements(c) : MarkTrue(e)

LEMMA Types ==
    ASSUME TypeOK
    PROVE  /\ TwoQueues(lq, cq) /\ lq \in Seq(QueueEntry) /\ cq \in Seq(QueueEntry)
           /\ dropped_queue \in Seq(QueueEntry) /\ out_pkts \in Seq(OutEntry)
           /\ harq.pkts \in Seq(BlockEntry) /\ harq.bits \in Nat /\ harq.age \in Nat
           /\ harq.wait \in Nat
           /\ \A u \in Pkts : u \in Nat /\ sent[u] \in Nat /\ Size[u] \in Nat \ {0}
           /\ \A i \in DOMAIN out_pkts : out_pkts[i].uid \in Pkts /\ out_pkts[i].size \in Nat
<1>1. \A i \in DOMAIN out_pkts : out_pkts[i].uid \in Pkts /\ out_pkts[i].size \in Nat
  <2>1. \A i \in DOMAIN out_pkts : out_pkts[i] \in OutEntry
        BY DEF TypeOK, ReleaseTypeOK
  <2>. QED  BY <2>1, EntryFields
<1>2. \A u \in Pkts : u \in Nat /\ sent[u] \in Nat /\ Size[u] \in Nat \ {0}
      BY NumPktsAssumption, SizeAssumption DEF TypeOK, Pkts
<1>. QED  BY <1>1, <1>2 DEF TypeOK, ReleaseTypeOK, TwoQueues

LEMMA AdmitIs ==
    ASSUME TypeOK, Admit
    PROVE  \E e \in QueueEntry :
             /\ e.uid = admitted + 1 /\ e.uid \in Pkts /\ e.size = Size[e.uid]
             /\ MarkTrue(e)
             /\ admitted' = e.uid
             /\ current_size' \in Nearest(current_size + e.size)
             /\ rounded' \in BOOLEAN
             /\ ~rounded' => ~rounded /\ ~(current_size + e.size > Exact)
             /\ Joined(e, lq, cq, lq', cq')
<1>. DEFINE u == admitted + 1
            e == [uid |-> u, size |-> Size[u], age |-> 0, ecn |-> ecn_in[u], ce |-> FALSE]
<1>1. u \in Pkts /\ Size[u] \in Nat \ {0} /\ ecn_in[u] \in Ecns
      BY SizeAssumption DEF Admit, TypeOK
<1>2. /\ e \in QueueEntry /\ e.uid = u /\ e.size = Size[u] /\ e.ecn = ecn_in[u] /\ ~e.ce
      BY <1>1 DEF QueueEntry
<1>3. Enqueue(e) /\ admitted' = u /\ current_size' \in Nearest(current_size + Size[u])
      BY DEF Admit
<1>5. /\ rounded' \in BOOLEAN
      /\ ~rounded' => ~rounded /\ ~(current_size + Size[u] > Exact)
  <2>1. rounded' = (rounded \/ current_size + Size[u] > Exact)
        BY DEF Admit
  <2>. HIDE DEF u
  <2>2. (rounded \/ current_size + Size[u] > Exact) \in BOOLEAN
        BY Zenon
  <2>. QED  BY <2>1, <2>2, Zenon
<1>. HIDE DEF e
<1>4. Joined(e, lq, cq, lq', cq')
      BY <1>3 DEF Enqueue, Joined
<1>. QED  BY <1>1, <1>2, <1>3, <1>4, <1>5 DEF MarkTrue

(* get_pkts takes m bits of the packet served: all of it, or what the grant *)
(* has left, and the rest joins a queue again with the mark.                *)
LEMMA TakeIs ==
    ASSUME TypeOK, TakeWhole \/ TakeFragment
    PROVE  \E b \in BlockEntry :
             /\ harq' = [harq EXCEPT !.bits = harq.bits + b.size,
                                     !.pkts = Append(harq.pkts, b)]
             /\ bits' \in Nat
             /\ TwoQueues(lq', cq')
             /\ TwoSums(lq, cq) = TwoSums(lq', cq') + b.size
             /\ \A u : TwoBits(lq, cq, u) = TwoBits(lq', cq', u) + PartOf(b, u)
             /\ MarksTrue(lq, cq) => /\ MarksTrue(lq', cq')
                                     /\ b.ce => Capable(b.uid)
<1>1. /\ TwoQueues(lq, cq) /\ HasPkts /\ bits \in Nat \ {0}
      BY Types DEF TypeOK, TakeWhole, TakeFragment, Popping
<1>2. Left(Chosen, lq, cq, LqPopped, CqPopped)
      BY <1>1, PopLeaves
<1>3. PICK d \in QueueEntry :
        /\ d = Chosen /\ TwoQueues(LqPopped, CqPopped)
        /\ TwoSums(lq, cq) = TwoSums(LqPopped, CqPopped) + d.size
        /\ \A u : TwoBits(lq, cq, u) = TwoBits(LqPopped, CqPopped, u) + PartOf(d, u)
        /\ d \in Elements(lq) \cup Elements(cq)
        /\ Elements(LqPopped) \cup Elements(CqPopped) \subseteq Elements(lq) \cup Elements(cq)
      BY <1>1, <1>2, LeftIs
<1>4. /\ TwoSums(LqPopped, CqPopped) \in Nat
      /\ \A u : TwoBits(LqPopped, CqPopped, u) \in Nat
      BY <1>3, TwoAreNat
<1>5. CASE TakeWhole
  <2>1. PICK e \in Marked(d) :
          bits >= d.size /\ bits' = bits - e.size /\ harq' = Packed(e, e.size)
        BY <1>3, <1>5 DEF TakeWhole, Fits
  <2>2. e \in QueueEntry /\ e.uid = d.uid /\ e.size = d.size /\ (MarkTrue(d) => MarkTrue(e))
        BY MarkedIs
  <2>3. e.uid \in Pkts /\ e.size \in Nat \ {0} /\ e.ce \in BOOLEAN
        BY <2>2, EntryIs
  <2>4. PICK b : b = [uid |-> e.uid, size |-> e.size, ce |-> e.ce]
        OBVIOUS
  <2>5. b \in BlockEntry /\ b.uid = e.uid /\ b.size = e.size /\ b.ce = e.ce
        BY <2>3, <2>4 DEF BlockEntry
  <2>6. harq' = [harq EXCEPT !.bits = harq.bits + b.size, !.pkts = Append(harq.pkts, b)]
        BY <2>1, <2>4, <2>5 DEF Packed
  <2>7. lq' = LqPopped /\ cq' = CqPopped
        BY <1>5 DEF TakeWhole
  <2>8. bits' \in Nat
        BY <1>1, <2>1, <2>2, <2>3
  <2>9. \A u : PartOf(b, u) = PartOf(d, u)
        BY <2>2, <2>5 DEF PartOf
  <2>10. MarksTrue(lq, cq) => MarksTrue(lq', cq') /\ (b.ce => Capable(b.uid))
        BY <1>3, <2>2, <2>5, <2>7 DEF MarksTrue, MarkTrue
  <2>11. TwoQueues(lq', cq')
        BY <1>3, <2>7
  <2>12. TwoSums(lq, cq) = TwoSums(lq', cq') + b.size
        BY <1>3, <2>2, <2>5, <2>7
  <2>13. \A u : TwoBits(lq, cq, u) = TwoBits(lq', cq', u) + PartOf(b, u)
        BY <1>3, <2>7, <2>9
  <2>. QED  BY <2>5, <2>6, <2>8, <2>10, <2>11, <2>12, <2>13
<1>6. CASE TakeFragment
  <2>1. PICK e \in Marked(d) :
          /\ ~(bits >= d.size) /\ harq' = Packed(e, bits)
          /\ Joined(Rest(e), LqPopped, CqPopped, lq', cq')
    <3>1. PICK e \in Marked(d) :
            /\ ~(bits >= d.size) /\ harq' = Packed(e, bits)
            /\ lq' = IF IsL4s(e) THEN Append(LqPopped, Rest(e)) ELSE LqPopped
            /\ cq' = IF IsL4s(e) THEN CqPopped ELSE Append(CqPopped, Rest(e))
          BY <1>3, <1>6 DEF TakeFragment, Fits
    <3>2. Joined(Rest(e), LqPopped, CqPopped, lq', cq')
          BY <3>1 DEF Joined
    <3>. QED  BY <3>1, <3>2
  <2>2. /\ e \in QueueEntry /\ e.uid = d.uid /\ e.size = d.size /\ (MarkTrue(d) => MarkTrue(e))
        BY MarkedIs
  <2>3. e.uid \in Pkts /\ e.size \in Nat \ {0} /\ e.ce \in BOOLEAN
        BY <2>2, EntryIs
  <2>4. PICK n \in Nat \ {0} : n = e.size - bits
        BY <1>1, <2>1, <2>2, <2>3
  <2>5. PICK r : r = [e EXCEPT !.size = n]
        OBVIOUS
  <2>6. r \in QueueEntry /\ r = Rest(e) /\ r.uid = e.uid /\ r.size = n
        /\ r.ce = e.ce /\ r.ecn = e.ecn
        BY <2>2, <2>4, <2>5 DEF Rest, QueueEntry
  <2>7. PICK b : b = [uid |-> e.uid, size |-> bits, ce |-> e.ce]
        OBVIOUS
  <2>8. b \in BlockEntry /\ b.uid = e.uid /\ b.size = bits /\ b.ce = e.ce
        BY <1>1, <2>3, <2>7 DEF BlockEntry
  <2>9. harq' = [harq EXCEPT !.bits = harq.bits + b.size, !.pkts = Append(harq.pkts, b)]
        BY <2>1, <2>7, <2>8 DEF Packed
  <2>10. /\ TwoQueues(lq', cq')
         /\ TwoSums(lq', cq') = TwoSums(LqPopped, CqPopped) + r.size
         /\ \A u : TwoBits(lq', cq', u) = TwoBits(LqPopped, CqPopped, u) + PartOf(r, u)
         /\ Elements(lq') \cup Elements(cq')
              \subseteq Elements(LqPopped) \cup Elements(CqPopped) \cup {r}
    <3>1. Joined(r, LqPopped, CqPopped, lq', cq')
          BY <2>1, <2>6
    <3>. QED  BY <1>3, <2>6, <3>1, JoinedIs
  <2>11. bits' \in Nat
        BY <1>6 DEF TakeFragment
  <2>12. d.size = r.size + b.size
        BY <1>1, <2>2, <2>3, <2>4, <2>6, <2>8
  <2>13. TwoSums(lq, cq) = TwoSums(lq', cq') + b.size
        BY <1>1, <1>3, <1>4, <2>4, <2>6, <2>8, <2>10, <2>12
  <2>14. \A u : TwoBits(lq, cq, u) = TwoBits(lq', cq', u) + PartOf(b, u)
    <3>1. \A u : PartOf(d, u) = PartOf(r, u) + PartOf(b, u) /\ PartOf(r, u) \in Nat
                 /\ PartOf(b, u) \in Nat
          BY <1>1, <2>2, <2>4, <2>6, <2>8, <2>12 DEF PartOf
    <3>. QED  BY <1>3, <1>4, <2>10, <3>1
  <2>15. MarksTrue(lq, cq) => MarksTrue(lq', cq') /\ (b.ce => Capable(b.uid))
        BY <1>3, <2>2, <2>6, <2>8, <2>10 DEF MarksTrue, MarkTrue
  <2>. QED  BY <2>8, <2>9, <2>10, <2>11, <2>13, <2>14, <2>15
<1>. QED  BY <1>5, <1>6

(* A packet or part that reaches out_pkts leaves the queues or the block.   *)
LEMMA SentIs ==
    ASSUME TypeOK, Expire \/ Drain \/ Discard \/ Push
    PROVE  \E u \in Pkts, m \in Nat \ {0}, ce \in BOOLEAN :
             /\ sent' = [sent EXCEPT ![u] = sent[u] + m]
             /\ \/ Push /\ out_pkts' = WithData(u, m, harq.wait, ce) /\ lost' = lost
                \/ out_pkts' = WithoutData(u, m) /\ lost' = lost \cup {u}
             /\ TwoQueues(lq', cq') /\ dropped_queue' \in Seq(QueueEntry)
             /\ harq'.pkts \in Seq(BlockEntry)
             /\ \A v : Inside(v) = Inside(v)' + (IF v = u THEN m ELSE 0)
             /\ Push => \E i \in DOMAIN harq.pkts : harq.pkts[i].uid = u /\ harq.pkts[i].ce = ce
             /\ \A i \in DOMAIN harq'.pkts : \E j \in DOMAIN harq.pkts : harq'.pkts[i] = harq.pkts[j]
             /\ MarksTrue(lq, cq) => MarksTrue(lq', cq')
<1>0. /\ TwoQueues(lq, cq) /\ dropped_queue \in Seq(QueueEntry) /\ harq.pkts \in Seq(BlockEntry)
      /\ \A v : /\ TwoBits(lq, cq, v) \in Nat /\ BitsOf(dropped_queue, v) \in Nat
                /\ BitsOf(harq.pkts, v) \in Nat
      BY Types, TwoAreNat, QueueIs, BlockIs
<1>1. CASE Expire
  <2>1. Left(Oldest, lq, cq, lq', cq')
        BY <1>1, OldestLeaves
  <2>2. PICK e \in QueueEntry :
          /\ e = Oldest /\ TwoQueues(lq', cq')
          /\ \A v : TwoBits(lq, cq, v) = TwoBits(lq', cq', v) + PartOf(e, v)
          /\ Elements(lq') \cup Elements(cq') \subseteq Elements(lq) \cup Elements(cq)
        BY <1>0, <2>1, LeftIs
  <2>3. /\ sent' = [sent EXCEPT ![e.uid] = sent[e.uid] + e.size]
        /\ out_pkts' = WithoutData(e.uid, e.size) /\ lost' = lost \cup {e.uid}
        /\ dropped_queue' = dropped_queue /\ harq' = harq
        BY <1>1, <2>2 DEF Expire, grant
  <2>4. e.uid \in Pkts /\ e.size \in Nat \ {0}
        BY EntryIs
  <2>5. \A v : Inside(v) = Inside(v)' + (IF v = e.uid THEN e.size ELSE 0)
    <3>1. \A v : PartOf(e, v) = (IF v = e.uid THEN e.size ELSE 0)
          BY DEF PartOf
    <3>2. \A v : TwoBits(lq', cq', v) \in Nat
          BY <2>2, TwoAreNat
    <3>3. ASSUME NEW v
          PROVE  TwoBits(lq, cq, v) + BitsOf(dropped_queue, v) + BitsOf(harq.pkts, v)
                   = TwoBits(lq', cq', v) + BitsOf(dropped_queue', v) + BitsOf(harq'.pkts, v)
                       + (IF v = e.uid THEN e.size ELSE 0)
          BY <1>0, <2>2, <2>3, <2>4, <3>1, <3>2, SMTT(30)
    <3>. QED  BY <3>3 DEF Inside
  <2>6. MarksTrue(lq, cq) => MarksTrue(lq', cq')
        BY <2>2 DEF MarksTrue
  <2>7. ~Push
        BY <1>1 DEF Expire, Push
  <2>. QED  BY <1>0, <2>2, <2>3, <2>4, <2>5, <2>6, <2>7
<1>2. CASE Drain
  <2>1. PICK e \in QueueEntry : e = Head(dropped_queue)
        BY <1>0, <1>2, HeadLeaves DEF Drain
  <2>2. /\ sent' = [sent EXCEPT ![e.uid] = sent[e.uid] + e.size]
        /\ out_pkts' = WithoutData(e.uid, e.size) /\ lost' = lost \cup {e.uid}
        /\ dropped_queue # <<>> /\ dropped_queue' = Tail(dropped_queue)
        /\ harq' = harq /\ lq' = lq /\ cq' = cq
        BY <1>2, <2>1 DEF Drain, grant
  <2>3. e.uid \in Pkts /\ e.size \in Nat \ {0}
        BY EntryIs
  <2>4. /\ dropped_queue' \in Seq(QueueEntry)
        /\ \A v : BitsOf(dropped_queue, v) = PartOf(e, v) + BitsOf(dropped_queue', v)
        BY <1>0, <2>1, <2>2, HeadLeaves
  <2>5. \A v : Inside(v) = Inside(v)' + (IF v = e.uid THEN e.size ELSE 0)
    <3>1. \A v : PartOf(e, v) = (IF v = e.uid THEN e.size ELSE 0)
          BY DEF PartOf
    <3>2. \A v : BitsOf(dropped_queue', v) \in Nat
          BY <2>4, QueueIs
    <3>3. ASSUME NEW v
          PROVE  TwoBits(lq, cq, v) + BitsOf(dropped_queue, v) + BitsOf(harq.pkts, v)
                   = TwoBits(lq', cq', v) + BitsOf(dropped_queue', v) + BitsOf(harq'.pkts, v)
                       + (IF v = e.uid THEN e.size ELSE 0)
          BY <1>0, <2>2, <2>3, <2>4, <3>1, <3>2, SMTT(30)
    <3>. QED  BY <3>3 DEF Inside
  <2>6. MarksTrue(lq, cq) => MarksTrue(lq', cq')
        BY <2>2 DEF MarksTrue
  <2>7. ~Push
        BY <1>2 DEF Drain, Push
  <2>. QED  BY <1>0, <2>2, <2>3, <2>4, <2>5, <2>6, <2>7
<1>3. CASE Discard \/ Push
  <2>1. /\ harq.pkts # <<>> /\ lq' = lq /\ cq' = cq /\ dropped_queue' = dropped_queue
        /\ Transfer(Head(harq.pkts))
        BY <1>3 DEF Discard, Push, Transfer, queues
  <2>2. /\ 1 \in DOMAIN harq.pkts /\ Head(harq.pkts) = harq.pkts[1]
        /\ Tail(harq.pkts) \in Seq(BlockEntry)
        /\ \A i \in DOMAIN Tail(harq.pkts) :
             i + 1 \in DOMAIN harq.pkts /\ Tail(harq.pkts)[i] = harq.pkts[i + 1]
        BY <1>0, <2>1, HeadTail
  <2>3. PICK b \in BlockEntry : b = harq.pkts[1]
        BY <1>0, <2>2, BlockIs
  <2>4. b.uid \in Pkts /\ b.size \in Nat \ {0} /\ b.ce \in BOOLEAN
        BY DEF BlockEntry
  <2>5. /\ sent' = [sent EXCEPT ![b.uid] = sent[b.uid] + b.size]
        /\ harq'.pkts = Tail(harq.pkts)
        BY <2>1, <2>2, <2>3 DEF Transfer, TypeOK
  <2>6. \/ Push /\ out_pkts' = WithData(b.uid, b.size, harq.wait, b.ce) /\ lost' = lost
        \/ out_pkts' = WithoutData(b.uid, b.size) /\ lost' = lost \cup {b.uid}
        BY <1>3, <2>2, <2>3 DEF Discard, Push
  <2>7. /\ \A v : BitsOf(harq.pkts, v) = PartOf(b, v) + BitsOf(harq'.pkts, v)
        /\ \A v : BitsOf(harq'.pkts, v) \in Nat
    <3>1. \A i \in DOMAIN harq.pkts : harq.pkts[i].size \in Nat
          BY <1>0, BlockIs
    <3>. QED  BY <1>0, <2>1, <2>2, <2>3, <2>5, <3>1, BitsOfTail, BlockIs
  <2>8. \A v : Inside(v) = Inside(v)' + (IF v = b.uid THEN b.size ELSE 0)
    <3>1. \A v : PartOf(b, v) = (IF v = b.uid THEN b.size ELSE 0)
          BY DEF PartOf
    <3>2. ASSUME NEW v
          PROVE  TwoBits(lq, cq, v) + BitsOf(dropped_queue, v) + BitsOf(harq.pkts, v)
                   = TwoBits(lq', cq', v) + BitsOf(dropped_queue', v) + BitsOf(harq'.pkts, v)
                       + (IF v = b.uid THEN b.size ELSE 0)
          BY <1>0, <2>1, <2>4, <2>7, <3>1
    <3>. QED  BY <3>2 DEF Inside
  <2>9. MarksTrue(lq, cq) => MarksTrue(lq', cq')
        BY <2>1 DEF MarksTrue
  <2>10. \A i \in DOMAIN harq'.pkts : \E j \in DOMAIN harq.pkts : harq'.pkts[i] = harq.pkts[j]
        BY <2>2, <2>5
  <2>. QED  BY <1>0, <2>1, <2>2, <2>3, <2>4, <2>5, <2>6, <2>8, <2>9, <2>10
<1>. QED  BY <1>1, <1>2, <1>3
-----------------------------------------------------------------------------
(* QueueInv: Counted says that what is subtracted from current_size was in  *)
(* it, and LoopsEnd tells what a loop finds in the block.                   *)

LEMMA InitQueues == Init => QueueInv
<1>. SUFFICES ASSUME Init PROVE QueueInv
     OBVIOUS
<1>0. current_size \in Floats /\ rounded \in BOOLEAN /\ 0 <= Exact
  <2>1. current_size = 0 /\ rounded = FALSE
        BY DEF Init
  <2>2. 0 <= Exact /\ 0 \in 0..Exact
        BY FloatsAssumption
  <2>3. 0 \in Floats
        BY <2>2, FloatsAssumption
  <2>. QED  BY <2>1, <2>2, <2>3
<1>1. TypeOK
      BY <1>0, NumPktsAssumption, AqmAssumption
         DEF Init, TypeOK, ReleaseInit, ReleaseTypeOK, NoHarq, PcAt, Pkts
<1>2. Counted
      BY <1>0, SumSizesNothing DEF Init, Counted, TwoSums
<1>3. LoopsEnd
      BY DEF Init, LoopsEnd, NoHarq
<1>. QED  BY <1>1, <1>2, <1>3 DEF QueueInv

(* Every packet of a queue gets older and stays what it is otherwise.       *)
LEMMA OlderIs ==
    ASSUME NEW s \in Seq(QueueEntry)
    PROVE  /\ Older(s) \in Seq(QueueEntry) /\ DOMAIN Older(s) = DOMAIN s
           /\ \A i \in DOMAIN s : /\ Older(s)[i].uid = s[i].uid /\ Older(s)[i].size = s[i].size
                                  /\ Older(s)[i].ecn = s[i].ecn /\ Older(s)[i].ce = s[i].ce
<1>. DEFINE n(i) == IF s[i].age > Budget THEN s[i].age ELSE s[i].age + 1
<1>1. \A i \in DOMAIN s : s[i] \in QueueEntry /\ n(i) \in Nat
      BY EntryIs
<1>2. Older(s) = [i \in DOMAIN s |-> [s[i] EXCEPT !.age = n(i)]]
      BY Zenon DEF Older
<1>. HIDE DEF n
<1>3. \A i \in DOMAIN s : /\ [s[i] EXCEPT !.age = n(i)] \in QueueEntry
                          /\ [s[i] EXCEPT !.age = n(i)].uid = s[i].uid
                          /\ [s[i] EXCEPT !.age = n(i)].size = s[i].size
                          /\ [s[i] EXCEPT !.age = n(i)].ecn = s[i].ecn
                          /\ [s[i] EXCEPT !.age = n(i)].ce = s[i].ce
      BY <1>1 DEF QueueEntry
<1>4. Older(s) \in [1..Len(s) -> QueueEntry] /\ Len(s) \in Nat /\ DOMAIN s = 1..Len(s)
  <2>1. Len(s) \in Nat /\ DOMAIN s = 1..Len(s)
        OBVIOUS
  <2>2. \A i \in 1..Len(s) : [s[i] EXCEPT !.age = n(i)] \in QueueEntry
        BY <1>3, <2>1
  <2>3. Older(s) = [i \in 1..Len(s) |-> [s[i] EXCEPT !.age = n(i)]]
        BY <1>2, <2>1
  <2>. QED  BY <2>1, <2>2, <2>3
<1>5. Older(s) \in Seq(QueueEntry)
      BY <1>4, FunctionSeq
<1>6. \A i \in DOMAIN s : Older(s)[i] = [s[i] EXCEPT !.age = n(i)]
      BY <1>2
<1>. QED  BY <1>3, <1>4, <1>5, <1>6

LEMMA DelayIsNat ==
    ASSUME NEW s \in Seq(QueueEntry)
    PROVE  Delay(s) \in Nat
BY HeadLeaves, EntryIs DEF Delay

LEMMA OldestIs ==
    ASSUME TypeOK, HasPkts
    PROVE  Oldest \in QueueEntry /\ Oldest.age \in Nat
<1>1. Oldest \in QueueEntry
      BY Types, HeadLeaves DEF HasPkts, Oldest, OldestIsL4s
<1>. QED  BY <1>1, EntryIs

LEMMA MaxOfTwo ==
    ASSUME NEW a \in Nat, NEW b \in Nat
    PROVE  Max({a, b}) \in Nat
<1>1. PICK m \in {a, b} : \A x \in {a, b} : x <= m
      OBVIOUS
<1>2. Max({a, b}) = CHOOSE x \in {a, b} : \A y \in {a, b} : x >= y
      BY DEF Max
<1>3. \E x \in {a, b} : \A y \in {a, b} : x >= y
      BY <1>1
<1>4. Max({a, b}) \in {a, b}
      BY <1>2, <1>3
<1>. QED  BY <1>4

LEMMA MinOfTwo ==
    ASSUME NEW a \in Nat, NEW b \in Nat
    PROVE  Min({a, b}) \in Nat /\ Min({a, b}) <= b
<1>1. PICK m \in {a, b} : \A x \in {a, b} : m <= x
      OBVIOUS
<1>2. Min({a, b}) = CHOOSE x \in {a, b} : \A y \in {a, b} : x <= y
      BY DEF Min
<1>3. \E x \in {a, b} : \A y \in {a, b} : x <= y
      BY <1>1
<1>4. Min({a, b}) \in {a, b} /\ \A y \in {a, b} : Min({a, b}) <= y
      BY <1>2, <1>3
<1>. QED  BY <1>4

(* A step of time.                                                          *)
LEMMA StepQueues ==
    ASSUME QueueInv, Step
    PROVE  QueueInv'
<1>1. /\ lq \in Seq(QueueEntry) /\ cq \in Seq(QueueEntry) /\ out_pkts \in Seq(OutEntry)
      /\ TypeOK /\ Counted /\ LoopsEnd
      BY Types DEF QueueInv
<1>2. /\ lq' = Older(lq) /\ cq' = Older(cq) /\ out_pkts' = Later
      /\ pc = "mac" /\ pc' = "admit"
      /\ UNCHANGED <<admitted, dropped_queue, current_size, rounded, granted, bits, harq,
                     prev_released_id, verdict, ecn_in, sent, lost, marked>>
      BY DEF Step, grant, history
<1>3. /\ lq' \in Seq(QueueEntry) /\ cq' \in Seq(QueueEntry) /\ out_pkts' \in Seq(OutEntry)
      /\ SumSizes(lq') = SumSizes(lq) /\ SumSizes(cq') = SumSizes(cq)
      BY <1>1, <1>2, OlderIs, SumSizesSame, LaterType
<1>4. classic_idle' \in 0..Guard
  <2>1. classic_idle + 1 \in Nat /\ Guard \in Nat
        BY <1>1, AqmAssumption DEF TypeOK
  <2>2. classic_idle' = Min({classic_idle + 1, Guard})
        BY DEF Step
  <2>3. \A a, b \in Nat : Min({a, b}) \in Nat /\ Min({a, b}) <= b
        BY MinOfTwo
  <2>4. Min({classic_idle + 1, Guard}) \in Nat /\ Min({classic_idle + 1, Guard}) <= Guard
        BY <2>1, <2>3
  <2>. QED  BY <2>1, <2>2, <2>4
<1>5. prev_q' \in Nat /\ p_base' \in {"zero", "some", "one"}
  <2>1. Delay(lq') \in Nat /\ Delay(cq') \in Nat
        BY <1>3, DelayIsNat
  <2>2. Max({Delay(lq'), Delay(cq')}) \in Nat
        BY <2>1, MaxOfTwo
  <2>3. UpdatePi(Max({Delay(lq'), Delay(cq')}))
        BY DEF Step
  <2>. QED  BY <1>1, <2>2, <2>3 DEF UpdatePi, aqm, TypeOK
<1>6. TypeOK'
      BY <1>1, <1>2, <1>3, <1>4, <1>5 DEF TypeOK, ReleaseTypeOK, PcAt
<1>7. Counted'
      BY <1>1, <1>2, <1>3 DEF Counted, TwoSums
<1>8. LoopsEnd'
      BY <1>1, <1>2 DEF LoopsEnd
<1>. QED  BY <1>6, <1>7, <1>8 DEF QueueInv

(* Actions that leave the queues and their count alone.                     *)
LEMMA StillQueues ==
    ASSUME QueueInv,
           \/ AdmitDone \/ ExpireDone \/ ReleaseDrop \/ ReleaseAccept \/ ReleaseDone
           \/ DrainDone \/ DiscardDone \/ HandleDone \/ PushDone \/ NextBlock
           \/ \E g \in Grants, d \in Delays : Handle(g, d)
           \/ UNCHANGED vars
    PROVE  QueueInv'
<1>1. TypeOK /\ Counted /\ LoopsEnd
      BY DEF QueueInv
<1>2. /\ UNCHANGED <<admitted, lq, cq, dropped_queue, classic_idle, current_size, rounded,
                     p_base, prev_q, ecn_in, sent, lost, marked>>
      /\ pc' \in PcAt
      BY <1>1 DEF AdmitDone, ExpireDone, ReleaseDrop, ReleaseAccept, ReleaseDone, DrainDone,
                  DiscardDone, HandleDone, PushDone, NextBlock, Handle, BeginBlock, vars,
                  queues, aqm, history, TypeOK, PcAt
<1>3. /\ harq' = harq
         \/ \E n, d \in Nat : harq' = [bits |-> 0, pkts |-> <<>>, age |-> n, wait |-> d]
      /\ granted' \in Nat /\ bits' \in Nat
  <2>1. CASE \/ AdmitDone \/ ExpireDone \/ ReleaseDrop \/ ReleaseAccept \/ ReleaseDone
             \/ DrainDone \/ DiscardDone \/ UNCHANGED vars
        BY <1>1, <2>1 DEF AdmitDone, ExpireDone, ReleaseDrop, ReleaseAccept, ReleaseDone,
                          DrainDone, DiscardDone, vars, grant, TypeOK
  <2>2. CASE HandleDone \/ PushDone
        BY <2>2 DEF HandleDone, PushDone, NoHarq
  <2>3. CASE NextBlock
        BY <1>1, <2>3, OldestIs, DualDelaysAssumption DEF NextBlock, BeginBlock, NoHarq, TypeOK
  <2>4. ASSUME NEW g \in Grants, NEW delay \in Delays, Handle(g, delay)
        PROVE  /\ \E n, d \in Nat : harq' = [bits |-> 0, pkts |-> <<>>, age |-> n, wait |-> d]
               /\ granted' \in Nat /\ bits' \in Nat
    <3>1. g \in Nat /\ delay \in Nat
          BY DualGrantsAssumption, DualDelaysAssumption
    <3>. QED  BY <1>1, <2>4, <3>1, OldestIs DEF Handle, BeginBlock, NoHarq
  <2>. QED  BY <2>1, <2>2, <2>3, <2>4
<1>4. harq' \in [bits : Nat, pkts : Seq(BlockEntry), age : Nat, wait : Nat]
  <2>1. CASE harq' = harq
        BY <1>1, <2>1 DEF TypeOK
  <2>2. ASSUME NEW n \in Nat, NEW w \in Nat,
             harq' = [bits |-> 0, pkts |-> <<>>, age |-> n, wait |-> w]
        PROVE  harq' \in [bits : Nat, pkts : Seq(BlockEntry), age : Nat, wait : Nat]
    <3>1. <<>> \in Seq(BlockEntry) /\ 0 \in Nat
          OBVIOUS
    <3>. QED  BY <2>2, <3>1
  <2>. QED  BY <1>3, <2>1, <2>2
<1>5. ReleaseTypeOK'
  <2>1. CASE ReleaseDrop \/ ReleaseAccept
        BY <1>1, <2>1, ReleaseType DEF ReleaseDrop, ReleaseAccept, TypeOK
  <2>2. CASE PushDone
    <3>1. out_pkts' \in Seq(OutEntry)
          BY <1>1, <2>2, SortingIs DEF PushDone, TypeOK, ReleaseTypeOK
    <3>. QED  BY <1>1, <2>2, <3>1 DEF PushDone, TypeOK, ReleaseTypeOK
  <2>3. CASE UNCHANGED release
        BY <1>1, <2>3 DEF release, TypeOK, ReleaseTypeOK
  <2>. QED  BY <2>1, <2>2, <2>3
            DEF AdmitDone, ExpireDone, ReleaseDone, DrainDone, DiscardDone, HandleDone,
                NextBlock, Handle, vars, release
<1>6. TypeOK'
      BY <1>1, <1>2, <1>3, <1>4, <1>5 DEF TypeOK
<1>7. Counted'
  <2>1. \/ pc # "get" /\ (pc' # "get" \/ harq'.bits = 0)
        \/ pc' = pc /\ harq' = harq
        BY DEF AdmitDone, ExpireDone, ReleaseDrop, ReleaseAccept, ReleaseDone, DrainDone,
               DiscardDone, HandleDone, PushDone, NextBlock, Handle, BeginBlock, NoHarq, vars, grant
  <2>. QED  BY <1>1, <1>2, <2>1 DEF Counted
<1>8. LoopsEnd'
  <2>1. CASE harq' = harq /\ ~NextBlock /\ ~HandleDone /\ ~PushDone
    <3>1. \/ pc' = pc
          \/ pc \notin {"get", "drain", "discard", "push"} /\ pc' # "get"
          \/ DrainDone
          \/ DiscardDone
          \/ harq'.pkts = <<>> /\ pc \notin {"get", "drain"}
      <4>1. ASSUME NEW g \in Grants, NEW delay \in Delays, Handle(g, delay)
            PROVE  harq'.pkts = <<>> /\ pc \notin {"get", "drain"}
            BY <4>1 DEF Handle, BeginBlock, NoHarq
      <4>. QED  BY <2>1, <4>1 DEF AdmitDone, ExpireDone, ReleaseDrop, ReleaseAccept,
                                  ReleaseDone, vars
    <3>2. CASE DrainDone
          BY <1>1, <1>2, <2>1, <3>2 DEF DrainDone, LoopsEnd, queues
    <3>3. CASE DiscardDone
          BY <1>1, <1>2, <2>1, <3>3 DEF DiscardDone, LoopsEnd
    <3>. QED  BY <1>1, <1>2, <2>1, <3>1, <3>2, <3>3 DEF LoopsEnd
  <2>2. CASE NextBlock \/ HandleDone \/ PushDone \/ \E n, d \in Nat : harq' = [bits |-> 0, pkts |-> <<>>, age |-> n, wait |-> d]
    <3>1. harq'.pkts = <<>>
      <4>1. NextBlock => harq'.pkts = <<>>
            BY DEF NextBlock, BeginBlock, NoHarq
      <4>2. HandleDone \/ PushDone => harq'.pkts = <<>>
            BY DEF HandleDone, PushDone, NoHarq
      <4>. QED  BY <2>2, <4>1, <4>2
    <3>2. \/ pc' = pc
          \/ pc \notin {"get", "drain"}
          \/ DrainDone
          BY DEF AdmitDone, ExpireDone, ReleaseDrop, ReleaseAccept, ReleaseDone, DiscardDone,
                 HandleDone, PushDone, NextBlock, Handle, vars
    <3>3. pc' \notin {"get", "drain"} => dropped_queue = <<>>
          BY <1>1, <3>2 DEF LoopsEnd, DrainDone
    <3>. QED  BY <1>2, <3>1, <3>3 DEF LoopsEnd
  <2>. QED  BY <1>3, <2>1, <2>2
<1>. QED  BY <1>6, <1>7, <1>8 DEF QueueInv

LEMMA AdmitQueues ==
    ASSUME QueueInv, Admit
    PROVE  QueueInv'
<1>1. TypeOK /\ Counted /\ LoopsEnd
      BY DEF QueueInv
<1>2. PICK e \in QueueEntry :
        /\ e.uid = admitted + 1 /\ e.uid \in Pkts /\ admitted' = e.uid
        /\ current_size' \in Nearest(current_size + e.size)
        /\ rounded' \in BOOLEAN
        /\ ~rounded' => ~rounded /\ ~(current_size + e.size > Exact)
        /\ Joined(e, lq, cq, lq', cq')
      BY <1>1, AdmitIs
<1>3. /\ UNCHANGED <<pc, dropped_queue, classic_idle, p_base, prev_q, granted, bits, harq,
                     out_pkts, prev_released_id, verdict, ecn_in, sent, lost, marked>>
      /\ pc = "admit"
      BY DEF Admit, aqm, grant, release, history
<1>4. /\ TwoQueues(lq', cq') /\ TwoSums(lq', cq') = TwoSums(lq, cq) + e.size
      BY <1>1, <1>2, JoinedIs, Types
<1>5. e.size \in Nat /\ TwoSums(lq, cq) \in Nat /\ SumSizes(dropped_queue) \in Nat
      BY <1>1, EntryIs, TwoAreNat, QueueIs, Types
<1>6a. /\ current_size \in Floats /\ current_size \in Nat /\ current_size' \in Floats
       /\ current_size + e.size <= Exact => current_size' = current_size + e.size
  <2>1. current_size \in Floats /\ current_size \in Nat
        BY <1>1, FloatsAssumption DEF TypeOK
  <2>. QED  BY <1>2, <1>5, <2>1, SizeGrows
<1>6. TypeOK'
  <2>2. current_size' \in Floats /\ rounded' \in BOOLEAN
        BY <1>2, <1>6a
  <2>3. admitted' \in 0..NumPkts
        BY <1>2, NumPktsAssumption DEF Pkts
  <2>. QED  BY <1>1, <1>3, <1>4, <2>2, <2>3 DEF TypeOK, ReleaseTypeOK, TwoQueues
<1>7. Counted'
  <2>. SUFFICES ASSUME ~rounded'
                PROVE  /\ current_size' <= Exact
                       /\ current_size' = TwoSums(lq', cq') + SumSizes(dropped_queue')
                                           + (IF pc' = "get" THEN harq'.bits ELSE 0)
       BY DEF Counted
  <2>1. ~rounded /\ current_size + e.size <= Exact
        BY <1>2, <1>5, <1>6a, FloatsAssumption
  <2>2. current_size' = current_size + e.size
        BY <1>6a, <2>1
  <2>3. current_size = TwoSums(lq, cq) + SumSizes(dropped_queue)
        BY <1>1, <1>3, <1>5, <2>1 DEF Counted
  <2>. QED  BY <1>3, <1>4, <1>5, <2>1, <2>2, <2>3
<1>8. LoopsEnd'
      BY <1>1, <1>3 DEF LoopsEnd
<1>. QED  BY <1>6, <1>7, <1>8 DEF QueueInv

LEMMA TakeQueues ==
    ASSUME QueueInv, TakeWhole \/ TakeFragment
    PROVE  QueueInv'
<1>1. TypeOK /\ Counted /\ LoopsEnd
      BY DEF QueueInv
<1>2. PICK b \in BlockEntry :
        /\ harq' = [harq EXCEPT !.bits = harq.bits + b.size, !.pkts = Append(harq.pkts, b)]
        /\ bits' \in Nat
        /\ TwoQueues(lq', cq')
        /\ TwoSums(lq, cq) = TwoSums(lq', cq') + b.size
      BY <1>1, TakeIs
<1>3. /\ UNCHANGED <<admitted, pc, dropped_queue, current_size, rounded, p_base, prev_q, granted,
                     out_pkts, prev_released_id, verdict, ecn_in, sent, lost, marked>>
      /\ pc = "get" /\ classic_idle' \in {classic_idle, 0}
      BY DEF TakeWhole, TakeFragment, Popping, IdlePopped, aqm, release, history
<1>4. /\ b.size \in Nat \ {0} /\ harq.bits \in Nat
      /\ Append(harq.pkts, b) \in Seq(BlockEntry)
      BY <1>1, Types, Appended DEF BlockEntry
<1>5. harq.bits + b.size \in Nat \ {0}
      BY <1>4
<1>6. /\ harq' \in [bits : Nat, pkts : Seq(BlockEntry), age : Nat, wait : Nat]
      /\ harq'.bits = harq.bits + b.size
      BY <1>1, <1>2, <1>4, <1>5 DEF TypeOK
<1>7. TypeOK'
  <2>1. classic_idle' \in 0..Guard /\ lq' \in Seq(QueueEntry) /\ cq' \in Seq(QueueEntry)
        BY <1>1, <1>2, <1>3, AqmAssumption, SMTT(30) DEF TypeOK, TwoQueues
  <2>2. bits' \in Nat
        BY <1>2
  <2>. QED  BY <1>1, <1>3, <1>6, <2>1, <2>2 DEF TypeOK, ReleaseTypeOK
<1>8. Counted'
  <2>1. TwoSums(lq', cq') \in Nat /\ SumSizes(dropped_queue) \in Nat
        BY <1>1, <1>2, TwoAreNat, QueueIs, Types
  <2>. QED  BY <1>1, <1>2, <1>3, <1>4, <1>6, <2>1 DEF Counted
<1>9. LoopsEnd'
      BY <1>1, <1>3, <1>5, <1>6 DEF LoopsEnd
<1>. QED  BY <1>7, <1>8, <1>9 DEF QueueInv

LEMMA AqmDropQueues ==
    ASSUME QueueInv, AqmDrop
    PROVE  QueueInv'
<1>1. TypeOK /\ Counted /\ LoopsEnd
      BY DEF QueueInv
<1>2. /\ UNCHANGED <<admitted, pc, current_size, rounded, p_base, prev_q, granted, bits, harq,
                     out_pkts, prev_released_id, verdict, ecn_in, sent, lost, marked>>
      /\ pc = "get" /\ HasPkts /\ classic_idle' \in {classic_idle, 0}
      /\ lq' = LqPopped /\ cq' = CqPopped
      /\ dropped_queue' = Append(dropped_queue, Chosen)
      BY DEF AqmDrop, Popping, IdlePopped, aqm, grant, release, history
<1>3. Left(Chosen, lq, cq, lq', cq')
      BY <1>2, PopLeaves
<1>4. /\ Chosen \in QueueEntry /\ TwoQueues(lq', cq')
      /\ TwoSums(lq, cq) = TwoSums(lq', cq') + Chosen.size
      BY <1>1, <1>3, LeftIs, Types
<1>5. /\ dropped_queue' \in Seq(QueueEntry)
      /\ SumSizes(dropped_queue') = SumSizes(dropped_queue) + Chosen.size
      BY <1>1, <1>2, <1>4, TailJoins, Types
<1>6. TypeOK'
      BY <1>1, <1>2, <1>4, <1>5, AqmAssumption DEF TypeOK, ReleaseTypeOK, TwoQueues
<1>7. Counted'
  <2>1. /\ TwoSums(lq', cq') \in Nat /\ SumSizes(dropped_queue) \in Nat /\ Chosen.size \in Nat
        /\ harq.bits \in Nat
        BY <1>1, <1>4, TwoAreNat, QueueIs, EntryIs, Types
  <2>. QED  BY <1>1, <1>2, <1>4, <1>5, <2>1 DEF Counted
<1>8. LoopsEnd'
      BY <1>1, <1>2 DEF LoopsEnd
<1>. QED  BY <1>6, <1>7, <1>8 DEF QueueInv

LEMMA ExpireQueues ==
    ASSUME QueueInv, Expire
    PROVE  QueueInv'
<1>1. TypeOK /\ Counted /\ LoopsEnd
      BY DEF QueueInv
<1>2. /\ UNCHANGED <<admitted, pc, dropped_queue, classic_idle, rounded, p_base, prev_q, granted,
                     bits, harq, prev_released_id, verdict, ecn_in, marked>>
      /\ pc = "expire"
      /\ current_size' \in Nearest(NotNegative(current_size - Oldest.size))
      /\ out_pkts' = WithoutData(Oldest.uid, Oldest.size)
      /\ sent' = [sent EXCEPT ![Oldest.uid] = sent[Oldest.uid] + Oldest.size]
      /\ lost' = lost \cup {Oldest.uid}
      BY DEF Expire, aqm, grant
<1>3. /\ Oldest \in QueueEntry /\ TwoQueues(lq', cq')
      /\ TwoSums(lq, cq) = TwoSums(lq', cq') + Oldest.size
      BY <1>1, OldestLeaves, LeftIs, Types
<1>4. Oldest.uid \in Pkts /\ Oldest.size \in Nat
      BY <1>3, EntryIs
<1>5. TwoSums(lq', cq') \in Nat /\ SumSizes(dropped_queue) \in Nat
      BY <1>1, <1>3, TwoAreNat, QueueIs, Types
<1>6a. /\ current_size' \in Floats
       /\ Oldest.size <= current_size /\ current_size <= Exact =>
             current_size' = current_size - Oldest.size /\ current_size' <= Exact
      BY <1>1, <1>2, <1>4, SizeShrinks DEF TypeOK
<1>6. TypeOK'
  <2>1. current_size' \in Floats
        BY <1>6a
  <2>2. out_pkts' \in Seq(OutEntry)
        BY <1>1, <1>2, <1>4, WithoutDataType, Types
  <2>3. sent' \in [Pkts -> Nat]
        BY <1>1, <1>2, <1>4, SMTT(30) DEF TypeOK
  <2>. QED  BY <1>1, <1>2, <1>3, <1>4, <2>1, <2>2, <2>3, SMTT(30) DEF TypeOK, ReleaseTypeOK, TwoQueues
<1>7. Counted'
      BY <1>1, <1>2, <1>3, <1>4, <1>5, <1>6a DEF Counted
<1>8. LoopsEnd'
      BY <1>1, <1>2 DEF LoopsEnd
<1>. QED  BY <1>6, <1>7, <1>8 DEF QueueInv

LEMMA DrainQueues ==
    ASSUME QueueInv, Drain
    PROVE  QueueInv'
<1>1. TypeOK /\ Counted /\ LoopsEnd
      BY DEF QueueInv
<1>2. PICK e \in QueueEntry : e = Head(dropped_queue)
      BY <1>1, HeadLeaves, Types DEF Drain
<1>3. /\ UNCHANGED <<admitted, pc, lq, cq, classic_idle, rounded, p_base, prev_q, granted, bits, harq,
                     prev_released_id, verdict, ecn_in, marked>>
      /\ pc = "drain" /\ dropped_queue # <<>> /\ dropped_queue' = Tail(dropped_queue)
      /\ current_size' \in Nearest(NotNegative(current_size - e.size))
      /\ out_pkts' = WithoutData(e.uid, e.size)
      /\ sent' = [sent EXCEPT ![e.uid] = sent[e.uid] + e.size]
      /\ lost' = lost \cup {e.uid}
      BY <1>2 DEF Drain, aqm, grant
<1>4. /\ dropped_queue' \in Seq(QueueEntry)
      /\ SumSizes(dropped_queue) = e.size + SumSizes(dropped_queue')
      BY <1>1, <1>2, <1>3, HeadLeaves, Types
<1>5. /\ e.uid \in Pkts /\ e.size \in Nat
      /\ TwoSums(lq, cq) \in Nat /\ SumSizes(dropped_queue') \in Nat
      BY <1>1, <1>4, EntryIs, TwoAreNat, QueueIs, Types
<1>6a. /\ current_size' \in Floats
       /\ e.size <= current_size /\ current_size <= Exact =>
             current_size' = current_size - e.size /\ current_size' <= Exact
      BY <1>1, <1>3, <1>5, SizeShrinks DEF TypeOK
<1>6. TypeOK'
  <2>1. current_size' \in Floats
        BY <1>6a
  <2>2. out_pkts' \in Seq(OutEntry)
        BY <1>1, <1>3, <1>5, WithoutDataType, Types
  <2>3. sent' \in [Pkts -> Nat]
    <3>0. e.size \in Nat
          BY <1>5
    <3>1. sent \in [Pkts -> Nat] /\ \A n \in Nat : n + e.size \in Nat
          BY <1>1, <3>0 DEF TypeOK
    <3>2. sent[e.uid] + e.size \in Nat
          BY <1>5, <3>1
    <3>. QED  BY <1>3, <3>1, <3>2
  <2>. QED  BY <1>1, <1>3, <1>4, <1>5, <2>1, <2>2, <2>3 DEF TypeOK, ReleaseTypeOK
<1>7. Counted'
      BY <1>1, <1>3, <1>4, <1>5, <1>6a DEF Counted
<1>8. LoopsEnd'
      BY <1>1, <1>3 DEF LoopsEnd
<1>. QED  BY <1>6, <1>7, <1>8 DEF QueueInv

LEMMA TransferQueues ==
    ASSUME QueueInv, Discard \/ Push
    PROVE  QueueInv'
<1>1. TypeOK /\ Counted /\ LoopsEnd
      BY DEF QueueInv
<1>2. PICK b \in BlockEntry :
        /\ b = Head(harq.pkts) /\ harq.pkts # <<>> /\ Tail(harq.pkts) \in Seq(BlockEntry)
      BY <1>1, HeadTail, Types DEF Discard, Push, Transfer
<1>3. b.uid \in Pkts /\ b.size \in Nat \ {0} /\ b.size \in Nat /\ b.ce \in BOOLEAN /\ 0 \in Nat
      BY DEF BlockEntry
<1>4. /\ UNCHANGED <<admitted, pc, lq, cq, dropped_queue, classic_idle, current_size, rounded, p_base,
                     prev_q, granted, bits, prev_released_id, verdict, ecn_in>>
      /\ pc \in {"discard", "push"}
      /\ harq' = [harq EXCEPT !.pkts = Tail(harq.pkts)]
      /\ sent' = [sent EXCEPT ![b.uid] = sent[b.uid] + b.size]
      /\ lost' \in {lost, lost \cup {b.uid}} /\ marked' \in {marked, marked \cup {b.uid}}
      BY <1>2 DEF Discard, Push, Transfer, queues, aqm
<1>5. out_pkts' \in Seq(OutEntry)
  <2>1. CASE Discard
        BY <1>1, <1>2, <1>3, <2>1, WithoutDataType, Types DEF Discard
  <2>2. CASE Push
        BY <1>1, <1>2, <1>3, <2>2, WithDataType, Types DEF Push
  <2>. QED  BY <2>1, <2>2
<1>6. /\ harq' \in [bits : Nat, pkts : Seq(BlockEntry), age : Nat, wait : Nat]
      /\ harq'.bits = harq.bits /\ harq'.pkts = Tail(harq.pkts)
      BY <1>1, <1>2, <1>4 DEF TypeOK
<1>7. sent' \in [Pkts -> Nat]
      BY <1>1, <1>3, <1>4, SMTT(30) DEF TypeOK
<1>8. TypeOK'
      BY <1>1, <1>3, <1>4, <1>5, <1>6, <1>7 DEF TypeOK, ReleaseTypeOK
<1>9. Counted'
      BY <1>1, <1>4 DEF Counted
<1>10. LoopsEnd'
      BY <1>1, <1>2, <1>4, <1>6 DEF LoopsEnd
<1>. QED  BY <1>8, <1>9, <1>10 DEF QueueInv

LEMMA GetDoneQueues ==
    ASSUME QueueInv, GetDone
    PROVE  QueueInv'
<1>1. TypeOK /\ Counted /\ LoopsEnd
      BY DEF QueueInv
<1>2. /\ UNCHANGED <<admitted, lq, cq, dropped_queue, classic_idle, rounded, p_base, prev_q, granted,
                     bits, harq, out_pkts, prev_released_id, verdict, ecn_in, sent, lost, marked>>
      /\ pc = "get" /\ pc' = "drain" /\ current_size' \in Nearest(NotNegative(current_size - harq.bits))
      BY DEF GetDone, aqm, grant, release, history
<1>3. /\ TwoSums(lq, cq) \in Nat /\ SumSizes(dropped_queue) \in Nat /\ harq.bits \in Nat
      BY <1>1, TwoAreNat, QueueIs, Types
<1>4a. /\ current_size' \in Floats
       /\ harq.bits <= current_size /\ current_size <= Exact =>
             current_size' = current_size - harq.bits /\ current_size' <= Exact
      BY <1>1, <1>2, <1>3, SizeShrinks DEF TypeOK
<1>4. TypeOK'
  <2>1. current_size' \in Floats
        BY <1>4a
  <2>. QED  BY <1>1, <1>2, <2>1 DEF TypeOK, ReleaseTypeOK, PcAt
<1>5. Counted'
      BY <1>1, <1>2, <1>3, <1>4a DEF Counted
<1>6. LoopsEnd'
      BY <1>1, <1>2 DEF LoopsEnd
<1>. QED  BY <1>4, <1>5, <1>6 DEF QueueInv

LEMMA NextQueues == QueueInv /\ [Next]_vars => QueueInv'
<1>. SUFFICES ASSUME QueueInv, [Next]_vars PROVE QueueInv'
     OBVIOUS
<1>1. CASE Step
      BY <1>1, StepQueues
<1>2. CASE Admit
      BY <1>2, AdmitQueues
<1>3. CASE Expire
      BY <1>3, ExpireQueues
<1>4. CASE AqmDrop
      BY <1>4, AqmDropQueues
<1>5. CASE TakeWhole \/ TakeFragment
      BY <1>5, TakeQueues
<1>6. CASE GetDone
      BY <1>6, GetDoneQueues
<1>7. CASE Drain
      BY <1>7, DrainQueues
<1>8. CASE Discard \/ Push
      BY <1>8, TransferQueues
<1>9. CASE \/ AdmitDone \/ ExpireDone \/ ReleaseDrop \/ ReleaseAccept \/ ReleaseDone
           \/ DrainDone \/ DiscardDone \/ HandleDone \/ PushDone \/ NextBlock
           \/ \E g \in Grants, d \in Delays : Handle(g, d)
           \/ UNCHANGED vars
      BY <1>9, StillQueues
<1>. QED  BY <1>1, <1>2, <1>3, <1>4, <1>5, <1>6, <1>7, <1>8, <1>9, Zenon DEF Next, UeStep

(* Every queue, block and counter keeps its type, whatever is split, put    *)
(* back, marked, dropped or rounded: no queue ever holds an empty packet    *)
(* and current_size never is negative.                                      *)
THEOREM TypeCorrect == Safety => []TypeOK
<1>1. QueueInv => TypeOK
      BY DEF QueueInv
<1>. QED  BY <1>1, InitQueues, NextQueues, PTL DEF Safety
-----------------------------------------------------------------------------
(* The bits of a packet: Conserved says where those already captured are,   *)
(* Released what out_pkts makes of those that arrived there.                *)
DataInv == Conserved /\ Released

LEMMA InsideIsNat ==
    ASSUME TypeOK
    PROVE  \A v : /\ Inside(v) \in Nat /\ TwoBits(lq, cq, v) \in Nat
                  /\ BitsOf(dropped_queue, v) \in Nat /\ BitsOf(harq.pkts, v) \in Nat
<1>1. \A v : /\ TwoBits(lq, cq, v) \in Nat
             /\ BitsOf(dropped_queue, v) \in Nat /\ BitsOf(harq.pkts, v) \in Nat
      BY Types, TwoAreNat, QueueIs, BlockIs
<1>. QED  BY <1>1 DEF Inside

LEMMA InitData == Init => DataInv
<1>. SUFFICES ASSUME Init PROVE DataInv
     OBVIOUS
<1>1. \A v : Inside(v) = 0
      BY BitsOfNothing DEF Init, Inside, TwoBits, NoHarq
<1>2. Conserved
      BY <1>1, NumPktsAssumption DEF Init, Conserved, Arrived, Pkts
<1>3. Released
      BY BitsOfNothing DEF Init, ReleaseInit, Released, OneEach
<1>. QED  BY <1>2, <1>3 DEF DataInv

(* Moving bits between queues and block, and the passing of time, change    *)
(* what is inside for no packet.                                            *)
LEMMA TakeInside ==
    ASSUME TypeOK, TakeWhole \/ TakeFragment, NEW v
    PROVE  Inside(v)' = Inside(v)
<1>1. PICK b \in BlockEntry :
        /\ harq' = [harq EXCEPT !.bits = harq.bits + b.size, !.pkts = Append(harq.pkts, b)]
        /\ TwoQueues(lq', cq')
        /\ \A u : TwoBits(lq, cq, u) = TwoBits(lq', cq', u) + PartOf(b, u)
      BY TakeIs
<1>2. harq'.pkts = Append(harq.pkts, b)
      BY <1>1 DEF TypeOK
<1>3. b.size \in Nat /\ PartOf(b, v) \in Nat
      BY DEF BlockEntry, PartOf
<1>4. BitsOf(Append(harq.pkts, b), v) = BitsOf(harq.pkts, v) + PartOf(b, v)
  <2>1. harq.pkts \in Seq(BlockEntry) /\ \A i \in DOMAIN harq.pkts : harq.pkts[i].size \in Nat
        BY Types, BlockIs
  <2>. QED  BY <1>3, <2>1, BitsOfAppend
<1>5. dropped_queue' = dropped_queue
      BY DEF TakeWhole, TakeFragment
<1>6. /\ TwoBits(lq', cq', v) \in Nat /\ BitsOf(dropped_queue, v) \in Nat
      /\ BitsOf(harq.pkts, v) \in Nat
      BY <1>1, TwoAreNat, InsideIsNat
<1>7. TwoBits(lq, cq, v) + BitsOf(dropped_queue, v) + BitsOf(harq.pkts, v)
        = TwoBits(lq', cq', v) + BitsOf(dropped_queue', v) + BitsOf(harq'.pkts, v)
      BY <1>1, <1>2, <1>3, <1>4, <1>5, <1>6
<1>. QED  BY <1>7 DEF Inside

LEMMA AqmDropInside ==
    ASSUME TypeOK, AqmDrop, NEW v
    PROVE  Inside(v)' = Inside(v)
<1>1. /\ harq' = harq /\ HasPkts /\ lq' = LqPopped /\ cq' = CqPopped
      /\ dropped_queue' = Append(dropped_queue, Chosen)
      BY DEF AqmDrop, Popping, grant
<1>2. /\ Chosen \in QueueEntry /\ TwoQueues(lq', cq')
      /\ TwoBits(lq, cq, v) = TwoBits(lq', cq', v) + PartOf(Chosen, v)
      BY <1>1, PopLeaves, LeftIs, Types
<1>3. BitsOf(dropped_queue', v) = BitsOf(dropped_queue, v) + PartOf(Chosen, v)
      BY <1>1, <1>2, TailJoins, Types
<1>4. /\ PartOf(Chosen, v) \in Nat /\ TwoBits(lq', cq', v) \in Nat
      /\ BitsOf(dropped_queue, v) \in Nat /\ BitsOf(harq.pkts, v) \in Nat
      BY <1>2, TwoAreNat, InsideIsNat, EntryIs DEF PartOf
<1>5. TwoBits(lq, cq, v) + BitsOf(dropped_queue, v) + BitsOf(harq.pkts, v)
        = TwoBits(lq', cq', v) + BitsOf(dropped_queue', v) + BitsOf(harq'.pkts, v)
      BY <1>1, <1>2, <1>3, <1>4
<1>. QED  BY <1>5 DEF Inside

LEMMA StepInside ==
    ASSUME TypeOK, Step, NEW v
    PROVE  Inside(v)' = Inside(v) /\ BitsOf(out_pkts', v) = BitsOf(out_pkts, v)
<1>1. /\ lq' = Older(lq) /\ cq' = Older(cq) /\ out_pkts' = Later
      /\ dropped_queue' = dropped_queue /\ harq' = harq
      BY DEF Step, grant
<1>2. \A s \in Seq(QueueEntry) : BitsOf(Older(s), v) = BitsOf(s, v)
      BY OlderIs, BitsOfSame DEF PartOf
<1>3. BitsOf(out_pkts', v) = BitsOf(out_pkts, v)
  <2>1. /\ out_pkts \in Seq(OutEntry) /\ out_pkts' \in Seq(OutEntry)
        /\ DOMAIN out_pkts' = DOMAIN out_pkts
        /\ \A i \in DOMAIN out_pkts : PartOf(out_pkts'[i], v) = PartOf(out_pkts[i], v)
        BY <1>1, LaterType, Types DEF PartOf
  <2>. QED  BY <2>1, BitsOfSame
<1>4. BitsOf(lq', v) = BitsOf(lq, v) /\ BitsOf(cq', v) = BitsOf(cq, v)
      BY <1>1, <1>2, Types
<1>. QED  BY <1>1, <1>3, <1>4 DEF Inside, TwoBits

(* A block is begun empty.                                                  *)
LEMMA NewBlock ==
    ASSUME \/ NextBlock
           \/ \E g \in Grants, d \in Delays : Handle(g, d)
    PROVE  harq'.pkts = <<>>
<1>1. NextBlock => harq'.pkts = <<>>
      BY DEF NextBlock, BeginBlock, NoHarq
<1>2. ASSUME NEW g \in Grants, NEW delay \in Delays, Handle(g, delay)
      PROVE  harq'.pkts = <<>>
      BY <1>2 DEF Handle, BeginBlock, NoHarq
<1>. QED  BY <1>1, <1>2

LEMMA QuietInside ==
    ASSUME LoopsEnd, NEW v,
           \/ AdmitDone \/ ExpireDone \/ ReleaseDone \/ DrainDone \/ DiscardDone \/ GetDone
           \/ HandleDone \/ PushDone \/ NextBlock
           \/ \E g \in Grants, d \in Delays : Handle(g, d)
           \/ UNCHANGED vars
    PROVE  Inside(v)' = Inside(v)
<1>1. lq' = lq /\ cq' = cq /\ dropped_queue' = dropped_queue
      BY DEF AdmitDone, ExpireDone, ReleaseDone, DrainDone, DiscardDone, GetDone,
             HandleDone, PushDone, NextBlock, Handle, vars, queues
<1>2. harq'.pkts = harq.pkts
  <2>1. CASE \/ AdmitDone \/ ExpireDone \/ ReleaseDone \/ DrainDone \/ DiscardDone \/ GetDone
             \/ UNCHANGED vars
        BY <2>1 DEF AdmitDone, ExpireDone, ReleaseDone, DrainDone, DiscardDone, GetDone,
                    vars, grant
  <2>2. CASE HandleDone \/ PushDone \/ NextBlock
    <3>1. harq.pkts = <<>>
          BY <2>2 DEF HandleDone, PushDone, NextBlock, LoopsEnd
    <3>2. harq'.pkts = <<>>
          BY <2>2, NewBlock DEF HandleDone, PushDone, NoHarq
    <3>. QED  BY <3>1, <3>2
  <2>3. ASSUME NEW g \in Grants, NEW delay \in Delays, Handle(g, delay)
        PROVE  harq'.pkts = harq.pkts
        BY <2>3 DEF Handle, BeginBlock, NoHarq, LoopsEnd
  <2>. QED  BY <2>1, <2>2, <2>3
<1>. QED  BY <1>1, <1>2 DEF Inside

LEMMA QuietData ==
    ASSUME QueueInv, DataInv,
           \/ Step \/ TakeWhole \/ TakeFragment \/ AqmDrop
           \/ AdmitDone \/ ExpireDone \/ ReleaseDone \/ DrainDone \/ DiscardDone \/ GetDone
           \/ HandleDone \/ PushDone \/ NextBlock
           \/ \E g \in Grants, d \in Delays : Handle(g, d)
           \/ UNCHANGED vars
    PROVE  DataInv'
<1>1. TypeOK /\ LoopsEnd /\ Conserved /\ Released /\ out_pkts \in Seq(OutEntry)
      BY Types DEF QueueInv, DataInv
<1>2. \A v : Inside(v)' = Inside(v)
      BY <1>1, StepInside, TakeInside, AqmDropInside, QuietInside
<1>3. UNCHANGED <<admitted, sent, verdict>>
      BY DEF Step, TakeWhole, TakeFragment, AqmDrop, AdmitDone, ExpireDone, ReleaseDone,
             DrainDone, DiscardDone, GetDone, HandleDone, PushDone, NextBlock, Handle,
             vars, release, history
<1>4. OneEach(out_pkts') /\ \A v : BitsOf(out_pkts', v) = BitsOf(out_pkts, v)
  <2>1. OneEach(out_pkts)
        BY <1>1 DEF Released
  <2>2. CASE Step
    <3>1. out_pkts' = Later
          BY <2>2 DEF Step
    <3>2. OneEach(out_pkts')
          BY <1>1, <2>1, <3>1, LaterType DEF OneEach
    <3>. QED  BY <1>1, <2>2, <3>2, StepInside
  <2>3. CASE PushDone
    <3>1. out_pkts' \in Sortings(out_pkts)
          BY <2>3 DEF PushDone
    <3>. QED  BY <1>1, <2>1, <3>1, SortedBits
  <2>4. CASE out_pkts' = out_pkts
        BY <2>1, <2>4
  <2>. QED  BY <2>2, <2>3, <2>4
            DEF TakeWhole, TakeFragment, AqmDrop, AdmitDone, ExpireDone, ReleaseDone,
                DrainDone, DiscardDone, GetDone, HandleDone, NextBlock, Handle, vars, release
<1>5. Conserved'
      BY <1>1, <1>2, <1>3 DEF Conserved, Arrived
<1>6. Released'
      BY <1>1, <1>3, <1>4 DEF Released
<1>. QED  BY <1>5, <1>6 DEF DataInv

LEMMA AdmitData ==
    ASSUME TypeOK, DataInv, Admit
    PROVE  DataInv'
<1>1. PICK e \in QueueEntry :
        /\ e.uid = admitted + 1 /\ e.uid \in Pkts /\ e.size = Size[e.uid]
        /\ admitted' = e.uid
        /\ Joined(e, lq, cq, lq', cq')
      BY AdmitIs
<1>2. UNCHANGED <<dropped_queue, harq, out_pkts, verdict, sent>>
      BY DEF Admit, grant, release, history
<1>3. \A v : Inside(v)' = Inside(v) + PartOf(e, v)
  <2>1. \A v : TwoBits(lq', cq', v) = TwoBits(lq, cq, v) + PartOf(e, v)
        BY <1>1, JoinedIs, Types
  <2>2. \A v : PartOf(e, v) \in Nat
        BY EntryIs DEF PartOf
  <2>3. ASSUME NEW v
        PROVE  Inside(v)' = Inside(v) + PartOf(e, v)
    <3>1. /\ TwoBits(lq, cq, v) \in Nat /\ BitsOf(dropped_queue, v) \in Nat
          /\ BitsOf(harq.pkts, v) \in Nat /\ PartOf(e, v) \in Nat
          BY <2>2, InsideIsNat
    <3>2. TwoBits(lq', cq', v) + BitsOf(dropped_queue', v) + BitsOf(harq'.pkts, v)
            = TwoBits(lq, cq, v) + BitsOf(dropped_queue, v) + BitsOf(harq.pkts, v) + PartOf(e, v)
          BY <1>2, <2>1, <3>1
    <3>. QED  BY <3>2 DEF Inside
  <2>. QED  BY <2>3
<1>4. ASSUME NEW v \in Pkts
      PROVE  sent'[v] + Inside(v)' = Arrived(v)'
  <2>1. sent[v] + Inside(v) = Arrived(v)
        BY DEF DataInv, Conserved
  <2>2. /\ Inside(v) \in Nat /\ sent[v] \in Nat /\ Size[v] \in Nat /\ v \in Nat
        /\ admitted \in Nat /\ Size[e.uid] \in Nat
    <3>1. Inside(v) \in Nat
          BY InsideIsNat
    <3>2. sent[v] \in Nat /\ Size[v] \in Nat /\ v \in Nat /\ Size[e.uid] \in Nat
          BY <1>1, Types
    <3>3. admitted \in Nat
          BY NumPktsAssumption DEF TypeOK
    <3>. QED  BY <3>1, <3>2, <3>3
  <2>3. Arrived(v)' = Arrived(v) + PartOf(e, v)
    <3>1. CASE v <= admitted
          BY <1>1, <2>2, <3>1 DEF Arrived, PartOf
    <3>2. CASE v = admitted + 1
          BY <1>1, <2>2, <3>2 DEF Arrived, PartOf
    <3>3. CASE v > admitted + 1
          BY <1>1, <2>2, <3>3 DEF Arrived, PartOf
    <3>. QED  BY <2>2, <3>1, <3>2, <3>3
  <2>4. PartOf(e, v) \in Nat
        BY EntryIs DEF PartOf
  <2>. QED  BY <1>2, <1>3, <2>1, <2>2, <2>3, <2>4
<1>5. Conserved'
      BY <1>4 DEF Conserved
<1>6. Released'
      BY <1>2 DEF DataInv, Released
<1>. QED  BY <1>5, <1>6 DEF DataInv

LEMMA SentData ==
    ASSUME QueueInv, DataInv, Expire \/ Drain \/ Discard \/ Push
    PROVE  DataInv'
<1>1. TypeOK /\ Conserved /\ Released /\ TypeOK'
  <2>1. QueueInv'
        BY ExpireQueues, DrainQueues, TransferQueues
  <2>. QED  BY <2>1 DEF QueueInv, DataInv
<1>2. PICK u \in Pkts, m \in Nat \ {0}, ce \in BOOLEAN :
        /\ sent' = [sent EXCEPT ![u] = sent[u] + m]
        /\ out_pkts' = WithData(u, m, harq.wait, ce) \/ out_pkts' = WithoutData(u, m)
        /\ TwoQueues(lq', cq') /\ dropped_queue' \in Seq(QueueEntry)
        /\ harq'.pkts \in Seq(BlockEntry)
        /\ \A v : Inside(v) = Inside(v)' + (IF v = u THEN m ELSE 0)
      BY <1>1, SentIs
<1>3. admitted' = admitted /\ verdict' = verdict
      BY DEF Expire, Drain, Discard, Push
<1>4. \A v : Inside(v) \in Nat /\ Inside(v)' \in Nat
  <2>1. \A v : Inside(v) \in Nat
        BY <1>1, InsideIsNat
  <2>2. \A v : Inside(v)' \in Nat
    <3>1. \A v : /\ TwoBits(lq', cq', v) \in Nat
                 /\ BitsOf(dropped_queue', v) \in Nat /\ BitsOf(harq'.pkts, v) \in Nat
          BY <1>2, TwoAreNat, QueueIs, BlockIs
    <3>. QED  BY <3>1 DEF Inside
  <2>. QED  BY <2>1, <2>2
<1>5. \A v \in Pkts : sent'[v] = sent[v] + (IF v = u THEN m ELSE 0)
  <2>1. sent \in [Pkts -> Nat]
        BY <1>1 DEF TypeOK
  <2>. QED  BY <1>2, <2>1
<1>6. verdict[u] = "none"
  <2>1. sent[u] + Inside(u) = Arrived(u)
        BY <1>1 DEF Conserved
  <2>2. /\ sent[u] \in Nat /\ Size[u] \in Nat \ {0} /\ Inside(u) = Inside(u)' + m
        /\ Arrived(u) = Size[u] \/ Arrived(u) = 0
        BY <1>1, <1>2, Types DEF Arrived
  <2>3. sent[u] # Size[u]
        BY <1>2, <1>4, <2>1, <2>2
  <2>. QED  BY <1>1, <2>3 DEF Released
<1>7. /\ OneEach(out_pkts')
      /\ \A v : BitsOf(out_pkts', v) = BitsOf(out_pkts, v) + (IF v = u THEN m ELSE 0)
  <2>1. out_pkts \in Seq(OutEntry) /\ out_pkts' \in Seq(OutEntry) /\ OneEach(out_pkts)
        /\ m \in Nat /\ harq.wait \in Nat
        BY <1>1, Types DEF TypeOK, ReleaseTypeOK, Released
  <2>2. Pushed(out_pkts', u, m) \/ Dropped(out_pkts', u, m)
        BY <1>2, <2>1, WithDataIs, WithoutDataIs
  <2>. QED  BY <2>1, <2>2, PushedBits
<1>8. Conserved'
  <2>1. ASSUME NEW v \in Pkts
        PROVE  sent'[v] + Inside(v)' = Arrived(v)'
    <3>1. sent[v] + Inside(v) = Arrived(v) /\ Arrived(v)' = Arrived(v)
          BY <1>1, <1>3 DEF Conserved, Arrived
    <3>2. sent[v] \in Nat
          BY <1>1, Types
    <3>. QED  BY <1>2, <1>4, <1>5, <3>1, <3>2
  <2>. QED  BY <2>1 DEF Conserved
<1>9. Released'
  <2>1. \A v : BitsOf(out_pkts, v) \in Nat
        BY <1>1, BitsOfNat, Types
  <2>2. \A v \in Pkts : verdict'[v] = "none" => BitsOf(out_pkts', v) = sent'[v]
        BY <1>1, <1>3, <1>5, <1>7 DEF Released
  <2>3. \A v \in Pkts : verdict'[v] # "none" => BitsOf(out_pkts', v) = 0 /\ sent'[v] = Size[v]
    <3>1. ASSUME NEW v \in Pkts, verdict'[v] # "none"
          PROVE  BitsOf(out_pkts', v) = 0 /\ sent'[v] = Size[v]
      <4>1. v # u /\ BitsOf(out_pkts, v) = 0 /\ sent[v] = Size[v]
            BY <1>1, <1>3, <1>6, <3>1 DEF Released
      <4>2. Size[v] \in Nat
            BY <1>1, Types
      <4>. QED  BY <1>5, <1>7, <4>1, <4>2
    <3>. QED  BY <3>1
  <2>. QED  BY <1>7, <2>2, <2>3 DEF Released
<1>. QED  BY <1>8, <1>9 DEF DataInv

LEMMA VerdictData ==
    ASSUME TypeOK, DataInv, ReleaseDrop \/ ReleaseAccept
    PROVE  DataInv'
<1>1. /\ Conserved /\ Released /\ ReleaseTypeOK /\ OneEach(out_pkts)
      /\ out_pkts \in Seq(OutEntry) /\ verdict \in [Pkts -> {"none", "accept", "accept_ce", "drop"}]
      BY DEF DataInv, Released, TypeOK, ReleaseTypeOK
<1>2. UNCHANGED <<admitted, sent, lq, cq, dropped_queue, harq>>
      BY DEF ReleaseDrop, ReleaseAccept, queues, grant, history
<1>3. PICK u \in Pkts, x \in {"accept", "accept_ce", "drop"} :
        /\ 1 \in DOMAIN out_pkts /\ u = out_pkts[1].uid /\ out_pkts[1].size = Size[u]
        /\ verdict' = [verdict EXCEPT ![u] = x]
        /\ out_pkts' = Tail(out_pkts)
      BY <1>1, LeavesIs DEF ReleaseDrop, ReleaseAccept
<1>4. BitsOf(out_pkts, u) = Size[u] /\ Size[u] \in Nat \ {0}
      BY <1>1, <1>3, BitsOfEntry, Types
<1>5. verdict[u] = "none" /\ sent[u] = Size[u]
      BY <1>1, <1>4 DEF Released
<1>6. \A v : BitsOf(out_pkts, v) = PartOf(out_pkts[1], v) + BitsOf(Tail(out_pkts), v)
  <2>1. out_pkts # <<>> /\ \A i \in DOMAIN out_pkts : out_pkts[i].size \in Nat
        BY <1>3, Types
  <2>. QED  BY <1>1, <2>1, BitsOfTail
<1>7. /\ Tail(out_pkts) \in Seq(OutEntry)
      /\ \A i \in DOMAIN Tail(out_pkts) :
           i \in Nat /\ i + 1 \in DOMAIN out_pkts /\ Tail(out_pkts)[i] = out_pkts[i + 1]
      BY <1>1, <1>3, HeadTail
<1>8. OneEach(out_pkts')
      BY <1>1, <1>3, <1>7 DEF OneEach
<1>9. \A v : BitsOf(out_pkts, v) \in Nat /\ BitsOf(out_pkts', v) \in Nat
  <2>1. \A i \in DOMAIN out_pkts' : out_pkts'[i].size \in Nat
        BY <1>3, <1>7, Types
  <2>. QED  BY <1>1, <1>3, <1>7, <2>1, BitsOfNat, Types
<1>10. BitsOf(out_pkts', u) = 0 /\ \A v : v # u => BitsOf(out_pkts', v) = BitsOf(out_pkts, v)
  <2>1. \A v : PartOf(out_pkts[1], v) = (IF v = u THEN Size[u] ELSE 0)
        BY <1>3 DEF PartOf
  <2>2. BitsOf(out_pkts', u) = 0
        BY <1>3, <1>4, <1>6, <1>9, <2>1
  <2>3. ASSUME NEW v, v # u
        PROVE  BitsOf(out_pkts', v) = BitsOf(out_pkts, v)
        BY <1>3, <1>6, <1>9, <2>1, <2>3
  <2>. QED  BY <2>2, <2>3
<1>11. Conserved'
      BY <1>1, <1>2 DEF Conserved, Arrived, Inside
<1>12. Released'
      BY <1>1, <1>2, <1>3, <1>5, <1>8, <1>10 DEF Released
<1>. QED  BY <1>11, <1>12 DEF DataInv

LEMMA NextData == QueueInv /\ DataInv /\ [Next]_vars => DataInv'
<1>. SUFFICES ASSUME QueueInv, DataInv, [Next]_vars PROVE DataInv'
     OBVIOUS
<1>0. TypeOK
      BY DEF QueueInv
<1>1. CASE Admit
      BY <1>0, <1>1, AdmitData
<1>2. CASE Expire \/ Drain \/ Discard \/ Push
      BY <1>2, SentData
<1>3. CASE ReleaseDrop \/ ReleaseAccept
      BY <1>0, <1>3, VerdictData
<1>4. CASE \/ Step \/ TakeWhole \/ TakeFragment \/ AqmDrop
           \/ AdmitDone \/ ExpireDone \/ ReleaseDone \/ DrainDone \/ DiscardDone \/ GetDone
           \/ HandleDone \/ PushDone \/ NextBlock
           \/ \E g \in Grants, d \in Delays : Handle(g, d)
           \/ UNCHANGED vars
      BY <1>4, QuietData
<1>. QED  BY <1>1, <1>2, <1>3, <1>4, Zenon DEF Next, UeStep

(* Splitting, requeueing at a tail, AQM drops and expiry neither lose nor   *)
(* double a bit of a packet, and whenever the main thread is between two    *)
(* operations current_size is what the two queues hold, unless a sum that   *)
(* a float may not have was stored in it.                                   *)
THEOREM NoBitLost == Safety => []BitsConserved
<1>1. QueueInv /\ DataInv => BitsConserved
  <2>. SUFFICES ASSUME QueueInv, DataInv, pc \in {"mac", "release"}
                PROVE  /\ ~rounded => current_size = SumSizes(lq) + SumSizes(cq)
                       /\ dropped_queue = <<>>
                       /\ \A u \in 1..admitted :
                            BitsOf(lq, u) + BitsOf(cq, u) + BitsOf(out_pkts, u) =
                               IF verdict[u] = "none" THEN Size[u] ELSE 0
       BY DEF BitsConserved
  <2>1. TypeOK /\ Counted /\ LoopsEnd /\ Conserved /\ Released
        BY DEF QueueInv, DataInv
  <2>2. dropped_queue = <<>> /\ harq.pkts = <<>>
        BY <2>1 DEF LoopsEnd
  <2>3. ~rounded => current_size = SumSizes(lq) + SumSizes(cq)
    <3>1. SumSizes(lq) \in Nat /\ SumSizes(cq) \in Nat
          BY <2>1, QueueIs, Types
    <3>. QED  BY <2>1, <2>2, <3>1, SumSizesNothing DEF Counted, TwoSums
  <2>4. ASSUME NEW u \in 1..admitted
        PROVE  BitsOf(lq, u) + BitsOf(cq, u) + BitsOf(out_pkts, u) =
                  IF verdict[u] = "none" THEN Size[u] ELSE 0
    <3>1. u \in Pkts /\ Arrived(u) = Size[u]
          BY <2>1, NumPktsAssumption DEF TypeOK, Pkts, Arrived
    <3>2. /\ BitsOf(lq, u) \in Nat /\ BitsOf(cq, u) \in Nat
          /\ sent[u] \in Nat /\ Size[u] \in Nat
          BY <2>1, <3>1, QueueIs, Types
    <3>3. Inside(u) = BitsOf(lq, u) + BitsOf(cq, u)
          BY <2>2, <3>2, BitsOfNothing DEF Inside, TwoBits
    <3>4. sent[u] + Inside(u) = Size[u]
          BY <2>1, <3>1 DEF Conserved
    <3>5. CASE verdict[u] = "none"
      <4>1. BitsOf(out_pkts, u) = sent[u]
            BY <2>1, <3>1, <3>5 DEF Released
      <4>. QED  BY <3>2, <3>3, <3>4, <3>5, <4>1
    <3>6. CASE verdict[u] # "none"
      <4>1. BitsOf(out_pkts, u) = 0 /\ sent[u] = Size[u]
            BY <2>1, <3>1, <3>6 DEF Released
      <4>. QED  BY <3>2, <3>3, <3>4, <3>6, <4>1
    <3>. QED  BY <3>5, <3>6
  <2>. QED  BY <2>2, <2>3, <2>4
<1>. QED  BY <1>1, InitQueues, NextQueues, InitData, NextData, PTL DEF Safety
-----------------------------------------------------------------------------
(* Verdicts: what was lost of a packet decides it, through the erase flag.  *)
Decided ==
    \A u \in Pkts : /\ Accepted(u) => u \notin lost
                    /\ verdict[u] = "drop" => u \in lost

FateInv == LostIsErased /\ Decided

LEMMA InitFate == Init => FateInv
BY DEF Init, ReleaseInit, FateInv, LostIsErased, Decided, Accepted

LEMMA QuietFate ==
    ASSUME TypeOK, FateInv,
           \/ Step \/ TakeWhole \/ TakeFragment \/ AqmDrop \/ Admit
           \/ AdmitDone \/ ExpireDone \/ ReleaseDone \/ DrainDone \/ DiscardDone \/ GetDone
           \/ HandleDone \/ PushDone \/ NextBlock
           \/ \E g \in Grants, d \in Delays : Handle(g, d)
           \/ UNCHANGED vars
    PROVE  FateInv'
<1>1. lost' = lost /\ verdict' = verdict
      BY DEF Step, TakeWhole, TakeFragment, AqmDrop, Admit, AdmitDone, ExpireDone, ReleaseDone,
             DrainDone, DiscardDone, GetDone, HandleDone, PushDone, NextBlock, Handle,
             vars, release, history
<1>2. /\ \A i \in DOMAIN out_pkts' : \E k \in DOMAIN out_pkts :
           out_pkts'[i].uid = out_pkts[k].uid /\ out_pkts'[i].erase = out_pkts[k].erase
      /\ \A k \in DOMAIN out_pkts : \E i \in DOMAIN out_pkts' :
           out_pkts'[i].uid = out_pkts[k].uid /\ out_pkts'[i].erase = out_pkts[k].erase
  <2>1. CASE Step
    <3>1. out_pkts' = Later
          BY <2>1 DEF Step
    <3>. QED  BY <3>1, LaterType, Types
  <2>2. CASE PushDone
    <3>1. out_pkts' \in Sortings(out_pkts)
          BY <2>2 DEF PushDone
    <3>2. /\ \A i \in DOMAIN out_pkts' : \E k \in DOMAIN out_pkts : out_pkts'[i] = out_pkts[k]
          /\ \A k \in DOMAIN out_pkts : \E i \in DOMAIN out_pkts' : out_pkts'[i] = out_pkts[k]
          BY <3>1, SortedFrom, SortedAll, Types
    <3>. QED  BY <3>2
  <2>3. CASE out_pkts' = out_pkts
        BY <2>3
  <2>. QED  BY <2>1, <2>2, <2>3
            DEF TakeWhole, TakeFragment, AqmDrop, Admit, AdmitDone, ExpireDone, ReleaseDone,
                DrainDone, DiscardDone, GetDone, HandleDone, NextBlock, Handle, vars, release
<1>3. LostIsErased'
      BY <1>1, <1>2 DEF FateInv, LostIsErased, Erased
<1>4. Decided'
      BY <1>1 DEF FateInv, Decided, Accepted
<1>. QED  BY <1>3, <1>4 DEF FateInv

LEMMA SentFate ==
    ASSUME QueueInv, DataInv, FateInv, Expire \/ Drain \/ Discard \/ Push
    PROVE  FateInv'
<1>1. /\ TypeOK /\ LostIsErased /\ Decided /\ Released /\ DataInv'
      /\ out_pkts \in Seq(OutEntry)
      BY SentData, Types DEF QueueInv, DataInv, FateInv
<1>2. PICK u \in Pkts, m \in Nat \ {0}, ce \in BOOLEAN :
        /\ sent' = [sent EXCEPT ![u] = sent[u] + m]
        /\ \/ out_pkts' = WithData(u, m, harq.wait, ce) /\ lost' = lost
           \/ out_pkts' = WithoutData(u, m) /\ lost' = lost \cup {u}
      BY <1>1, SentIs
<1>3. verdict' = verdict
      BY DEF Expire, Drain, Discard, Push
<1>4. verdict[u] = "none"
  <2>1. sent'[u] = sent[u] + m /\ sent[u] \in Nat /\ Size[u] \in Nat
    <3>1. sent \in [Pkts -> Nat]
          BY <1>1 DEF TypeOK
    <3>. QED  BY <1>1, <1>2, <3>1, Types
  <2>2. verdict[u] # "none" => sent[u] = Size[u] /\ sent'[u] = Size[u]
        BY <1>1, <1>3 DEF DataInv, Released
  <2>. QED  BY <2>1, <2>2
<1>5. Decided'
      BY <1>1, <1>2, <1>3, <1>4 DEF Decided, Accepted
<1>6. CASE out_pkts' = WithData(u, m, harq.wait, ce) /\ lost' = lost
  <2>. SUFFICES LostIsErased'
       BY <1>5 DEF FateInv
  <2>1. Pushed(out_pkts', u, m)
    <3>1. harq.wait \in Nat
          BY <1>1, Types
    <3>. QED  BY <1>1, <1>6, <3>1, WithDataIs
  <2>2. CASE \E n \in Nat : OneMore(out_pkts', n, u, m) /\ out_pkts'[n].erase = FALSE
        BY <1>1, <1>3, <1>6, <2>2 DEF OneMore, LostIsErased, Erased
  <2>3. CASE \E k \in DOMAIN out_pkts :
               OneLonger(out_pkts', k, u, m) /\ out_pkts'[k].erase = out_pkts[k].erase
        BY <1>1, <1>3, <1>6, <2>3 DEF OneLonger, LostIsErased, Erased
  <2>. QED  BY <2>1, <2>2, <2>3 DEF Pushed
<1>7. CASE out_pkts' = WithoutData(u, m) /\ lost' = lost \cup {u}
  <2>. SUFFICES LostIsErased'
       BY <1>5 DEF FateInv
  <2>1. Dropped(out_pkts', u, m)
        BY <1>1, <1>7, WithoutDataIs
  <2>2. CASE \E n \in Nat : OneMore(out_pkts', n, u, m) /\ out_pkts'[n].erase = TRUE
        BY <1>1, <1>3, <1>7, <2>2 DEF OneMore, LostIsErased, Erased
  <2>3. CASE \E k \in DOMAIN out_pkts : OneLonger(out_pkts', k, u, m) /\ out_pkts'[k].erase = TRUE
        BY <1>1, <1>3, <1>7, <2>3 DEF OneLonger, LostIsErased, Erased
  <2>. QED  BY <2>1, <2>2, <2>3 DEF Dropped
<1>. QED  BY <1>2, <1>6, <1>7

LEMMA VerdictFate ==
    ASSUME TypeOK, DataInv, FateInv, ReleaseDrop \/ ReleaseAccept
    PROVE  FateInv'
<1>1. /\ LostIsErased /\ Decided /\ Released /\ ReleaseTypeOK /\ OneEach(out_pkts)
      /\ out_pkts \in Seq(OutEntry) /\ verdict \in [Pkts -> {"none", "accept", "accept_ce", "drop"}]
      BY DEF DataInv, FateInv, Released, TypeOK, ReleaseTypeOK
<1>2. lost' = lost
      BY DEF ReleaseDrop, ReleaseAccept, history
<1>3. PICK u \in Pkts, x \in {"accept", "accept_ce", "drop"} :
        /\ 1 \in DOMAIN out_pkts /\ u = out_pkts[1].uid /\ out_pkts[1].size = Size[u]
        /\ x = "drop" <=> out_pkts[1].erase
        /\ verdict' = [verdict EXCEPT ![u] = x]
        /\ out_pkts' = Tail(out_pkts)
      BY <1>1, LeavesIs DEF ReleaseDrop, ReleaseAccept
<1>4. verdict[u] = "none"
  <2>1. BitsOf(out_pkts, u) = Size[u] /\ Size[u] \in Nat \ {0}
        BY <1>1, <1>3, BitsOfEntry, Types
  <2>. QED  BY <1>1, <2>1 DEF Released
<1>5. /\ \A i \in DOMAIN out_pkts' :
           i \in Nat /\ i + 1 \in DOMAIN out_pkts /\ out_pkts'[i] = out_pkts[i + 1]
      /\ \A i \in DOMAIN out_pkts :
           i # 1 => i - 1 \in DOMAIN out_pkts' /\ out_pkts'[i - 1] = out_pkts[i]
  <2>1. /\ \A i \in DOMAIN Tail(out_pkts) :
             i \in Nat /\ i + 1 \in DOMAIN out_pkts /\ Tail(out_pkts)[i] = out_pkts[i + 1]
        /\ \A i \in DOMAIN out_pkts : i # 1 => i - 1 \in DOMAIN Tail(out_pkts)
        /\ \A i \in DOMAIN out_pkts : i \in Nat
        BY <1>1, <1>3, HeadTail
  <2>. QED  BY <1>3, <2>1
<1>6. u \in lost <=> out_pkts[1].erase
      BY <1>1, <1>3, <1>4 DEF LostIsErased, Erased, OneEach
<1>7. Decided'
      BY <1>1, <1>2, <1>3, <1>6 DEF Decided, Accepted
<1>8. LostIsErased'
  <2>1. \A i \in DOMAIN out_pkts' : out_pkts'[i].erase => out_pkts'[i].uid \in lost
        BY <1>1, <1>5 DEF LostIsErased, Erased
  <2>2. ASSUME NEW w \in lost, verdict'[w] = "none"
        PROVE  \E i \in DOMAIN out_pkts' : out_pkts'[i].uid = w /\ out_pkts'[i].erase
    <3>1. w \in Pkts /\ w # u /\ verdict[w] = "none"
          BY <1>1, <1>3, <2>2 DEF TypeOK
    <3>2. PICK i \in DOMAIN out_pkts : out_pkts[i].uid = w /\ out_pkts[i].erase
          BY <1>1, <3>1 DEF LostIsErased, Erased
    <3>. QED  BY <1>3, <1>5, <3>1, <3>2
  <2>. QED  BY <1>2, <2>1, <2>2 DEF LostIsErased, Erased
<1>. QED  BY <1>7, <1>8 DEF FateInv

LEMMA NextFate == QueueInv /\ DataInv /\ FateInv /\ [Next]_vars => FateInv'
<1>. SUFFICES ASSUME QueueInv, DataInv, FateInv, [Next]_vars PROVE FateInv'
     OBVIOUS
<1>0. TypeOK
      BY DEF QueueInv
<1>1. CASE Expire \/ Drain \/ Discard \/ Push
      BY <1>1, SentFate
<1>2. CASE ReleaseDrop \/ ReleaseAccept
      BY <1>0, <1>2, VerdictFate
<1>3. CASE \/ Step \/ TakeWhole \/ TakeFragment \/ AqmDrop \/ Admit
           \/ AdmitDone \/ ExpireDone \/ ReleaseDone \/ DrainDone \/ DiscardDone \/ GetDone
           \/ HandleDone \/ PushDone \/ NextBlock
           \/ \E g \in Grants, d \in Delays : Handle(g, d)
           \/ UNCHANGED vars
      BY <1>0, <1>3, QuietFate
<1>. QED  BY <1>1, <1>2, <1>3, Zenon DEF Next, UeStep

(* An accepted packet went through whole; a dropped one lost some part, to  *)
(* the delay budget, to the AQM or with a block that was too old.           *)
THEOREM FateIsTrue == Safety => []FateMatchesData
<1>1. QueueInv /\ DataInv /\ FateInv => FateMatchesData
      BY DEF DataInv, Released, FateInv, Decided, FateMatchesData, Accepted
<1>. QED  BY <1>1, InitQueues, NextQueues, InitData, NextData, InitFate, NextFate, PTL DEF Safety
-----------------------------------------------------------------------------
(* Marks: from pop_next, through a remainder put back at a tail and through *)
(* the block, to out_pkts and to the verdict.                               *)
MarkInv == CeTrue /\ CeOnlyIfCapable

LEMMA InitMark == Init => MarkInv
<1>. SUFFICES ASSUME Init PROVE MarkInv
     OBVIOUS
<1>1. lq = <<>> /\ cq = <<>> /\ harq.pkts = <<>> /\ out_pkts = <<>>
      BY DEF Init, ReleaseInit, NoHarq
<1>2. CeTrue
      BY <1>1 DEF CeTrue, Elements
<1>3. CeOnlyIfCapable
      BY DEF Init, ReleaseInit, CeOnlyIfCapable
<1>. QED  BY <1>2, <1>3 DEF MarkInv

(* What a step has to show where it gives no verdict.                       *)
LEMMA MarkKept ==
    ASSUME MarkInv, UNCHANGED <<ecn_in, verdict>>,
           MarksTrue(lq, cq) => MarksTrue(lq', cq'),
           \A i \in DOMAIN harq'.pkts : harq'.pkts[i].ce => Capable(harq'.pkts[i].uid),
           \A i \in DOMAIN out_pkts' : out_pkts'[i].ce => Capable(out_pkts'[i].uid)
    PROVE  MarkInv'
<1>1. CeTrue'
      BY DEF MarkInv, CeTrue, MarksTrue, MarkTrue, Capable
<1>2. CeOnlyIfCapable'
      BY DEF MarkInv, CeOnlyIfCapable
<1>. QED  BY <1>1, <1>2 DEF MarkInv

LEMMA QueueMark ==
    ASSUME TypeOK, MarkInv, Admit \/ AqmDrop
    PROVE  MarkInv'
<1>1. UNCHANGED <<harq, out_pkts, ecn_in, verdict>>
      BY DEF Admit, AqmDrop, grant, release, history
<1>2. CASE Admit
  <2>1. PICK e \in QueueEntry : MarkTrue(e) /\ Joined(e, lq, cq, lq', cq')
        BY <1>2, AdmitIs
  <2>2. Elements(lq') \cup Elements(cq') \subseteq Elements(lq) \cup Elements(cq) \cup {e}
        BY <2>1, JoinedIs, Types
  <2>3. MarksTrue(lq, cq) => MarksTrue(lq', cq')
        BY <2>1, <2>2 DEF MarksTrue
  <2>. QED  BY <1>1, <2>3, MarkKept DEF MarkInv, CeTrue
<1>3. CASE AqmDrop
  <2>1. Left(Chosen, lq, cq, lq', cq')
        BY <1>3, PopLeaves DEF AqmDrop, Popping
  <2>2. Elements(lq') \cup Elements(cq') \subseteq Elements(lq) \cup Elements(cq)
        BY <2>1, LeftIs, Types
  <2>3. MarksTrue(lq, cq) => MarksTrue(lq', cq')
        BY <2>2 DEF MarksTrue
  <2>. QED  BY <1>1, <2>3, MarkKept DEF MarkInv, CeTrue
<1>. QED  BY <1>2, <1>3

LEMMA StepMark ==
    ASSUME TypeOK, MarkInv, Step
    PROVE  MarkInv'
<1>1. /\ UNCHANGED <<harq, ecn_in, verdict>>
      /\ lq' = Older(lq) /\ cq' = Older(cq) /\ out_pkts' = Later
      BY DEF Step, grant, history
<1>2. MarksTrue(lq, cq) => MarksTrue(lq', cq')
  <2>1. ASSUME NEW s \in Seq(QueueEntry), \A e \in Elements(s) : MarkTrue(e)
        PROVE  \A e \in Elements(Older(s)) : MarkTrue(e)
        BY <2>1, OlderIs DEF Elements, MarkTrue
  <2>. QED  BY <1>1, <2>1, Types DEF MarksTrue
<1>3. \A i \in DOMAIN out_pkts' : out_pkts'[i].ce => Capable(out_pkts'[i].uid)
      BY <1>1, LaterType, Types DEF MarkInv, CeTrue
<1>4. \A i \in DOMAIN harq'.pkts : harq'.pkts[i].ce => Capable(harq'.pkts[i].uid)
      BY <1>1 DEF MarkInv, CeTrue
<1>. QED  BY <1>1, <1>2, <1>3, <1>4, MarkKept

LEMMA TakeMark ==
    ASSUME TypeOK, MarkInv, TakeWhole \/ TakeFragment
    PROVE  MarkInv'
<1>1. PICK b \in BlockEntry :
        /\ harq' = [harq EXCEPT !.bits = harq.bits + b.size, !.pkts = Append(harq.pkts, b)]
        /\ MarksTrue(lq, cq) => MarksTrue(lq', cq') /\ (b.ce => Capable(b.uid))
      BY TakeIs
<1>2. UNCHANGED <<out_pkts, ecn_in, verdict>>
      BY DEF TakeWhole, TakeFragment, release, history
<1>3. MarksTrue(lq, cq)
      BY DEF MarkInv, CeTrue, MarksTrue
<1>4. \A i \in DOMAIN harq'.pkts : harq'.pkts[i].ce => Capable(harq'.pkts[i].uid)
  <2>1. harq'.pkts = Append(harq.pkts, b) /\ harq.pkts \in Seq(BlockEntry)
        BY <1>1 DEF TypeOK
  <2>2. \A i \in DOMAIN harq'.pkts :
          \/ i \in DOMAIN harq.pkts /\ harq'.pkts[i] = harq.pkts[i]
          \/ harq'.pkts[i] = b
        BY <2>1, Appended
  <2>. QED  BY <1>1, <1>3, <2>2 DEF MarkInv, CeTrue
<1>5. \A i \in DOMAIN out_pkts' : out_pkts'[i].ce => Capable(out_pkts'[i].uid)
      BY <1>2 DEF MarkInv, CeTrue
<1>. QED  BY <1>1, <1>2, <1>4, <1>5, MarkKept

LEMMA SentMark ==
    ASSUME TypeOK, MarkInv, Expire \/ Drain \/ Discard \/ Push
    PROVE  MarkInv'
<1>1. PICK u \in Pkts, m \in Nat \ {0}, ce \in BOOLEAN :
        /\ \/ Push /\ out_pkts' = WithData(u, m, harq.wait, ce)
           \/ out_pkts' = WithoutData(u, m)
        /\ Push => \E i \in DOMAIN harq.pkts : harq.pkts[i].uid = u /\ harq.pkts[i].ce = ce
        /\ \A i \in DOMAIN harq'.pkts : \E j \in DOMAIN harq.pkts : harq'.pkts[i] = harq.pkts[j]
        /\ MarksTrue(lq, cq) => MarksTrue(lq', cq')
      BY SentIs
<1>2. UNCHANGED <<ecn_in, verdict>>
      BY DEF Expire, Drain, Discard, Push
<1>3. \A i \in DOMAIN harq'.pkts : harq'.pkts[i].ce => Capable(harq'.pkts[i].uid)
      BY <1>1 DEF MarkInv, CeTrue
<1>4. \A i \in DOMAIN out_pkts' : out_pkts'[i].ce => Capable(out_pkts'[i].uid)
  <2>1. PICK c \in BOOLEAN :
          /\ c => Capable(u)
          /\ out_pkts' = WithData(u, m, harq.wait, c) \/ out_pkts' = WithoutData(u, m)
    <3>1. CASE Push /\ out_pkts' = WithData(u, m, harq.wait, ce)
      <4>1. ce => Capable(u)
            BY <1>1, <3>1 DEF MarkInv, CeTrue
      <4>. QED  BY <3>1, <4>1
    <3>2. CASE out_pkts' = WithoutData(u, m)
          BY <3>2
    <3>. QED  BY <1>1, <3>1, <3>2
  <2>2. m \in Nat /\ 0 \in Nat
        OBVIOUS
  <2>3. \A i \in DOMAIN out_pkts' : out_pkts'[i].ce =>
          \/ c /\ out_pkts'[i].uid = u
          \/ i \in DOMAIN out_pkts /\ out_pkts[i].ce /\ out_pkts[i].uid = out_pkts'[i].uid
        BY <2>1, <2>2, MarksOfRelease, Types
  <2>. QED  BY <2>1, <2>3 DEF MarkInv, CeTrue
<1>. QED  BY <1>1, <1>2, <1>3, <1>4, MarkKept

LEMMA QuietMark ==
    ASSUME TypeOK, MarkInv,
           \/ AdmitDone \/ ExpireDone \/ ReleaseDone \/ DrainDone \/ DiscardDone \/ GetDone
           \/ HandleDone \/ PushDone \/ NextBlock
           \/ \E g \in Grants, d \in Delays : Handle(g, d)
           \/ UNCHANGED vars
    PROVE  MarkInv'
<1>1. UNCHANGED <<lq, cq, ecn_in, verdict>>
      BY DEF AdmitDone, ExpireDone, ReleaseDone, DrainDone, DiscardDone, GetDone, HandleDone,
             PushDone, NextBlock, Handle, vars, queues, release, history
<1>2. harq' = harq \/ harq'.pkts = <<>>
      BY NewBlock DEF AdmitDone, ExpireDone, ReleaseDone, DrainDone, DiscardDone, GetDone,
             HandleDone, PushDone, NoHarq, vars, grant
<1>3. \A i \in DOMAIN harq'.pkts : harq'.pkts[i].ce => Capable(harq'.pkts[i].uid)
      BY <1>2 DEF MarkInv, CeTrue
<1>4. \A i \in DOMAIN out_pkts' : \E k \in DOMAIN out_pkts : out_pkts'[i] = out_pkts[k]
  <2>1. CASE PushDone
        BY <2>1, SortedFrom, Types DEF PushDone
  <2>2. CASE out_pkts' = out_pkts
        BY <2>2
  <2>. QED  BY <2>1, <2>2
            DEF AdmitDone, ExpireDone, ReleaseDone, DrainDone, DiscardDone, GetDone,
                HandleDone, NextBlock, Handle, vars, release
<1>5. \A i \in DOMAIN out_pkts' : out_pkts'[i].ce => Capable(out_pkts'[i].uid)
      BY <1>4 DEF MarkInv, CeTrue
<1>6. MarksTrue(lq, cq) => MarksTrue(lq', cq')
      BY <1>1
<1>. QED  BY <1>1, <1>3, <1>5, <1>6, MarkKept

LEMMA VerdictMark ==
    ASSUME TypeOK, MarkInv, ReleaseDrop \/ ReleaseAccept
    PROVE  MarkInv'
<1>1. /\ UNCHANGED <<lq, cq, harq, ecn_in>> /\ ReleaseTypeOK /\ out_pkts \in Seq(OutEntry)
      /\ verdict \in [Pkts -> {"none", "accept", "accept_ce", "drop"}]
      BY DEF ReleaseDrop, ReleaseAccept, queues, grant, history, TypeOK, ReleaseTypeOK
<1>2. PICK u \in Pkts, x \in {"accept", "accept_ce", "drop"} :
        /\ 1 \in DOMAIN out_pkts /\ u = out_pkts[1].uid
        /\ x = "accept_ce" => out_pkts[1].ce
        /\ verdict' = [verdict EXCEPT ![u] = x]
        /\ out_pkts' = Tail(out_pkts)
      BY <1>1, LeavesIs DEF ReleaseDrop, ReleaseAccept
<1>3. CeOnlyIfCapable'
      BY <1>1, <1>2 DEF MarkInv, CeTrue, Capable, CeOnlyIfCapable
<1>4. \A i \in DOMAIN out_pkts' : \E k \in DOMAIN out_pkts : out_pkts'[i] = out_pkts[k]
      BY <1>1, <1>2, HeadTail
<1>5. CeTrue'
      BY <1>1, <1>4 DEF MarkInv, CeTrue, MarkTrue, Capable
<1>. QED  BY <1>3, <1>5 DEF MarkInv

LEMMA NextMark == TypeOK /\ MarkInv /\ [Next]_vars => MarkInv'
<1>. SUFFICES ASSUME TypeOK, MarkInv, [Next]_vars PROVE MarkInv'
     OBVIOUS
<1>1. CASE Step
      BY <1>1, StepMark
<1>2. CASE Admit \/ AqmDrop
      BY <1>2, QueueMark
<1>3. CASE TakeWhole \/ TakeFragment
      BY <1>3, TakeMark
<1>4. CASE Expire \/ Drain \/ Discard \/ Push
      BY <1>4, SentMark
<1>5. CASE ReleaseDrop \/ ReleaseAccept
      BY <1>5, VerdictMark
<1>6. CASE \/ AdmitDone \/ ExpireDone \/ ReleaseDone \/ DrainDone \/ DiscardDone \/ GetDone
           \/ HandleDone \/ PushDone \/ NextBlock
           \/ \E g \in Grants, d \in Delays : Handle(g, d)
           \/ UNCHANGED vars
      BY <1>6, QuietMark
<1>. QED  BY <1>1, <1>2, <1>3, <1>4, <1>5, <1>6, Zenon DEF Next, UeStep

(* The host never sees CE on a packet it sent as Not-ECT, whatever the AQM  *)
(* draws and however often the packet is split and put back.                *)
THEOREM OnlyCapableMarked == Safety => []CeOnlyIfCapable
<1>1. MarkInv => CeOnlyIfCapable
      BY DEF MarkInv
<1>. QED  BY <1>1, TypeCorrect, InitMark, NextMark, PTL DEF Safety
=============================================================================
