--------------------------- MODULE PdcpFlowProofs ---------------------------
(* Theorems about PdcpFlow, for every number and size of packets, every     *)
(* buffer size, delay budget, set of grants and of delays, and with or      *)
(* without order_pkts.                                                      *)
EXTENDS PdcpFlow, ReleaseBufferProofs

-----------------------------------------------------------------------------
(* The type invariant is inductive.                                         *)

LEMMA InitType == Init => TypeOK
<1>. SUFFICES ASSUME Init PROVE TypeOK
     OBVIOUS
<1>1. current_size \in Floats /\ rounded \in BOOLEAN
  <2>1. current_size = 0 /\ rounded = FALSE
        BY DEF Init
  <2>2. 0 \in 0..Exact
        BY FloatsAssumption
  <2>. QED  BY <2>1, <2>2, FloatsAssumption
<1>. QED  BY <1>1, NumPktsAssumption
          DEF Init, TypeOK, ReleaseInit, ReleaseTypeOK, NoHarq, PcAt, Pkts

LEMMA SentType ==
    ASSUME TypeOK, NEW u \in Pkts, NEW n \in Nat
    PROVE  [sent EXCEPT ![u] = @ + n] \in [Pkts -> Nat]
<1>1. sent[u] + n \in Nat
      BY DEF TypeOK
<1>. QED  BY <1>1 DEF TypeOK

LEMMA InHarqType ==
    ASSUME TypeOK, NEW u \in Pkts, NEW size \in Nat \ {0}
    PROVE  InHarq(u, size) \in [bits : Nat, pkts : Seq(BlockEntry), wait : Nat]
<1>. DEFINE b == [uid |-> u, size |-> size]
            n == harq.bits + size
            s == Append(harq.pkts, b)
<1>1. harq.pkts \in Seq(BlockEntry) /\ n \in Nat
      BY DEF TypeOK
<1>2. b \in BlockEntry
      BY DEF BlockEntry
<1>3. InHarq(u, size) = [harq EXCEPT !.bits = n, !.pkts = s]
      BY DEF InHarq
<1>. HIDE DEF b, n
<1>4. s \in Seq(BlockEntry)
      BY <1>1, <1>2, Appended
<1>. HIDE DEF s
<1>. QED  BY <1>1, <1>3, <1>4 DEF TypeOK

LEMMA NextType == TypeOK /\ [Next]_vars => TypeOK'
<1>. SUFFICES ASSUME TypeOK, [Next]_vars PROVE TypeOK'
     OBVIOUS
<1>. USE DEF PcAt
<1>a. CASE Capture
      BY <1>a, NumPktsAssumption DEF Capture, TypeOK, ReleaseTypeOK, release, buffer, grant, history
<1>b. CASE Step
  <2>1. q' \in Seq(BufferEntry)
    <3>. DEFINE n(i) == IF q[i].age > Budget THEN q[i].age ELSE q[i].age + 1
    <3>1. q' = [i \in DOMAIN q |-> [q[i] EXCEPT !.age = n(i)]]
          BY <1>b, Zenon DEF Step
    <3>2. ASSUME NEW i \in DOMAIN q PROVE q[i] \in BufferEntry /\ n(i) \in Nat
      <4>1. q[i] \in BufferEntry
            BY DEF TypeOK
      <4>2. q[i].age \in Nat
            BY <4>1 DEF BufferEntry
      <4>. QED  BY <4>1, <4>2, BudgetAssumption
    <3>. HIDE DEF n
    <3>3. \A i \in DOMAIN q : [q[i] EXCEPT !.age = n(i)] \in BufferEntry
          BY <3>2 DEF BufferEntry
    <3>4. q \in Seq(BufferEntry) /\ Len(q) \in Nat /\ DOMAIN q = 1..Len(q)
          BY DEF TypeOK
    <3>5. q' \in [1..Len(q) -> BufferEntry]
          BY <3>1, <3>3, <3>4
    <3>. QED  BY <3>4, <3>5, FunctionSeq
  <2>2. out_pkts' \in Seq(OutEntry)
        BY <1>b, LaterType DEF Step, TypeOK, ReleaseTypeOK
  <2>. QED  BY <1>b, <2>1, <2>2 DEF Step, TypeOK, ReleaseTypeOK, stages, grant, history
<1>c. CASE Ingest
      BY <1>c DEF Ingest, TypeOK, ReleaseTypeOK, release, buffer, grant, history
<1>d. CASE IngestDone \/ AdmitDone \/ ExpireDone \/ ReleaseDone
      BY <1>d DEF IngestDone, AdmitDone, ExpireDone, ReleaseDone, TypeOK,
                  ReleaseTypeOK, release, buffer, grant, history, stages
<1>e. CASE Admit
  <2>1. admitted + 1 \in Pkts /\ Size[admitted + 1] \in Nat \ {0}
        BY <1>e, NumPktsAssumption, SizeAssumption DEF Admit, TypeOK, Pkts
  <2>. DEFINE e == [uid |-> admitted + 1, size |-> Size[admitted + 1], age |-> 0]
  <2>2. e \in BufferEntry
        BY <2>1 DEF BufferEntry
  <2>3. q' = Append(q, e)
        BY <1>e DEF Admit
  <2>. HIDE DEF e
  <2>4. q' \in Seq(BufferEntry)
        BY <2>2, <2>3, Appended DEF TypeOK
  <2>5. current_size' \in Floats /\ rounded' \in BOOLEAN
        BY <1>e DEF Admit, Nearest
  <2>6. /\ admitted' \in Nat /\ admitted' <= ingested /\ ingested \in Nat
        BY <1>e DEF Admit, TypeOK
  <2>7. UNCHANGED <<captured, ingested, pc, bits, harq, out_pkts, prev_released_id,
                    verdict, sent, lost>>
        BY <1>e, Zenon DEF Admit, release, grant, history
  <2>. QED  BY <2>4, <2>5, <2>6, <2>7 DEF TypeOK, ReleaseTypeOK
<1>f. CASE TailDrop
  <2>1. admitted + 1 \in Pkts /\ Size[admitted + 1] \in Nat \ {0}
        BY <1>f, NumPktsAssumption, SizeAssumption DEF TailDrop, TypeOK, Pkts
  <2>2. Append(out_pkts, Entry(admitted + 1, Size[admitted + 1], 0, FALSE, TRUE))
          \in Seq(OutEntry)
    <3>. DEFINE e == Entry(admitted + 1, Size[admitted + 1], 0, FALSE, TRUE)
    <3>1. e \in OutEntry
          BY <2>1, EntryType
    <3>. SUFFICES Append(out_pkts, e) \in Seq(OutEntry)
         BY Zenon
    <3>. HIDE DEF e
    <3>. QED  BY <3>1, Appended DEF TypeOK, ReleaseTypeOK
  <2>3. out_pkts' \in Seq(OutEntry)
        BY <1>f, <2>2, SortingIs DEF TailDrop
  <2>. QED  BY <1>f, <2>1, <2>3, NumPktsAssumption DEF TailDrop, TypeOK, ReleaseTypeOK, buffer, grant
<1>g. CASE Expire
  <2>1. /\ Head(q) \in BufferEntry /\ Tail(q) \in Seq(BufferEntry)
        /\ Head(q).uid \in Pkts /\ Head(q).size \in Nat
    <3>1. q # <<>> /\ q \in Seq(BufferEntry)
          BY <1>g DEF Expire, TypeOK
    <3>2. Head(q) \in BufferEntry /\ Tail(q) \in Seq(BufferEntry)
          BY <3>1
    <3>. QED  BY <3>2 DEF BufferEntry
  <2>2. out_pkts' \in Seq(OutEntry)
        BY <1>g, <2>1, WithoutDataType DEF Expire, TypeOK, ReleaseTypeOK
  <2>3. sent' \in [Pkts -> Nat]
        BY <1>g, <2>1, SentType DEF Expire
  <2>4. current_size' \in Floats
        BY <1>g, Zenon DEF Expire, Nearest
  <2>5. lost' \subseteq Pkts
        BY <1>g, <2>1 DEF Expire, TypeOK
  <2>6. q' \in Seq(BufferEntry)
        BY <1>g, <2>1 DEF Expire
  <2>. QED  BY <1>g, <2>2, <2>3, <2>4, <2>5, <2>6
            DEF Expire, TypeOK, ReleaseTypeOK, stages, grant
<1>h. CASE ReleaseDrop \/ ReleaseAccept
  <2>1. ReleaseTypeOK'
        BY <1>h, ReleaseType DEF ReleaseDrop, ReleaseAccept, TypeOK
  <2>. QED  BY <1>h, <2>1 DEF ReleaseDrop, ReleaseAccept, TypeOK, stages, buffer,
                              grant, history
<1>i. ASSUME NEW g \in Grants, NEW d \in Delays, Handle(g, d) PROVE TypeOK'
  <2>1. g \in Nat /\ d \in Nat
        BY GrantsAssumption, DelaysAssumption
  <2>2. harq' = [bits |-> 0, pkts |-> <<>>, wait |-> d]
        BY <1>i DEF Handle, NoHarq
  <2>3. harq' \in [bits : Nat, pkts : Seq(BlockEntry), wait : Nat]
        BY <2>1, <2>2
  <2>. QED  BY <1>i, <2>1, <2>3 DEF Handle, TypeOK, ReleaseTypeOK, stages, buffer,
                                    release, history
<1>j. CASE TakeWhole \/ TakeFragment
  <2>1. /\ Head(q) \in BufferEntry /\ Tail(q) \in Seq(BufferEntry)
        /\ Head(q).uid \in Pkts /\ Head(q).size \in Nat \ {0}
    <3>1. q # <<>> /\ q \in Seq(BufferEntry)
          BY <1>j DEF TakeWhole, TakeFragment, TypeOK
    <3>2. Head(q) \in BufferEntry /\ Tail(q) \in Seq(BufferEntry)
          BY <3>1
    <3>. QED  BY <3>2 DEF BufferEntry
  <2>2. ASSUME NEW size \in Nat \ {0}
        PROVE  /\ InHarq(Head(q).uid, size) \in [bits : Nat, pkts : Seq(BlockEntry), wait : Nat]
               /\ [sent EXCEPT ![Head(q).uid] = @ + size] \in [Pkts -> Nat]
        BY <2>1, <2>2, InHarqType, SentType
  <2>3. CASE TakeWhole
    <3>1. /\ harq' \in [bits : Nat, pkts : Seq(BlockEntry), wait : Nat]
          /\ sent' \in [Pkts -> Nat]
          BY <2>1, <2>2, <2>3 DEF TakeWhole
    <3>2. bits' \in Nat /\ q' \in Seq(BufferEntry)
          BY <2>1, <2>3 DEF TakeWhole, Fits, TypeOK
    <3>. QED  BY <2>3, <3>1, <3>2 DEF TakeWhole, TypeOK, ReleaseTypeOK, stages, release
  <2>4. CASE TakeFragment
    <3>1. [Head(q) EXCEPT !.size = @ - bits] \in BufferEntry
      <4>1. Head(q).size - bits \in Nat \ {0}
            BY <2>1, <2>4 DEF TakeFragment, Fits, TypeOK
      <4>. QED  BY <2>1, <4>1 DEF BufferEntry
    <3>2. q' \in Seq(BufferEntry)
      <4>1. q \in Seq(BufferEntry) /\ 1 \in DOMAIN q
            BY <2>4 DEF TakeFragment, TypeOK
      <4>2. q' = [q EXCEPT ![1] = [Head(q) EXCEPT !.size = @ - bits]]
            BY <2>4 DEF TakeFragment, RequeueFront
      <4>. QED  BY <3>1, <4>1, <4>2, ExceptSeq
    <3>3. bits \in Nat \ {0}
          BY <2>4 DEF TakeFragment, TypeOK
    <3>4. /\ harq' \in [bits : Nat, pkts : Seq(BlockEntry), wait : Nat]
          /\ sent' \in [Pkts -> Nat]
          BY <2>2, <2>4, <3>3 DEF TakeFragment
    <3>. QED  BY <2>4, <3>2, <3>4 DEF TakeFragment, TypeOK, ReleaseTypeOK, stages, release
  <2>. QED  BY <1>j, <2>3, <2>4
<1>k. CASE GetDone
  <2>1. current_size' \in Floats
        BY <1>k, Zenon DEF GetDone, Nearest
  <2>. QED  BY <1>k, <2>1 DEF GetDone, TypeOK, ReleaseTypeOK, stages, release, history
<1>l. CASE Push
  <2>1. /\ Head(harq.pkts) \in BlockEntry /\ Tail(harq.pkts) \in Seq(BlockEntry)
        /\ Head(harq.pkts).uid \in Pkts /\ Head(harq.pkts).size \in Nat
    <3>1. harq.pkts # <<>> /\ harq.pkts \in Seq(BlockEntry)
          BY <1>l DEF Push, TypeOK
    <3>2. Head(harq.pkts) \in BlockEntry /\ Tail(harq.pkts) \in Seq(BlockEntry)
          BY <3>1
    <3>. QED  BY <3>2 DEF BlockEntry
  <2>2. out_pkts' \in Seq(OutEntry)
        BY <1>l, <2>1, WithDataType DEF Push, TypeOK, ReleaseTypeOK
  <2>. QED  BY <1>l, <2>1, <2>2 DEF Push, TypeOK, ReleaseTypeOK, stages, buffer, history
<1>m. CASE PushDone
  <2>1. out_pkts' \in Seq(OutEntry)
        BY <1>m, SortingIs DEF PushDone, TypeOK, ReleaseTypeOK
  <2>. QED  BY <1>m, <2>1 DEF PushDone, NoHarq, TypeOK, ReleaseTypeOK, stages,
                              buffer, history
<1>n. CASE UNCHANGED vars
      BY <1>n DEF vars, TypeOK, ReleaseTypeOK
<1>. QED  BY <1>a, <1>b, <1>c, <1>d, <1>e, <1>f, <1>g, <1>h, <1>i, <1>j, <1>k,
             <1>l, <1>m, <1>n DEF Next, UeStep

(* Every variable of the flow keeps its type: sizes in the buffer stay      *)
(* positive, grants never become negative, the stages stay in order.        *)
THEOREM TypeCorrect == Safety => []TypeOK
<1>. QED  BY InitType, NextType, PTL DEF Safety

-----------------------------------------------------------------------------
(* The order of verdicts: PipelineInOrder is inductive, and with it the     *)
(* pipeline implements PacketFate.                                          *)

(* The types of the fields, spelt out for the proofs about the order.       *)
LEMMA Fields ==
    ASSUME TypeOK
    PROVE  /\ q \in Seq(BufferEntry) /\ harq.pkts \in Seq(BlockEntry) /\ out_pkts \in Seq(OutEntry)
           /\ admitted \in Nat /\ bits \in Nat
           /\ \A i \in DOMAIN q : /\ i \in Nat /\ q[i].uid \in Pkts
                                  /\ q[i].size \in Nat /\ q[i].size > 0
           /\ \A i \in DOMAIN harq.pkts : /\ i \in Nat /\ harq.pkts[i].uid \in Pkts
                                          /\ harq.pkts[i].size \in Nat /\ harq.pkts[i].size > 0
           /\ \A i \in DOMAIN out_pkts : /\ i \in Nat /\ out_pkts[i].uid \in Pkts
                                         /\ out_pkts[i].size \in Nat
           /\ \A u \in Pkts : u \in Nat /\ Size[u] \in Nat /\ sent[u] \in Nat
<1>1. q \in Seq(BufferEntry) /\ harq.pkts \in Seq(BlockEntry) /\ out_pkts \in Seq(OutEntry)
      BY DEF TypeOK, ReleaseTypeOK
<1>2. ASSUME NEW i \in DOMAIN q
      PROVE  i \in Nat /\ q[i].uid \in Pkts /\ q[i].size \in Nat /\ q[i].size > 0
  <2>1. i \in Nat /\ q[i] \in BufferEntry
        BY <1>1
  <2>. QED  BY <2>1 DEF BufferEntry
<1>3. ASSUME NEW i \in DOMAIN harq.pkts
      PROVE  i \in Nat /\ harq.pkts[i].uid \in Pkts /\ harq.pkts[i].size \in Nat /\ harq.pkts[i].size > 0
  <2>1. i \in Nat /\ harq.pkts[i] \in BlockEntry
        BY <1>1
  <2>. QED  BY <2>1 DEF BlockEntry
<1>4. ASSUME NEW i \in DOMAIN out_pkts
      PROVE  i \in Nat /\ out_pkts[i].uid \in Pkts /\ out_pkts[i].size \in Nat
  <2>1. i \in Nat /\ out_pkts[i] \in OutEntry
        BY <1>1
  <2>. QED  BY <2>1, EntryFields
<1>5. \A u \in Pkts : u \in Nat /\ Size[u] \in Nat /\ sent[u] \in Nat
      BY NumPktsAssumption, SizeAssumption DEF TypeOK, Pkts
<1>. QED  BY <1>1, <1>2, <1>3, <1>4, <1>5 DEF TypeOK

-----------------------------------------------------------------------------
(* PipelineInOrder, action by action. *)

LEMMA InitOrder == Init => PipelineInOrder
<1>. SUFFICES ASSUME Init PROVE PipelineInOrder
     OBVIOUS
<1>1. /\ q = <<>> /\ harq.pkts = <<>> /\ out_pkts = <<>> /\ admitted = 0
      /\ \A u \in Pkts : sent[u] = 0 /\ verdict[u] = "none"
      BY DEF Init, ReleaseInit, NoHarq
<1>2. \A u \in Pkts : Size[u] \in Nat
      BY SizeAssumption
<1>3. InFlightOrder
      BY <1>1 DEF InFlightOrder
<1>4. ReleaseOrder
      BY <1>1 DEF ReleaseOrder
<1>5. Accounting
      BY <1>1, <1>2 DEF Accounting
<1>6. DecidedOrder
      BY <1>1 DEF DecidedOrder
<1>. QED  BY <1>3, <1>4, <1>5, <1>6 DEF PipelineInOrder

(* Steps that only move the program counter or the stages before the buffer. *)
LEMMA UntouchedOrder ==
    ASSUME PipelineInOrder,
           \/ Capture \/ Ingest \/ IngestDone \/ AdmitDone \/ ExpireDone \/ ReleaseDone
           \/ UNCHANGED vars
    PROVE  PipelineInOrder'
<1>1. /\ q' = q /\ harq' = harq /\ out_pkts' = out_pkts /\ admitted' = admitted
      /\ sent' = sent /\ verdict' = verdict /\ bits' = bits
      /\ pc' = pc \/ (pc \notin {"get", "push"} /\ pc' \notin {"get", "push"})
      BY DEF Capture, Ingest, IngestDone, AdmitDone, ExpireDone, ReleaseDone, vars,
             stages, buffer, grant, release, history
<1>2. InFlightOrder'
      BY <1>1 DEF PipelineInOrder, InFlightOrder
<1>3. ReleaseOrder'
      BY <1>1 DEF PipelineInOrder, ReleaseOrder, Live
<1>4. Accounting'
      BY <1>1 DEF PipelineInOrder, Accounting
<1>5. DecidedOrder'
      BY <1>1 DEF PipelineInOrder, DecidedOrder, Live, Accepted
<1>. QED  BY <1>2, <1>3, <1>4, <1>5 DEF PipelineInOrder

(* A step of time changes ages and delays only. *)
LEMMA StepOrder ==
    ASSUME TypeOK, PipelineInOrder, Step
    PROVE  PipelineInOrder'
<1>1. /\ DOMAIN q' = DOMAIN q
      /\ \A i \in DOMAIN q : q'[i].uid = q[i].uid /\ q'[i].size = q[i].size
  <2>. DEFINE age(i) == IF q[i].age > Budget THEN q[i].age ELSE q[i].age + 1
  <2>1. q' = [i \in DOMAIN q |-> [q[i] EXCEPT !.age = age(i)]]
        BY Zenon DEF Step
  <2>. HIDE DEF age
  <2>2. \A i \in DOMAIN q : q[i] \in BufferEntry
        BY Fields
  <2>. QED  BY <2>1, <2>2 DEF BufferEntry
<1>2. /\ DOMAIN out_pkts' = DOMAIN out_pkts
      /\ \A i \in DOMAIN out_pkts :
            /\ out_pkts'[i].uid = out_pkts[i].uid
            /\ out_pkts'[i].size = out_pkts[i].size
            /\ out_pkts'[i].erase = out_pkts[i].erase
      BY Fields, LaterType, Zenon DEF Step
<1>3. /\ harq' = harq /\ harq.pkts = <<>> /\ admitted' = admitted
      /\ sent' = sent /\ verdict' = verdict
      BY DEF Step, stages, grant, history, PipelineInOrder, InFlightOrder
<1>4. InFlightOrder'
      BY <1>1, <1>3 DEF PipelineInOrder, InFlightOrder
<1>5. ReleaseOrder'
      BY <1>1, <1>2, <1>3 DEF PipelineInOrder, ReleaseOrder, Live
<1>6. Accounting'
      BY <1>1, <1>2, <1>3 DEF PipelineInOrder, Accounting
<1>7. DecidedOrder'
      BY <1>1, <1>2, <1>3 DEF PipelineInOrder, DecidedOrder, Live, Accepted
<1>. QED  BY <1>4, <1>5, <1>6, <1>7 DEF PipelineInOrder

(* A grant starts with an empty block. *)
LEMMA HandleOrder ==
    ASSUME PipelineInOrder, NEW g \in Grants, NEW d \in Delays, Handle(g, d)
    PROVE  PipelineInOrder'
<1>1. /\ q' = q /\ harq'.pkts = <<>> /\ harq.pkts = <<>> /\ out_pkts' = out_pkts
      /\ admitted' = admitted /\ sent' = sent /\ verdict' = verdict
      BY DEF Handle, NoHarq, stages, buffer, release, history, PipelineInOrder, InFlightOrder
<1>2. InFlightOrder'
      BY <1>1 DEF PipelineInOrder, InFlightOrder
<1>3. ReleaseOrder'
      BY <1>1 DEF PipelineInOrder, ReleaseOrder, Live
<1>4. Accounting'
      BY <1>1 DEF PipelineInOrder, Accounting
<1>5. DecidedOrder'
      BY <1>1 DEF PipelineInOrder, DecidedOrder, Live, Accepted
<1>. QED  BY <1>2, <1>3, <1>4, <1>5 DEF PipelineInOrder

(* The packet admitted was captured after all those in flight. *)
LEMMA AdmitOrder ==
    ASSUME TypeOK, PipelineInOrder, Admit
    PROVE  PipelineInOrder'
<1>. DEFINE u == admitted + 1
            n == Len(q) + 1
<1>1. /\ u \in Pkts /\ Size[u] \in Nat /\ Size[u] > 0 /\ admitted \in Nat
      /\ u \in Nat /\ admitted' = u /\ admitted < u
      BY NumPktsAssumption, SizeAssumption DEF Admit, TypeOK, Pkts
<1>2. /\ DOMAIN q' = DOMAIN q \cup {n} /\ n \notin DOMAIN q /\ n \in Nat
      /\ \A i \in DOMAIN q : i \in Nat /\ i < n /\ q'[i] = q[i]
      /\ q'[n].uid = u /\ q'[n].size = Size[u]
  <2>. DEFINE e == [uid |-> u, size |-> Size[u], age |-> 0]
  <2>1. e \in BufferEntry
        BY <1>1 DEF BufferEntry
  <2>2. q' = Append(q, e) /\ q \in Seq(BufferEntry)
        BY Fields DEF Admit
  <2>3. e.uid = u /\ e.size = Size[u]
        OBVIOUS
  <2>. HIDE DEF e, u
  <2>. QED  BY <2>1, <2>2, <2>3, Appended
<1>3. /\ harq' = harq /\ harq.pkts = <<>> /\ out_pkts' = out_pkts
      /\ sent' = sent /\ verdict' = verdict
      BY DEF Admit, grant, release, history, PipelineInOrder, InFlightOrder
<1>4. /\ sent[u] = 0
      /\ \A v \in Pkts : v \in Nat /\ (verdict[v] # "none" => v <= admitted)
      BY <1>1, Fields DEF PipelineInOrder, Accounting, DecidedOrder
<1>5. /\ \A i \in DOMAIN q : q[i].uid \in Nat /\ q[i].uid <= admitted
      /\ \A i \in DOMAIN out_pkts : out_pkts[i].uid \in Nat /\ out_pkts[i].uid <= admitted
      BY <1>4, Fields DEF PipelineInOrder, InFlightOrder, ReleaseOrder
<1>. HIDE DEF u, n
<1>6. InFlightOrder'
  <2>1. \A i, j \in DOMAIN q' : i < j => q'[i].uid < q'[j].uid
        BY <1>1, <1>2, <1>5 DEF PipelineInOrder, InFlightOrder
  <2>2. \A i \in DOMAIN q' : q'[i].uid <= admitted'
        BY <1>1, <1>2, <1>5
  <2>. QED  BY <1>3, <2>1, <2>2 DEF InFlightOrder
<1>7. ReleaseOrder'
  <2>1. \A i \in DOMAIN out_pkts : Live(i) =>
          \A j \in DOMAIN q' : out_pkts[i].uid <= q'[j].uid
        BY <1>1, <1>2, <1>5 DEF PipelineInOrder, ReleaseOrder
  <2>2. \A i \in DOMAIN out_pkts : out_pkts[i].uid <= admitted'
        BY <1>1, <1>5
  <2>. QED  BY <1>3, <2>1, <2>2 DEF PipelineInOrder, ReleaseOrder, Live
<1>8. Accounting'
  <2>1. \A j \in DOMAIN q' : q'[j].size + sent[q'[j].uid] = Size[q'[j].uid]
        BY <1>1, <1>2, <1>4 DEF PipelineInOrder, Accounting
  <2>2. \A i \in DOMAIN out_pkts : \A j \in DOMAIN q' :
          q'[j].uid = out_pkts[i].uid => out_pkts[i].size <= sent[q'[j].uid]
        BY <1>1, <1>2, <1>5 DEF PipelineInOrder, Accounting
  <2>3. \A v \in Pkts : v > admitted' => sent[v] = 0
        BY <1>1, <1>4 DEF PipelineInOrder, Accounting
  <2>. QED  BY <1>3, <2>1, <2>2, <2>3 DEF PipelineInOrder, Accounting
<1>9. DecidedOrder'
  <2>1. ASSUME NEW v \in Pkts, verdict[v] # "none"
        PROVE  /\ v <= admitted'
               /\ \A i \in DOMAIN q' : q'[i].uid # v /\ (Accepted(v) => v <= q'[i].uid)
        BY <1>1, <1>2, <1>4, <2>1 DEF PipelineInOrder, DecidedOrder
  <2>. QED  BY <1>3, <2>1 DEF PipelineInOrder, DecidedOrder, Live, Accepted
<1>. QED  BY <1>6, <1>7, <1>8, <1>9 DEF PipelineInOrder

(* The packet that expires is the first of the buffer. *)
LEMMA ExpireOrder ==
    ASSUME TypeOK, PipelineInOrder, Expire
    PROVE  PipelineInOrder'
<1>. DEFINE u == Head(q).uid
            size == Head(q).size
<1>1. /\ 1 \in DOMAIN q /\ u = q[1].uid /\ size = q[1].size
      /\ \A i \in DOMAIN q' : i \in Nat /\ i + 1 \in DOMAIN q /\ i + 1 > 1 /\ q'[i] = q[i + 1]
  <2>1. q \in Seq(BufferEntry) /\ q # <<>> /\ q' = Tail(q)
        BY Fields DEF Expire
  <2>2. 1 \in DOMAIN q /\ Head(q) = q[1]
        BY <2>1, HeadTail
  <2>3. \A i \in DOMAIN Tail(q) : i \in Nat /\ i + 1 \in DOMAIN q /\ Tail(q)[i] = q[i + 1]
        BY <2>1, HeadTail
  <2>4. \A i \in DOMAIN Tail(q) : i > 0
        BY <2>1
  <2>. QED  BY <2>1, <2>2, <2>3, <2>4
<1>2. /\ u \in Pkts /\ u \in Nat /\ size \in Nat /\ size > 0
      /\ \A i \in DOMAIN q' : q'[i].uid \in Nat /\ u < q'[i].uid
      BY <1>1, Fields DEF PipelineInOrder, InFlightOrder
<1>3. /\ harq' = harq /\ harq.pkts = <<>> /\ admitted' = admitted /\ verdict' = verdict
      BY DEF Expire, grant, stages, PipelineInOrder, InFlightOrder
<1>4. /\ sent' = [sent EXCEPT ![u] = sent[u] + size]
      /\ sent[u] + size = Size[u]
      /\ verdict[u] = "none"
      /\ \A v \in Pkts : sent[v] \in Nat
      /\ u <= admitted
  <2>1. sent' = [sent EXCEPT ![u] = sent[u] + size]
        BY Zenon DEF Expire
  <2>2. sent[u] + size = Size[u]
        BY <1>1, <1>2, Fields DEF PipelineInOrder, Accounting
  <2>3. verdict[u] = "none"
        BY <1>1, <1>2 DEF PipelineInOrder, DecidedOrder
  <2>4. u <= admitted
        BY <1>1 DEF PipelineInOrder, InFlightOrder
  <2>. QED  BY <2>1, <2>2, <2>3, <2>4, Fields
<1>5. Dropped(out_pkts', u, size)
  <2>1. out_pkts' = WithoutData(u, size) /\ out_pkts \in Seq(OutEntry)
        BY Fields DEF Expire
  <2>. HIDE DEF u, size
  <2>. QED  BY <1>2, <2>1, WithoutDataIs, Zenon
<1>6. \A i \in DOMAIN out_pkts' : out_pkts'[i].uid # u =>
          i \in DOMAIN out_pkts /\ out_pkts'[i] = out_pkts[i]
      BY <1>5 DEF Dropped, OneMore, OneLonger
<1>7. \A i, j \in DOMAIN out_pkts' : out_pkts'[i].uid = u /\ out_pkts'[j].uid = u => i = j
      BY <1>5, ZenonT(40) DEF Dropped, OneMore, OneLonger, PipelineInOrder, ReleaseOrder
<1>8. \A i \in DOMAIN out_pkts' : out_pkts'[i].uid = u => out_pkts'[i].erase
      BY <1>5, <1>6 DEF Dropped, OneMore, OneLonger, PipelineInOrder, ReleaseOrder
<1>9. \A i \in DOMAIN out_pkts : out_pkts[i].uid \in Nat /\ out_pkts[i].size \in Nat
      BY Fields
<1>. HIDE DEF u, size
<1>10. InFlightOrder'
  <2>1. \A i, j \in DOMAIN q' : i < j => q'[i].uid < q'[j].uid
        BY <1>1 DEF PipelineInOrder, InFlightOrder
  <2>2. \A i \in DOMAIN q' : q'[i].uid <= admitted
        BY <1>1 DEF PipelineInOrder, InFlightOrder
  <2>. QED  BY <1>3, <2>1, <2>2 DEF InFlightOrder
<1>11. ReleaseOrder'
  <2>1. \A i, j \in DOMAIN out_pkts' : out_pkts'[i].uid = out_pkts'[j].uid => i = j
        BY <1>6, <1>7 DEF PipelineInOrder, ReleaseOrder
  <2>2. \A i, j \in DOMAIN out_pkts' :
          i < j /\ ~out_pkts'[i].erase /\ ~out_pkts'[j].erase => out_pkts'[i].uid < out_pkts'[j].uid
        BY <1>6, <1>8 DEF PipelineInOrder, ReleaseOrder, Live
  <2>3. \A i \in DOMAIN out_pkts' : out_pkts'[i].uid <= admitted
        BY <1>4, <1>6 DEF PipelineInOrder, ReleaseOrder
  <2>4. \A i \in DOMAIN out_pkts' : ~out_pkts'[i].erase =>
          \A j \in DOMAIN q' : out_pkts'[i].uid <= q'[j].uid
        BY <1>1, <1>6, <1>8 DEF PipelineInOrder, ReleaseOrder, Live
  <2>. QED  BY <1>3, <2>1, <2>2, <2>3, <2>4 DEF ReleaseOrder, Live
<1>12. Accounting'
  <2>1. /\ sent'[u] = Size[u]
        /\ \A v \in Pkts : v # u => sent'[v] = sent[v]
        BY <1>2, <1>4 DEF TypeOK
  <2>2. \A v \in Pkts : sent'[v] <= Size[v]
        BY <1>2, <1>4, <2>1 DEF PipelineInOrder, Accounting
  <2>3. \A j \in DOMAIN q' : q'[j].uid \in Pkts /\ q'[j].uid # u
        BY <1>1, <1>2, Fields
  <2>4. \A j \in DOMAIN q' : q'[j].size + sent'[q'[j].uid] = Size[q'[j].uid]
        BY <1>1, <2>1, <2>3 DEF PipelineInOrder, Accounting
  <2>5. \A i \in DOMAIN out_pkts' : \A j \in DOMAIN q' : q'[j].uid = out_pkts'[i].uid =>
          out_pkts'[i].size <= sent'[q'[j].uid]
        BY <1>1, <1>6, <2>1, <2>3 DEF PipelineInOrder, Accounting
  <2>6. \A v \in Pkts : v > admitted => sent'[v] = 0
        BY <1>2, <1>4, <2>1, Fields DEF PipelineInOrder, Accounting
  <2>. QED  BY <1>3, <2>2, <2>4, <2>5, <2>6 DEF Accounting
<1>13. DecidedOrder'
  <2>1. ASSUME NEW v \in Pkts, verdict[v] # "none"
        PROVE  /\ v <= admitted
               /\ \A i \in DOMAIN q' : q'[i].uid # v /\ (Accepted(v) => v <= q'[i].uid)
               /\ \A i \in DOMAIN out_pkts' :
                    /\ out_pkts'[i].uid # v
                    /\ Accepted(v) /\ ~out_pkts'[i].erase => v <= out_pkts'[i].uid
    <3>1. v <= admitted
          BY <2>1 DEF PipelineInOrder, DecidedOrder
    <3>2. \A i \in DOMAIN q' : q'[i].uid # v /\ (Accepted(v) => v <= q'[i].uid)
          BY <1>1, <2>1 DEF PipelineInOrder, DecidedOrder
    <3>3. \A i \in DOMAIN out_pkts' :
                    /\ out_pkts'[i].uid # v
                    /\ Accepted(v) /\ ~out_pkts'[i].erase => v <= out_pkts'[i].uid
          BY <1>4, <1>6, <1>8, <2>1 DEF PipelineInOrder, DecidedOrder, Live
    <3>. QED  BY <3>1, <3>2, <3>3
  <2>. QED  BY <1>3, <2>1 DEF DecidedOrder, Live, Accepted
<1>. QED  BY <1>10, <1>11, <1>12, <1>13 DEF PipelineInOrder

(* The refused packet is younger than everything in flight, and erased. *)
LEMMA TailDropOrder ==
    ASSUME TypeOK, PipelineInOrder, TailDrop
    PROVE  PipelineInOrder'
<1>. DEFINE u == admitted + 1
            e == Entry(u, Size[u], 0, FALSE, TRUE)
            s == Append(out_pkts, e)
<1>1. /\ u \in Pkts /\ u \in Nat /\ Size[u] \in Nat /\ admitted \in Nat
      /\ admitted' = u /\ admitted < u
      BY NumPktsAssumption, SizeAssumption DEF TailDrop, TypeOK, Pkts
<1>2. /\ q' = q /\ harq' = harq /\ harq.pkts = <<>> /\ verdict' = verdict /\ sent' = sent
      BY DEF TailDrop, buffer, grant, PipelineInOrder, InFlightOrder
<1>3. e \in OutEntry /\ e.uid = u /\ e.erase
      BY <1>1, EntryType DEF Entry
<1>4. out_pkts' \in Sortings(s)
      BY Zenon DEF TailDrop
<1>. HIDE DEF e
<1>5. /\ s \in Seq(OutEntry)
      /\ \A i \in DOMAIN s : s[i] = e \/ \E k \in DOMAIN out_pkts : s[i] = out_pkts[k]
      /\ \A i, j \in DOMAIN s : i = j \/ s[i] # e \/ s[j] # e
      /\ \A i, j \in DOMAIN s : s[i].uid = s[j].uid => i = j
  <2>. DEFINE n == Len(out_pkts) + 1
  <2>1. /\ s \in Seq(OutEntry)
        /\ DOMAIN s = DOMAIN out_pkts \cup {n}
        /\ \A i \in DOMAIN out_pkts : s[i] = out_pkts[i]
        /\ s[n] = e
        BY <1>3, Fields, Appended
  <2>. HIDE DEF s, n, u
  <2>2. \A i \in DOMAIN out_pkts : out_pkts[i].uid # e.uid
        BY <1>1, <1>3, Fields DEF PipelineInOrder, ReleaseOrder, Pkts
  <2>. QED  BY <2>1, <2>2 DEF PipelineInOrder, ReleaseOrder
<1>. HIDE DEF s
<1>6. /\ \A i \in DOMAIN out_pkts' :
            out_pkts'[i] = e \/ \E k \in DOMAIN out_pkts : out_pkts'[i] = out_pkts[k]
      /\ \A i, j \in DOMAIN out_pkts' : out_pkts'[i].uid = out_pkts'[j].uid => i = j
      /\ \A i, j \in DOMAIN out_pkts' : i < j => out_pkts'[i].uid < out_pkts'[j].uid
      BY <1>4, <1>5, SortedOrder
<1>7. \A i \in DOMAIN q : q[i].uid \in Nat /\ q[i].uid <= admitted
      BY Fields DEF PipelineInOrder, InFlightOrder, Pkts
<1>8. \A i \in DOMAIN out_pkts : out_pkts[i].uid \in Nat /\ out_pkts[i].uid <= admitted
      BY Fields DEF PipelineInOrder, ReleaseOrder, Pkts
<1>9. \A v \in Pkts : v \in Nat /\ (verdict[v] # "none" => v <= admitted)
      BY Fields DEF PipelineInOrder, DecidedOrder
<1>. HIDE DEF u
<1>10. InFlightOrder'
  <2>1. \A i \in DOMAIN q : q[i].uid <= admitted'
        BY <1>1, <1>7
  <2>. QED  BY <1>2, <2>1 DEF PipelineInOrder, InFlightOrder
<1>11. ReleaseOrder'
  <2>1. \A i \in DOMAIN out_pkts' : out_pkts'[i].uid <= admitted'
        BY <1>1, <1>3, <1>6, <1>8
  <2>2. \A i \in DOMAIN out_pkts' : ~out_pkts'[i].erase =>
          \A j \in DOMAIN q : out_pkts'[i].uid <= q[j].uid
        BY <1>3, <1>6 DEF PipelineInOrder, ReleaseOrder, Live
  <2>. QED  BY <1>2, <1>6, <2>1, <2>2 DEF ReleaseOrder, Live
<1>12. Accounting'
  <2>1. \A i \in DOMAIN out_pkts' : \A j \in DOMAIN q : q[j].uid = out_pkts'[i].uid =>
          out_pkts'[i].size <= sent[q[j].uid]
        BY <1>1, <1>3, <1>6, <1>7 DEF PipelineInOrder, Accounting
  <2>2. \A v \in Pkts : v > admitted' => sent[v] = 0
        BY <1>1, <1>9 DEF PipelineInOrder, Accounting
  <2>. QED  BY <1>2, <2>1, <2>2 DEF PipelineInOrder, Accounting
<1>13. DecidedOrder'
  <2>1. ASSUME NEW v \in Pkts, verdict[v] # "none"
        PROVE  /\ v <= admitted'
               /\ \A i \in DOMAIN out_pkts' :
                    /\ out_pkts'[i].uid # v
                    /\ Accepted(v) /\ ~out_pkts'[i].erase => v <= out_pkts'[i].uid
    <3>1. v <= admitted'
          BY <1>1, <1>9, <2>1
    <3>2. ASSUME NEW i \in DOMAIN out_pkts'
          PROVE  /\ out_pkts'[i].uid # v
                 /\ Accepted(v) /\ ~out_pkts'[i].erase => v <= out_pkts'[i].uid
      <4>1. CASE out_pkts'[i] = e
            BY <1>1, <1>3, <1>9, <2>1, <4>1
      <4>2. CASE \E k \in DOMAIN out_pkts : out_pkts'[i] = out_pkts[k]
            BY <2>1, <4>2 DEF PipelineInOrder, DecidedOrder, Live
      <4>. QED  BY <1>6, <4>1, <4>2
    <3>. QED  BY <3>1, <3>2
  <2>. QED  BY <1>2, <2>1 DEF PipelineInOrder, DecidedOrder, Live, Accepted
<1>. QED  BY <1>10, <1>11, <1>12, <1>13 DEF PipelineInOrder

(* A packet leaves out_pkts complete, so that no part of it is behind; when *)
(* it is accepted it is the oldest of those that may still be.              *)
LEMMA VerdictOrder ==
    ASSUME TypeOK, PipelineInOrder, ReleaseDrop \/ ReleaseAccept
    PROVE  PipelineInOrder'
<1>0. PICK u \in Pkts : u = Head(out_pkts).uid
      BY Fields, HeadTail, EntryFields DEF ReleaseDrop, ReleaseAccept, DropFirst, AcceptFirst
<1>1. /\ 1 \in DOMAIN out_pkts /\ u = out_pkts[1].uid /\ u \in Nat
      /\ out_pkts[1].size = Size[u]
      /\ \A i \in DOMAIN out_pkts' : /\ i \in Nat /\ i + 1 \in DOMAIN out_pkts /\ i + 1 > 1
                                     /\ out_pkts'[i] = out_pkts[i + 1]
  <2>1. out_pkts \in Seq(OutEntry) /\ out_pkts # <<>> /\ out_pkts' = Tail(out_pkts)
        BY Fields DEF ReleaseDrop, ReleaseAccept, DropFirst, AcceptFirst, GiveVerdict
  <2>2. 1 \in DOMAIN out_pkts /\ Head(out_pkts) = out_pkts[1] /\ out_pkts[1] \in OutEntry
        BY <2>1, HeadTail
  <2>3. \A i \in DOMAIN Tail(out_pkts) :
          i \in Nat /\ i + 1 \in DOMAIN out_pkts /\ Tail(out_pkts)[i] = out_pkts[i + 1]
        BY <2>1, HeadTail
  <2>4. \A i \in DOMAIN Tail(out_pkts) : i > 0
        BY <2>1
  <2>5. Head(out_pkts).size = Size[u]
        BY <1>0 DEF ReleaseDrop, ReleaseAccept, DropFirst, AcceptFirst, DropDue, AcceptDue, IsReady
  <2>. QED  BY <1>0, <2>1, <2>2, <2>3, <2>4, <2>5, Fields
<1>2. /\ q' = q /\ harq' = harq /\ harq.pkts = <<>> /\ admitted' = admitted
      /\ sent' = sent /\ pc' = pc
      BY DEF ReleaseDrop, ReleaseAccept, stages, buffer, grant, history,
             PipelineInOrder, InFlightOrder
<1>3. /\ \A v \in Pkts : v # u => verdict'[v] = verdict[v]
      /\ Accepted(u)' => Live(1)
  <2>1. CASE ReleaseDrop
    <3>1. verdict' = [verdict EXCEPT ![u] = "drop"]
          BY <1>0, <2>1 DEF ReleaseDrop, DropFirst, GiveVerdict
    <3>. QED  BY <3>1 DEF Accepted, TypeOK, ReleaseTypeOK
  <2>2. CASE ReleaseAccept
    <3>1. ~Head(out_pkts).erase
          BY <2>2 DEF ReleaseAccept, AcceptFirst, AcceptDue
    <3>2. Head(out_pkts) = out_pkts[1]
          BY <2>2, Fields, HeadTail DEF ReleaseAccept, AcceptFirst
    <3>3. \A v \in Pkts : v # u => verdict'[v] = verdict[v]
          BY <1>0, <2>2 DEF ReleaseAccept, AcceptFirst, GiveVerdict, TypeOK, ReleaseTypeOK
    <3>. QED  BY <3>1, <3>2, <3>3, Zenon DEF Live
  <2>. QED  BY <2>1, <2>2
<1>4. InFlightOrder'
      BY <1>2 DEF PipelineInOrder, InFlightOrder
<1>5. ReleaseOrder'
  <2>1. \A i, j \in DOMAIN out_pkts' : out_pkts'[i].uid = out_pkts'[j].uid => i = j
        BY <1>1 DEF PipelineInOrder, ReleaseOrder
  <2>2. \A i, j \in DOMAIN out_pkts' :
          i < j /\ ~out_pkts'[i].erase /\ ~out_pkts'[j].erase => out_pkts'[i].uid < out_pkts'[j].uid
        BY <1>1 DEF PipelineInOrder, ReleaseOrder, Live
  <2>3. \A i \in DOMAIN out_pkts' : out_pkts'[i].uid <= admitted
        BY <1>1 DEF PipelineInOrder, ReleaseOrder
  <2>4. \A i \in DOMAIN out_pkts' : ~out_pkts'[i].erase =>
          \A j \in DOMAIN q : out_pkts'[i].uid <= q[j].uid
        BY <1>1 DEF PipelineInOrder, ReleaseOrder, Live
  <2>. QED  BY <1>2, <2>1, <2>2, <2>3, <2>4 DEF ReleaseOrder, Live
<1>6. Accounting'
  <2>1. \A i \in DOMAIN out_pkts' : \A j \in DOMAIN q : q[j].uid = out_pkts'[i].uid =>
          out_pkts'[i].size <= sent[q[j].uid]
        BY <1>1 DEF PipelineInOrder, Accounting
  <2>. QED  BY <1>2, <2>1 DEF PipelineInOrder, Accounting
<1>7. DecidedOrder'
  <2>1. ASSUME NEW v \in Pkts, verdict'[v] # "none"
        PROVE  /\ v <= admitted
               /\ \A i \in DOMAIN q : q[i].uid # v /\ (Accepted(v)' => v <= q[i].uid)
               /\ \A i \in DOMAIN out_pkts' :
                    /\ out_pkts'[i].uid # v
                    /\ Accepted(v)' /\ ~out_pkts'[i].erase => v <= out_pkts'[i].uid
    <3>1. CASE v # u
      <4>1. verdict[v] # "none" /\ (Accepted(v)' => Accepted(v))
            BY <1>3, <2>1, <3>1 DEF Accepted
      <4>2. \A i \in DOMAIN out_pkts' :
                    /\ out_pkts'[i].uid # v
                    /\ Accepted(v) /\ ~out_pkts'[i].erase => v <= out_pkts'[i].uid
            BY <1>1, <4>1 DEF PipelineInOrder, DecidedOrder, Live
      <4>. QED  BY <4>1, <4>2 DEF PipelineInOrder, DecidedOrder
    <3>2. CASE v = u
      <4>1. u <= admitted
            BY <1>1 DEF PipelineInOrder, ReleaseOrder
      <4>2. \A i \in DOMAIN q : q[i].uid # u
        <5>. SUFFICES ASSUME NEW i \in DOMAIN q, q[i].uid = u PROVE FALSE
             OBVIOUS
        <5>1. q[i].size + sent[u] = Size[u] /\ Size[u] <= sent[u]
              BY <1>1 DEF PipelineInOrder, Accounting
        <5>2. q[i].size \in Nat /\ q[i].size > 0 /\ sent[u] \in Nat /\ Size[u] \in Nat
              BY Fields
        <5>. QED  BY <5>1, <5>2
      <4>3. Accepted(u)' => \A i \in DOMAIN q : u <= q[i].uid
            BY <1>1, <1>3 DEF PipelineInOrder, ReleaseOrder
      <4>4. \A i \in DOMAIN out_pkts' : out_pkts'[i].uid # u
            BY <1>1 DEF PipelineInOrder, ReleaseOrder
      <4>5. Accepted(u)' => \A i \in DOMAIN out_pkts' :
              ~out_pkts'[i].erase => u <= out_pkts'[i].uid
        <5>1. \A i \in DOMAIN out_pkts' : Accepted(u)' /\ ~out_pkts'[i].erase
                => Live(1) /\ Live(i + 1) /\ 1 < i + 1 /\ i + 1 \in DOMAIN out_pkts
              BY <1>1, <1>3 DEF Live
        <5>2. \A i \in DOMAIN out_pkts' : out_pkts'[i].uid \in Nat /\ u \in Nat
              BY <1>1, Fields
        <5>. QED  BY <1>1, <5>1, <5>2 DEF PipelineInOrder, ReleaseOrder
      <4>. QED  BY <3>2, <4>1, <4>2, <4>3, <4>4, <4>5
    <3>. QED  BY <3>1, <3>2
  <2>. QED  BY <1>2, <2>1 DEF DecidedOrder, Live, Accepted
<1>. QED  BY <1>4, <1>5, <1>6, <1>7 DEF PipelineInOrder

(* The part taken for the block is of the first packet of the buffer, which *)
(* is not in the block yet.                                                 *)
LEMMA TakenIs ==
    ASSUME TypeOK, PipelineInOrder, TakeWhole \/ TakeFragment
    PROVE  \E u \in Pkts, m, n \in Nat :
             /\ 1 \in DOMAIN q /\ u = q[1].uid /\ m <= q[1].size
             /\ DOMAIN harq'.pkts = DOMAIN harq.pkts \cup {n}
             /\ n \notin DOMAIN harq.pkts
             /\ \A i \in DOMAIN harq.pkts : i < n /\ harq'.pkts[i] = harq.pkts[i]
             /\ harq'.pkts[n].uid = u /\ harq'.pkts[n].size = m
             /\ sent'[u] = sent[u] + m
             /\ \A v \in Pkts : v # u => sent'[v] = sent[v]
             /\ TakeWhole =>
                  /\ m = q[1].size
                  /\ \A i \in DOMAIN q' : i \in Nat /\ i + 1 \in DOMAIN q /\ i + 1 > 1 /\ q'[i] = q[i + 1]
             /\ TakeFragment =>
                  /\ DOMAIN q' = DOMAIN q
                  /\ \A i \in DOMAIN q : i # 1 => q'[i] = q[i]
                  /\ q'[1].uid = u /\ q'[1].size = q[1].size - m
<1>0. /\ q \in Seq(BufferEntry) /\ q # <<>> /\ harq.pkts \in Seq(BlockEntry)
      /\ bits \in Nat \ {0}
      BY Fields DEF TakeWhole, TakeFragment
<1>1. 1 \in DOMAIN q /\ Head(q) = q[1] /\ q[1] \in BufferEntry
      BY <1>0, HeadTail
<1>2. PICK u \in Pkts : u = q[1].uid
      BY <1>1 DEF BufferEntry
<1>3. q[1].size \in Nat \ {0}
      BY <1>1 DEF BufferEntry
<1>4. PICK m \in Nat \ {0} :
        /\ m <= q[1].size
        /\ harq' = InHarq(u, m)
        /\ sent' = [sent EXCEPT ![u] = sent[u] + m]
        /\ TakeWhole => m = q[1].size
        /\ TakeFragment => m = bits
  <2>1. CASE TakeWhole
    <3>1. /\ harq' = InHarq(u, q[1].size)
          /\ sent' = [sent EXCEPT ![u] = sent[u] + q[1].size]
          BY <1>1, <1>2, <2>1 DEF TakeWhole
    <3>2. q[1].size = bits \/ ~TakeFragment
          BY <1>1, <2>1 DEF TakeWhole, TakeFragment
    <3>3. q[1].size <= q[1].size
          BY <1>3
    <3>. QED  BY <1>3, <3>1, <3>2, <3>3, Zenon
  <2>2. CASE TakeFragment
    <3>1. /\ harq' = InHarq(u, bits)
          /\ sent' = [sent EXCEPT ![u] = sent[u] + bits]
          BY <1>1, <1>2, <2>2 DEF TakeFragment
    <3>2. bits <= q[1].size /\ ~TakeWhole
          BY <1>0, <1>1, <1>3, <2>2 DEF TakeWhole, TakeFragment, Fits
    <3>. QED  BY <1>0, <3>1, <3>2, Zenon
  <2>. QED  BY <2>1, <2>2
<1>5. PICK n \in Nat :
        /\ DOMAIN harq'.pkts = DOMAIN harq.pkts \cup {n}
        /\ n \notin DOMAIN harq.pkts
        /\ \A i \in DOMAIN harq.pkts : i < n /\ harq'.pkts[i] = harq.pkts[i]
        /\ harq'.pkts[n].uid = u /\ harq'.pkts[n].size = m
  <2>. DEFINE b == [uid |-> u, size |-> m]
  <2>1. b \in BlockEntry /\ b.uid = u /\ b.size = m
        BY DEF BlockEntry
  <2>2. harq'.pkts = Append(harq.pkts, b)
        BY <1>4 DEF InHarq, TypeOK
  <2>. HIDE DEF b
  <2>3. Len(harq.pkts) + 1 \in Nat
        BY <1>0
  <2>. QED  BY <1>0, <2>1, <2>2, <2>3, Appended
<1>6. sent'[u] = sent[u] + m /\ \A v \in Pkts : v # u => sent'[v] = sent[v]
      BY <1>4 DEF TypeOK
<1>7. TakeWhole =>
        \A i \in DOMAIN q' : i \in Nat /\ i + 1 \in DOMAIN q /\ i + 1 > 1 /\ q'[i] = q[i + 1]
  <2>. SUFFICES ASSUME TakeWhole
                PROVE  \A i \in DOMAIN q' : i \in Nat /\ i + 1 \in DOMAIN q /\ i + 1 > 1 /\ q'[i] = q[i + 1]
       OBVIOUS
  <2>1. q' = Tail(q)
        BY DEF TakeWhole
  <2>2. \A i \in DOMAIN Tail(q) : i \in Nat /\ i + 1 \in DOMAIN q /\ Tail(q)[i] = q[i + 1]
        BY <1>0, HeadTail
  <2>3. \A i \in DOMAIN Tail(q) : i > 0
        BY <1>0
  <2>. QED  BY <2>1, <2>2, <2>3
<1>8. TakeFragment =>
        /\ DOMAIN q' = DOMAIN q
        /\ \A i \in DOMAIN q : i # 1 => q'[i] = q[i]
        /\ q'[1].uid = u /\ q'[1].size = q[1].size - m
  <2>. SUFFICES ASSUME TakeFragment
                PROVE  /\ DOMAIN q' = DOMAIN q
                       /\ \A i \in DOMAIN q : i # 1 => q'[i] = q[i]
                       /\ q'[1].uid = u /\ q'[1].size = q[1].size - m
       OBVIOUS
  <2>. DEFINE e == [q[1] EXCEPT !.size = @ - bits]
  <2>1. q' = [q EXCEPT ![1] = e]
        BY <1>1 DEF TakeFragment, RequeueFront
  <2>2. e.uid = q[1].uid /\ e.size = q[1].size - bits
        BY <1>1 DEF BufferEntry
  <2>. HIDE DEF e
  <2>. QED  BY <1>0, <1>1, <1>2, <1>4, <2>1, <2>2
<1>. QED  BY <1>1, <1>2, <1>4, <1>5, <1>6, <1>7, <1>8

LEMMA TakeOrder ==
    ASSUME TypeOK, PipelineInOrder, TakeWhole \/ TakeFragment
    PROVE  PipelineInOrder'
<1>1. PICK u \in Pkts, m, n \in Nat :
        /\ 1 \in DOMAIN q /\ u = q[1].uid /\ m <= q[1].size
        /\ DOMAIN harq'.pkts = DOMAIN harq.pkts \cup {n}
        /\ n \notin DOMAIN harq.pkts
        /\ \A i \in DOMAIN harq.pkts : i < n /\ harq'.pkts[i] = harq.pkts[i]
        /\ harq'.pkts[n].uid = u /\ harq'.pkts[n].size = m
        /\ sent'[u] = sent[u] + m
        /\ \A v \in Pkts : v # u => sent'[v] = sent[v]
        /\ TakeWhole =>
             /\ m = q[1].size
             /\ \A i \in DOMAIN q' : i \in Nat /\ i + 1 \in DOMAIN q /\ i + 1 > 1 /\ q'[i] = q[i + 1]
        /\ TakeFragment =>
             /\ DOMAIN q' = DOMAIN q
             /\ \A i \in DOMAIN q : i # 1 => q'[i] = q[i]
             /\ q'[1].uid = u /\ q'[1].size = q[1].size - m
      BY TakenIs, Zenon
<1>2. /\ out_pkts' = out_pkts /\ admitted' = admitted /\ verdict' = verdict /\ pc' = pc
      /\ pc = "get" /\ bits > 0
      /\ TakeFragment => bits' = 0
      BY DEF TakeWhole, TakeFragment, release, stages
<1>3. /\ u \in Nat /\ q[1].size \in Nat
      /\ \A i \in DOMAIN q : i \in Nat /\ q[i].uid \in Nat /\ q[i].uid \in Pkts
      /\ \A i \in DOMAIN harq.pkts : i \in Nat /\ harq.pkts[i].uid \in Nat /\ harq.pkts[i].uid \in Pkts
      /\ \A i \in DOMAIN out_pkts : out_pkts[i].uid \in Nat /\ out_pkts[i].size \in Nat
      /\ \A v \in Pkts : sent[v] \in Nat /\ Size[v] \in Nat
      BY <1>1, Fields
\* the parts of the buffer that stay
<1>4. \A j \in DOMAIN q' : \E k \in DOMAIN q :
        /\ q'[j].uid = q[k].uid
        /\ (q'[j] = q[k] /\ u < q[k].uid) \/ (TakeFragment /\ j = 1 /\ k = 1)
  <2>1. CASE TakeWhole
        BY <1>1, <2>1 DEF PipelineInOrder, InFlightOrder
  <2>2. CASE TakeFragment
    <3>1. \A j \in DOMAIN q : j # 1 => j > 1
          BY Fields
    <3>. QED  BY <1>1, <2>2, <3>1 DEF PipelineInOrder, InFlightOrder
  <2>. QED  BY <2>1, <2>2
\* and of the block that were there
<1>5. \A i \in DOMAIN harq.pkts : harq.pkts[i].uid < u
      BY <1>1, <1>2 DEF PipelineInOrder, InFlightOrder
<1>6. \A i \in DOMAIN harq'.pkts :
        \/ i \in DOMAIN harq.pkts /\ harq'.pkts[i] = harq.pkts[i]
        \/ i = n /\ i \notin DOMAIN harq.pkts
      BY <1>1
<1>7. InFlightOrder'
  <2>1. \A i, j \in DOMAIN q' : i < j => q'[i].uid < q'[j].uid
    <3>1. CASE TakeWhole
          BY <1>1, <3>1 DEF PipelineInOrder, InFlightOrder
    <3>2. CASE TakeFragment
          BY <1>1, <3>2 DEF PipelineInOrder, InFlightOrder
    <3>. QED  BY <3>1, <3>2
  <2>2. \A i, j \in DOMAIN harq'.pkts : i < j => harq'.pkts[i].uid < harq'.pkts[j].uid
        BY <1>1, <1>3, <1>5, <1>6 DEF PipelineInOrder, InFlightOrder
  <2>3. ASSUME NEW i \in DOMAIN harq'.pkts, NEW j \in DOMAIN q'
        PROVE  /\ harq'.pkts[i].uid <= q'[j].uid
               /\ pc' = "get" /\ bits' > 0 => harq'.pkts[i].uid < q'[j].uid
    <3>1. /\ harq'.pkts[i].uid <= u /\ harq'.pkts[i].uid \in Nat
          BY <1>1, <1>3, <1>5, <1>6
    <3>2. /\ u <= q'[j].uid /\ q'[j].uid \in Nat
          /\ u < q'[j].uid \/ bits' = 0
          BY <1>1, <1>2, <1>3, <1>4
    <3>. QED  BY <1>3, <3>1, <3>2
  <2>4. \A j \in DOMAIN q' : q'[j].uid <= admitted'
        BY <1>2, <1>4 DEF PipelineInOrder, InFlightOrder
  <2>5. \A i \in DOMAIN harq'.pkts : harq'.pkts[i].uid <= admitted'
        BY <1>1, <1>2, <1>6 DEF PipelineInOrder, InFlightOrder
  <2>6. pc' \in {"get", "push"}
        BY <1>2
  <2>. QED  BY <2>1, <2>2, <2>3, <2>4, <2>5, <2>6 DEF InFlightOrder
<1>8. ReleaseOrder'
  <2>1. \A i \in DOMAIN out_pkts : Live(i) =>
          /\ \A j \in DOMAIN q' : out_pkts[i].uid <= q'[j].uid
          /\ \A j \in DOMAIN harq'.pkts : out_pkts[i].uid <= harq'.pkts[j].uid
        BY <1>1, <1>4, <1>6 DEF PipelineInOrder, ReleaseOrder
  <2>. QED  BY <1>2, <2>1 DEF PipelineInOrder, ReleaseOrder, Live
<1>9. Accounting'
  <2>0. \A i \in DOMAIN out_pkts : u = out_pkts[i].uid => out_pkts[i].size <= sent[u]
    <3>1. \A i \in DOMAIN out_pkts : q[1].uid = out_pkts[i].uid => out_pkts[i].size <= sent[q[1].uid]
          BY <1>1 DEF PipelineInOrder, Accounting
    <3>. QED  BY <1>1, <3>1
  <2>1. sent[u] + q[1].size = Size[u]
    <3>1. q[1].size + sent[q[1].uid] = Size[q[1].uid]
          BY <1>1 DEF PipelineInOrder, Accounting
    <3>. QED  BY <1>1, <1>3, <3>1
  <2>2. \A v \in Pkts : sent'[v] <= Size[v]
        BY <1>1, <1>3, <2>1 DEF PipelineInOrder, Accounting
  <2>3. ASSUME NEW j \in DOMAIN q'
        PROVE  /\ q'[j].size + sent'[q'[j].uid] = Size[q'[j].uid]
               /\ \A i \in DOMAIN out_pkts : q'[j].uid = out_pkts[i].uid =>
                     out_pkts[i].size <= sent'[q'[j].uid]
    <3>1. PICK k \in DOMAIN q :
            /\ q'[j].uid = q[k].uid
            /\ (q'[j] = q[k] /\ u < q[k].uid) \/ (TakeFragment /\ j = 1 /\ k = 1)
          BY <1>4
    <3>2. CASE q'[j] = q[k] /\ u < q[k].uid
      <4>1. sent'[q[k].uid] = sent[q[k].uid]
            BY <1>1, <1>3, <3>2
      <4>. QED  BY <3>2, <4>1 DEF PipelineInOrder, Accounting
    <3>3. CASE TakeFragment /\ j = 1 /\ k = 1
      <4>1. q'[j].uid = u /\ q'[j].size = q[1].size - m
            BY <1>1, <3>3
      <4>. QED  BY <1>1, <1>3, <2>1, <2>0, <4>1
    <3>. QED  BY <3>1, <3>2, <3>3
  <2>4. ASSUME NEW k \in DOMAIN harq'.pkts
        PROVE  /\ harq'.pkts[k].size <= sent'[harq'.pkts[k].uid]
               /\ \A i \in DOMAIN out_pkts : harq'.pkts[k].uid = out_pkts[i].uid =>
                     out_pkts[i].size + harq'.pkts[k].size <= sent'[harq'.pkts[k].uid]
    <3>1. CASE k \in DOMAIN harq.pkts /\ harq'.pkts[k] = harq.pkts[k]
      <4>1. sent'[harq.pkts[k].uid] = sent[harq.pkts[k].uid]
            BY <1>1, <1>3, <1>5, <3>1
      <4>. QED  BY <3>1, <4>1 DEF PipelineInOrder, Accounting
    <3>2. CASE k = n
      <4>1. harq'.pkts[k].uid = u /\ harq'.pkts[k].size = m /\ sent'[u] = sent[u] + m
            BY <1>1, <3>2
      <4>. QED  BY <1>3, <2>0, <4>1
    <3>. QED  BY <1>6, <3>1, <3>2
  <2>5. ASSUME NEW v \in Pkts, v > admitted
        PROVE  sent'[v] = 0
    <3>1. u <= admitted
          BY <1>1 DEF PipelineInOrder, InFlightOrder
    <3>2. v # u
          BY <1>3, <2>5, <3>1, Fields
    <3>. QED  BY <1>1, <2>5, <3>2 DEF PipelineInOrder, Accounting
  <2>. QED  BY <1>2, <2>2, <2>3, <2>4, <2>5 DEF Accounting
<1>10. DecidedOrder'
  <2>1. ASSUME NEW v \in Pkts, verdict[v] # "none"
        PROVE  /\ \A j \in DOMAIN q' : q'[j].uid # v /\ (Accepted(v) => v <= q'[j].uid)
               /\ \A i \in DOMAIN harq'.pkts :
                     harq'.pkts[i].uid # v /\ (Accepted(v) => v <= harq'.pkts[i].uid)
    <3>1. \A j \in DOMAIN q' : q'[j].uid # v /\ (Accepted(v) => v <= q'[j].uid)
          BY <1>4, <2>1 DEF PipelineInOrder, DecidedOrder
    <3>2. \A i \in DOMAIN harq'.pkts :
            harq'.pkts[i].uid # v /\ (Accepted(v) => v <= harq'.pkts[i].uid)
          BY <1>1, <1>6, <2>1 DEF PipelineInOrder, DecidedOrder
    <3>. QED  BY <3>1, <3>2
  <2>. QED  BY <1>2, <2>1 DEF PipelineInOrder, DecidedOrder, Live, Accepted
<1>. QED  BY <1>7, <1>8, <1>9, <1>10 DEF PipelineInOrder

(* The block is complete: its last part may be of the first packet of the   *)
(* buffer.                                                                  *)
LEMMA GetDoneOrder ==
    ASSUME PipelineInOrder, GetDone
    PROVE  PipelineInOrder'
<1>1. /\ q' = q /\ harq' = harq /\ out_pkts' = out_pkts /\ admitted' = admitted
      /\ sent' = sent /\ verdict' = verdict /\ pc' = "push"
      BY DEF GetDone, stages, release, history
<1>2. InFlightOrder'
      BY <1>1 DEF PipelineInOrder, InFlightOrder
<1>3. ReleaseOrder'
      BY <1>1 DEF PipelineInOrder, ReleaseOrder, Live
<1>4. Accounting'
      BY <1>1 DEF PipelineInOrder, Accounting
<1>5. DecidedOrder'
      BY <1>1 DEF PipelineInOrder, DecidedOrder, Live, Accepted
<1>. QED  BY <1>2, <1>3, <1>4, <1>5 DEF PipelineInOrder

LEMMA PushDoneOrder ==
    ASSUME TypeOK, PipelineInOrder, PushDone
    PROVE  PipelineInOrder'
<1>1. /\ q' = q /\ harq.pkts = <<>> /\ harq'.pkts = <<>> /\ admitted' = admitted
      /\ sent' = sent /\ verdict' = verdict
      BY DEF PushDone, NoHarq, stages, buffer, history
<1>2. /\ \A i \in DOMAIN out_pkts' : \E k \in DOMAIN out_pkts : out_pkts'[i] = out_pkts[k]
      /\ \A i, j \in DOMAIN out_pkts' : out_pkts'[i].uid = out_pkts'[j].uid => i = j
      /\ \A i, j \in DOMAIN out_pkts' : i < j => out_pkts'[i].uid < out_pkts'[j].uid
      BY SortedOrder, Fields DEF PushDone, PipelineInOrder, ReleaseOrder
<1>3. InFlightOrder'
      BY <1>1 DEF PipelineInOrder, InFlightOrder
<1>4. ReleaseOrder'
  <2>1. \A i \in DOMAIN out_pkts' :
          /\ out_pkts'[i].uid <= admitted
          /\ ~out_pkts'[i].erase => \A j \in DOMAIN q : out_pkts'[i].uid <= q[j].uid
        BY <1>2 DEF PipelineInOrder, ReleaseOrder, Live
  <2>. QED  BY <1>1, <1>2, <2>1 DEF ReleaseOrder, Live
<1>5. Accounting'
  <2>1. \A i \in DOMAIN out_pkts' : \A j \in DOMAIN q : q[j].uid = out_pkts'[i].uid =>
          out_pkts'[i].size <= sent[q[j].uid]
        BY <1>2 DEF PipelineInOrder, Accounting
  <2>. QED  BY <1>1, <2>1 DEF PipelineInOrder, Accounting
<1>6. DecidedOrder'
  <2>1. ASSUME NEW v \in Pkts, verdict[v] # "none", NEW i \in DOMAIN out_pkts'
        PROVE  /\ out_pkts'[i].uid # v
               /\ Accepted(v) /\ ~out_pkts'[i].erase => v <= out_pkts'[i].uid
        BY <1>2, <2>1 DEF PipelineInOrder, DecidedOrder, Live
  <2>. QED  BY <1>1, <2>1 DEF PipelineInOrder, DecidedOrder, Live, Accepted
<1>. QED  BY <1>3, <1>4, <1>5, <1>6 DEF PipelineInOrder

(* A part of the block goes to out_pkts, behind or into its packet's entry. *)
LEMMA PushOrder ==
    ASSUME TypeOK, PipelineInOrder, Push
    PROVE  PipelineInOrder'
<1>1. PICK u \in Pkts, m \in Nat :
        /\ 1 \in DOMAIN harq.pkts /\ u = harq.pkts[1].uid /\ m = harq.pkts[1].size
        /\ out_pkts' = WithData(u, m, harq.wait, FALSE)
  <2>1. harq.pkts # <<>> /\ harq.pkts \in Seq(BlockEntry)
        BY Fields DEF Push
  <2>2. 1 \in DOMAIN harq.pkts /\ Head(harq.pkts) = harq.pkts[1]
        BY <2>1, HeadTail
  <2>3. harq.pkts[1].uid \in Pkts /\ harq.pkts[1].size \in Nat
        BY <2>2, Fields
  <2>4. out_pkts' = WithData(harq.pkts[1].uid, harq.pkts[1].size, harq.wait, FALSE)
        BY <2>2, Zenon DEF Push
  <2>. QED  BY <2>2, <2>3, <2>4, Zenon
<1>2. \A i \in DOMAIN harq'.pkts :
        i \in Nat /\ i + 1 \in DOMAIN harq.pkts /\ i + 1 > 1 /\ harq'.pkts[i] = harq.pkts[i + 1]
  <2>1. harq.pkts # <<>> /\ harq.pkts \in Seq(BlockEntry) /\ harq'.pkts = Tail(harq.pkts)
        BY Fields DEF Push, TypeOK
  <2>2. \A i \in DOMAIN Tail(harq.pkts) :
          i \in Nat /\ i + 1 \in DOMAIN harq.pkts /\ Tail(harq.pkts)[i] = harq.pkts[i + 1]
        BY <2>1, HeadTail
  <2>3. \A i \in DOMAIN Tail(harq.pkts) : i > 0
        BY <2>1
  <2>. QED  BY <2>1, <2>2, <2>3
<1>3. /\ q' = q /\ admitted' = admitted /\ sent' = sent /\ verdict' = verdict
      /\ pc' = pc /\ pc = "push"
      BY DEF Push, buffer, stages, history
<1>4. Pushed(out_pkts', u, m)
  <2>1. harq.wait \in Nat /\ out_pkts \in Seq(OutEntry) /\ FALSE \in BOOLEAN
        BY Fields DEF TypeOK
  <2>. QED  BY <1>1, <2>1, WithDataIs, Zenon
<1>5. /\ u \in Nat /\ m > 0
      /\ \A i \in DOMAIN harq'.pkts : harq'.pkts[i].uid \in Nat /\ u < harq'.pkts[i].uid
      BY <1>1, <1>2, Fields DEF PipelineInOrder, InFlightOrder
<1>6. \A i \in DOMAIN out_pkts' :
        \/ i \in DOMAIN out_pkts /\ out_pkts'[i] = out_pkts[i]
        \/ out_pkts'[i].uid = u
      BY <1>4 DEF Pushed, OneMore, OneLonger
<1>7. \A i \in DOMAIN out_pkts : out_pkts[i].uid \in Nat /\ out_pkts[i].size \in Nat /\ i \in Nat
      BY Fields
<1>8. InFlightOrder'
  <2>1. \A i, j \in DOMAIN harq'.pkts : i < j => harq'.pkts[i].uid < harq'.pkts[j].uid
        BY <1>2 DEF PipelineInOrder, InFlightOrder
  <2>2. \A i \in DOMAIN harq'.pkts : harq'.pkts[i].uid <= admitted
        BY <1>2 DEF PipelineInOrder, InFlightOrder
  <2>3. \A i \in DOMAIN harq'.pkts : \A j \in DOMAIN q : harq'.pkts[i].uid <= q[j].uid
        BY <1>2 DEF PipelineInOrder, InFlightOrder
  <2>. QED  BY <1>3, <2>1, <2>2, <2>3 DEF PipelineInOrder, InFlightOrder
<1>9. ReleaseOrder'
  <2>1. \A i, j \in DOMAIN out_pkts' : out_pkts'[i].uid = out_pkts'[j].uid => i = j
    <3>1. ASSUME NEW n \in Nat, OneMore(out_pkts', n, u, m)
          PROVE  \A i, j \in DOMAIN out_pkts' : out_pkts'[i].uid = out_pkts'[j].uid => i = j
          BY <3>1 DEF OneMore, PipelineInOrder, ReleaseOrder
    <3>2. ASSUME NEW k \in DOMAIN out_pkts, OneLonger(out_pkts', k, u, m)
          PROVE  \A i, j \in DOMAIN out_pkts' : out_pkts'[i].uid = out_pkts'[j].uid => i = j
          BY <3>2 DEF OneLonger, PipelineInOrder, ReleaseOrder
    <3>. QED  BY <1>4, <3>1, <3>2 DEF Pushed
  <2>2. \A i, j \in DOMAIN out_pkts' :
          i < j /\ ~out_pkts'[i].erase /\ ~out_pkts'[j].erase => out_pkts'[i].uid < out_pkts'[j].uid
    <3>1. ASSUME NEW n \in Nat, OneMore(out_pkts', n, u, m)
          PROVE  \A i, j \in DOMAIN out_pkts' :
                   i < j /\ ~out_pkts'[i].erase /\ ~out_pkts'[j].erase
                     => out_pkts'[i].uid < out_pkts'[j].uid
      <4>1. \A i \in DOMAIN out_pkts : ~out_pkts[i].erase => out_pkts[i].uid < u
            BY <1>1, <1>5, <1>7, <3>1 DEF PipelineInOrder, ReleaseOrder, Live, OneMore
      <4>. QED  BY <1>7, <3>1, <4>1 DEF PipelineInOrder, ReleaseOrder, Live, OneMore
    <3>2. ASSUME NEW k \in DOMAIN out_pkts, OneLonger(out_pkts', k, u, m),
                 out_pkts'[k].erase = out_pkts[k].erase
          PROVE  \A i, j \in DOMAIN out_pkts' :
                   i < j /\ ~out_pkts'[i].erase /\ ~out_pkts'[j].erase
                     => out_pkts'[i].uid < out_pkts'[j].uid
      <4>1. \A i \in DOMAIN out_pkts :
              out_pkts'[i].uid = out_pkts[i].uid /\ out_pkts'[i].erase = out_pkts[i].erase
            BY <3>2 DEF OneLonger
      <4>. QED  BY <3>2, <4>1 DEF PipelineInOrder, ReleaseOrder, Live, OneLonger
    <3>. QED  BY <1>4, <3>1, <3>2 DEF Pushed
  <2>3. \A i \in DOMAIN out_pkts' : out_pkts'[i].uid <= admitted
        BY <1>1, <1>6 DEF PipelineInOrder, InFlightOrder, ReleaseOrder
  <2>4. ASSUME NEW i \in DOMAIN out_pkts', ~out_pkts'[i].erase
        PROVE  /\ \A j \in DOMAIN q : out_pkts'[i].uid <= q[j].uid
               /\ \A j \in DOMAIN harq'.pkts : out_pkts'[i].uid <= harq'.pkts[j].uid
    <3>1. CASE i \in DOMAIN out_pkts /\ out_pkts'[i] = out_pkts[i]
          BY <1>2, <2>4, <3>1 DEF PipelineInOrder, ReleaseOrder, Live
    <3>2. CASE out_pkts'[i].uid = u
      <4>1. \A j \in DOMAIN q : u <= q[j].uid
            BY <1>1 DEF PipelineInOrder, InFlightOrder
      <4>. QED  BY <1>5, <3>2, <4>1
    <3>. QED  BY <1>6, <3>1, <3>2
  <2>. QED  BY <1>3, <2>1, <2>2, <2>3, <2>4 DEF ReleaseOrder, Live
<1>10. Accounting'
  <2>1. m <= sent[u]
        BY <1>1 DEF PipelineInOrder, Accounting
  <2>2. \A i \in DOMAIN out_pkts : out_pkts[i].uid = u => out_pkts[i].size + m <= sent[u]
        BY <1>1 DEF PipelineInOrder, Accounting
  <2>3. \A i \in DOMAIN out_pkts' : out_pkts'[i].uid = u => out_pkts'[i].size <= sent[u]
    <3>1. ASSUME NEW n \in Nat, OneMore(out_pkts', n, u, m)
          PROVE  \A i \in DOMAIN out_pkts' : out_pkts'[i].uid = u => out_pkts'[i].size <= sent[u]
          BY <2>1, <3>1 DEF OneMore
    <3>2. ASSUME NEW k \in DOMAIN out_pkts, OneLonger(out_pkts', k, u, m)
          PROVE  \A i \in DOMAIN out_pkts' : out_pkts'[i].uid = u => out_pkts'[i].size <= sent[u]
          BY <2>2, <3>2 DEF OneLonger, PipelineInOrder, ReleaseOrder
    <3>. QED  BY <1>4, <3>1, <3>2 DEF Pushed
  <2>4. \A i \in DOMAIN out_pkts' : \A j \in DOMAIN q : q[j].uid = out_pkts'[i].uid =>
          out_pkts'[i].size <= sent[q[j].uid]
        BY <1>6, <2>3 DEF PipelineInOrder, Accounting
  <2>5. \A k \in DOMAIN harq'.pkts :
          /\ harq'.pkts[k].size <= sent[harq'.pkts[k].uid]
          /\ \A i \in DOMAIN out_pkts' : harq'.pkts[k].uid = out_pkts'[i].uid =>
                out_pkts'[i].size + harq'.pkts[k].size <= sent[harq'.pkts[k].uid]
        BY <1>2, <1>5, <1>6 DEF PipelineInOrder, Accounting
  <2>. QED  BY <1>3, <2>4, <2>5 DEF PipelineInOrder, Accounting
<1>11. DecidedOrder'
  <2>1. ASSUME NEW v \in Pkts, verdict[v] # "none"
        PROVE  /\ \A i \in DOMAIN harq'.pkts :
                     harq'.pkts[i].uid # v /\ (Accepted(v) => v <= harq'.pkts[i].uid)
               /\ \A i \in DOMAIN out_pkts' :
                    /\ out_pkts'[i].uid # v
                    /\ Accepted(v) /\ ~out_pkts'[i].erase => v <= out_pkts'[i].uid
    <3>1. \A i \in DOMAIN harq'.pkts :
            harq'.pkts[i].uid # v /\ (Accepted(v) => v <= harq'.pkts[i].uid)
          BY <1>2, <2>1 DEF PipelineInOrder, DecidedOrder
    <3>2. u # v /\ (Accepted(v) => v <= u)
          BY <1>1, <2>1 DEF PipelineInOrder, DecidedOrder
    <3>3. \A i \in DOMAIN out_pkts' :
            /\ out_pkts'[i].uid # v
            /\ Accepted(v) /\ ~out_pkts'[i].erase => v <= out_pkts'[i].uid
          BY <1>6, <2>1, <3>2 DEF PipelineInOrder, DecidedOrder, Live
    <3>. QED  BY <3>1, <3>3
  <2>. QED  BY <1>3, <2>1 DEF PipelineInOrder, DecidedOrder, Live, Accepted
<1>. QED  BY <1>8, <1>9, <1>10, <1>11 DEF PipelineInOrder
-----------------------------------------------------------------------------
LEMMA NextOrder == TypeOK /\ PipelineInOrder /\ [Next]_vars => PipelineInOrder'
<1>. SUFFICES ASSUME TypeOK, PipelineInOrder, [Next]_vars PROVE PipelineInOrder'
     OBVIOUS
<1>1. CASE \/ Capture \/ Ingest \/ IngestDone \/ AdmitDone \/ ExpireDone \/ ReleaseDone
           \/ UNCHANGED vars
      BY <1>1, UntouchedOrder
<1>2. CASE Step
      BY <1>2, StepOrder
<1>3. CASE Admit
      BY <1>3, AdmitOrder
<1>4. CASE TailDrop
      BY <1>4, TailDropOrder
<1>5. CASE Expire
      BY <1>5, ExpireOrder
<1>6. CASE ReleaseDrop \/ ReleaseAccept
      BY <1>6, VerdictOrder
<1>7. CASE \E g \in Grants, d \in Delays : Handle(g, d)
      BY <1>7, HandleOrder
<1>8. CASE TakeWhole \/ TakeFragment
      BY <1>8, TakeOrder
<1>9. CASE GetDone
      BY <1>9, GetDoneOrder
<1>10. CASE Push
      BY <1>10, PushOrder
<1>11. CASE PushDone
      BY <1>11, PushDoneOrder
<1>. QED  BY <1>1, <1>2, <1>3, <1>4, <1>5, <1>6, <1>7, <1>8, <1>9, <1>10, <1>11
          DEF Next, UeStep

(* Buffer, block and out_pkts hold the packets in capture order, the parts  *)
(* of a packet never overtake one another, and nothing is left of a packet  *)
(* whose verdict is given.                                                  *)
THEOREM OrderKept == Safety => []PipelineInOrder
<1>. QED  BY InitType, NextType, InitOrder, NextOrder, PTL DEF Safety

(* A verdict is the first for its packet, and an acceptance is not overtaken. *)
LEMMA VerdictStep ==
    ASSUME TypeOK, PipelineInOrder, ReleaseDrop \/ ReleaseAccept
    PROVE  Fate!Next
<1>1. PICK u \in Pkts : u = Head(out_pkts).uid
      BY Fields, HeadTail, EntryFields DEF ReleaseDrop, ReleaseAccept, DropFirst, AcceptFirst
<1>2. 1 \in DOMAIN out_pkts /\ Head(out_pkts) = out_pkts[1]
  <2>1. out_pkts \in Seq(OutEntry) /\ out_pkts # <<>>
        BY Fields DEF ReleaseDrop, ReleaseAccept, DropFirst, AcceptFirst
  <2>. QED  BY <2>1, HeadTail
<1>3. verdict[u] = "none"
      BY <1>1, <1>2 DEF PipelineInOrder, DecidedOrder
<1>4. u <= captured
  <2>1. u \in Nat /\ u <= admitted
        BY <1>1, <1>2, Fields DEF PipelineInOrder, ReleaseOrder
  <2>. QED  BY <2>1 DEF TypeOK
<1>5. captured' = captured
      BY DEF ReleaseDrop, ReleaseAccept, stages
<1>6. CASE ReleaseDrop
  <2>1. verdict' = [verdict EXCEPT ![u] = "drop"]
        BY <1>1, <1>6 DEF ReleaseDrop, DropFirst, GiveVerdict
  <2>2. Fate!Drop(u)
        BY <1>3, <1>4, <1>5, <2>1 DEF Fate!Drop
  <2>. QED  BY <2>2 DEF Fate!Next
<1>7. CASE ReleaseAccept
  <2>1. PICK f \in {"accept", "accept_ce"} : verdict' = [verdict EXCEPT ![u] = f]
        BY <1>1, <1>7 DEF ReleaseAccept, AcceptFirst, GiveVerdict
  <2>2. Live(1)
        BY <1>2, <1>7, Zenon DEF ReleaseAccept, AcceptFirst, AcceptDue, Live
  <2>3. ASSUME NEW v \in Pkts, v > u PROVE verdict[v] \notin {"accept", "accept_ce"}
    <3>. SUFFICES ASSUME verdict[v] \in {"accept", "accept_ce"} PROVE FALSE
         OBVIOUS
    <3>1. v <= out_pkts[1].uid
          BY <1>2, <2>2 DEF PipelineInOrder, DecidedOrder, Accepted
    <3>2. u \in Nat /\ v \in Nat
          BY Fields
    <3>. QED  BY <1>1, <1>2, <2>3, <3>1, <3>2
  <2>4. Fate!Accept(u)
        BY <1>3, <1>4, <1>5, <2>1, <2>3 DEF Fate!Accept, Fate!Acceptance
  <2>. QED  BY <2>4 DEF Fate!Next
<1>. QED  BY <1>6, <1>7

(* The capture pipeline implements PacketFate: whatever the sizes, grants,  *)
(* delays and losses, no packet gets two verdicts and the accepted packets  *)
(* leave in the order of their capture, with or without order_pkts.         *)
THEOREM VerdictsInOrder == Safety => OneOrderedVerdict
<1>1. Init => Fate!Init
      BY DEF Init, ReleaseInit, Fate!Init
<1>2. TypeOK /\ PipelineInOrder /\ [Next]_vars => [Fate!Next]_Fate!vars
  <2>. SUFFICES ASSUME TypeOK, PipelineInOrder, [Next]_vars
                PROVE  [Fate!Next]_Fate!vars
       OBVIOUS
  <2>1. CASE Capture
    <3>1. captured + 1 \in Pkts /\ captured' = captured + 1 /\ verdict' = verdict
          BY <2>1, NumPktsAssumption DEF Capture, TypeOK, Pkts, release
    <3>. QED  BY <3>1 DEF Fate!Next, Fate!Capture
  <2>2. CASE ReleaseDrop \/ ReleaseAccept
        BY <2>2, VerdictStep
  <2>3. ASSUME ~Capture, ~(ReleaseDrop \/ ReleaseAccept)
        PROVE  captured' = captured /\ verdict' = verdict
        BY <2>3 DEF Next, UeStep, Step, Ingest, IngestDone, Admit, TailDrop, AdmitDone,
                    Expire, ExpireDone, ReleaseDone, Handle, TakeWhole, TakeFragment,
                    GetDone, Push, PushDone, vars, stages, release
  <2>. QED  BY <2>1, <2>2, <2>3 DEF Fate!vars
<1>. QED  BY <1>1, <1>2, TypeCorrect, OrderKept, PTL
          DEF Safety, OneOrderedVerdict, Fate!Spec

-----------------------------------------------------------------------------
(* What becomes of the data: a verdict says what happened to the bits of    *)
(* its packet, no bit is lost or doubled, and nothing that is past the      *)
(* delay budget is left to transmit.                                        *)

(* The buffer is a FIFO, so its first packet is its oldest: when that one   *)
(* has not expired, none has.                                               *)
OldestFirst == \A i, j \in DOMAIN q : i < j => q[i].age >= q[j].age

InBudget ==
    pc \in {"release", "mac", "get", "push"} => \A i \in DOMAIN q : ~Expired(q[i])

(* What is known of a packet before its verdict: a live entry of out_pkts   *)
(* counts bits that went through the radio, and a lost packet has an entry  *)
(* that says so, which no later fragment makes live again.                  *)
LiveWasSent ==
    \A i \in DOMAIN out_pkts : Live(i) => out_pkts[i].size <= sent[out_pkts[i].uid]

LostIsErased ==
    /\ \A i \in DOMAIN out_pkts : ~Live(i) => out_pkts[i].uid \in lost
    /\ \A u \in lost : verdict[u] = "none" =>
         \E i \in DOMAIN out_pkts : out_pkts[i].uid = u /\ ~Live(i)

FateInv == LiveWasSent /\ LostIsErased /\ FateMatchesData
-----------------------------------------------------------------------------
(* A step of time makes every packet of the buffer older, in the same order. *)
LEMMA StepBudget ==
    ASSUME TypeOK, OldestFirst, Step
    PROVE  OldestFirst'
<1>. DEFINE age(i) == IF q[i].age > Budget THEN q[i].age ELSE q[i].age + 1
<1>1. \A i \in DOMAIN q : q[i] \in BufferEntry /\ q[i].age \in Nat
  <2>1. \A i \in DOMAIN q : q[i] \in BufferEntry
        BY DEF TypeOK
  <2>. QED  BY <2>1 DEF BufferEntry
<1>2. q' = [i \in DOMAIN q |-> [q[i] EXCEPT !.age = age(i)]]
      BY Zenon DEF Step
<1>3. \A i, j \in DOMAIN q : i < j => age(i) >= age(j)
  <2>. SUFFICES ASSUME NEW i \in DOMAIN q, NEW j \in DOMAIN q, i < j
                PROVE  age(i) >= age(j)
       OBVIOUS
  <2>1. q[i].age \in Nat /\ q[j].age \in Nat /\ q[i].age >= q[j].age /\ Budget \in Nat
        BY <1>1, BudgetAssumption DEF OldestFirst
  <2>. QED  BY <2>1
<1>. HIDE DEF age
<1>4. DOMAIN q' = DOMAIN q /\ \A i \in DOMAIN q : q'[i].age = age(i)
      BY <1>1, <1>2 DEF BufferEntry
<1>. QED  BY <1>3, <1>4 DEF OldestFirst

(* The packets of the buffer leave it in front and join it behind, and only *)
(* time makes them expire.                                                  *)
LEMMA NextBudget ==
    ASSUME TypeOK, OldestFirst, InBudget, [Next]_vars
    PROVE  OldestFirst' /\ InBudget'
<1>0. q \in Seq(BufferEntry) /\ \A i \in DOMAIN q : i \in Nat /\ q[i].age \in Nat
  <2>1. q \in Seq(BufferEntry)
        BY DEF TypeOK
  <2>2. \A i \in DOMAIN q : i \in Nat /\ q[i] \in BufferEntry
        BY <2>1
  <2>. QED  BY <2>1, <2>2 DEF BufferEntry
<1>1. CASE Step
  <2>1. pc' = "ingest"
        BY <1>1 DEF Step
  <2>. QED  BY <1>1, <2>1, StepBudget DEF InBudget
<1>2. CASE Admit
  <2>. DEFINE e == [uid |-> admitted + 1, size |-> Size[admitted + 1], age |-> 0]
              n == Len(q) + 1
  <2>1. admitted + 1 \in Pkts /\ Size[admitted + 1] \in Nat \ {0}
        BY <1>2, NumPktsAssumption, SizeAssumption DEF Admit, TypeOK, Pkts
  <2>2. e \in BufferEntry /\ e.age = 0
        BY <2>1 DEF BufferEntry
  <2>3. q' = Append(q, e) /\ pc' = "admit"
        BY <1>2 DEF Admit
  <2>. HIDE DEF e
  <2>4. /\ DOMAIN q' = DOMAIN q \cup {n} /\ n \notin DOMAIN q /\ n \in Nat
        /\ \A i \in DOMAIN q : i < n /\ q'[i] = q[i]
        /\ q'[n].age = 0
        BY <1>0, <2>2, <2>3, Appended
  <2>. HIDE DEF n
  <2>5. OldestFirst'
        BY <1>0, <2>4 DEF OldestFirst
  <2>. QED  BY <2>3, <2>5 DEF InBudget
<1>3. CASE Expire \/ TakeWhole
  <2>1. /\ q # <<>> /\ q' = Tail(q) /\ pc' = pc
        BY <1>3 DEF Expire, TakeWhole
  <2>2. \A i \in DOMAIN q' : i \in Nat /\ i + 1 \in DOMAIN q /\ q'[i] = q[i + 1]
        BY <1>0, <2>1, HeadTail
  <2>3. OldestFirst'
        BY <2>2 DEF OldestFirst
  <2>4. InBudget'
        BY <2>1, <2>2 DEF InBudget, Expired
  <2>. QED  BY <2>3, <2>4
<1>4. CASE TakeFragment
  <2>. DEFINE e == [q[1] EXCEPT !.size = @ - bits]
  <2>1. q # <<>> /\ pc' = pc /\ 1 \in DOMAIN q /\ Head(q) = q[1] /\ q[1] \in BufferEntry
        BY <1>0, <1>4, HeadTail DEF TakeFragment
  <2>2. q' = [q EXCEPT ![1] = e]
        BY <1>4, <2>1 DEF TakeFragment, RequeueFront
  <2>3. e.age = q[1].age
        BY <2>1 DEF BufferEntry
  <2>. HIDE DEF e
  <2>4. DOMAIN q' = DOMAIN q /\ \A i \in DOMAIN q : q'[i].age = q[i].age
        BY <2>1, <2>2, <2>3
  <2>. QED  BY <2>1, <2>4 DEF OldestFirst, InBudget, Expired
<1>5. CASE ExpireDone
  <2>1. q' = q /\ (q # <<>> => ~Expired(Head(q)))
        BY <1>5 DEF ExpireDone, buffer
  <2>2. ASSUME NEW i \in DOMAIN q
        PROVE  ~(q[i].age > Budget)
    <3>1. q # <<>> /\ 1 \in DOMAIN q /\ Head(q) = q[1] /\ (i = 1 \/ 1 < i)
          BY <1>0
    <3>2. q[1].age >= q[i].age
          BY <1>0, <3>1 DEF OldestFirst
    <3>3. ~(q[1].age > Budget)
          BY <2>1, <3>1 DEF Expired
    <3>. QED  BY <1>0, <3>1, <3>2, <3>3, BudgetAssumption
  <2>. QED  BY <2>1, <2>2 DEF OldestFirst, InBudget, Expired
<1>6. CASE Capture \/ Ingest \/ IngestDone \/ TailDrop \/ AdmitDone
  <2>1. q' = q
        BY <1>6 DEF Capture, Ingest, IngestDone, TailDrop, AdmitDone, buffer
  <2>2. pc' = pc \/ pc' \in {"admit", "expire"}
        BY <1>6 DEF Capture, Ingest, IngestDone, TailDrop, AdmitDone
  <2>. QED  BY <2>1, <2>2 DEF OldestFirst, InBudget, Expired
<1>7. CASE \/ ReleaseDrop \/ ReleaseAccept \/ ReleaseDone \/ GetDone \/ Push \/ PushDone
           \/ \E g \in Grants, d \in Delays : Handle(g, d)
  <2>1. q' = q
        BY <1>7 DEF ReleaseDrop, ReleaseAccept, ReleaseDone, GetDone, Push, PushDone,
                    Handle, buffer
  <2>2. pc \in {"release", "mac", "get", "push"}
        BY <1>7 DEF ReleaseDrop, ReleaseAccept, ReleaseDone, GetDone, Push, PushDone, Handle
  <2>. QED  BY <2>1, <2>2 DEF OldestFirst, InBudget, Expired
<1>8. CASE UNCHANGED vars
      BY <1>8 DEF vars, OldestFirst, InBudget, Expired
<1>. QED  BY <1>1, <1>2, <1>3, <1>4, <1>5, <1>6, <1>7, <1>8 DEF Next, UeStep

(* Whatever the scheduler grants, and however seldom, no packet that is     *)
(* past the delay budget is left in the buffer after a UE step, so none is  *)
(* transmitted: the oldest packet is always the first.                      *)
THEOREM BudgetKept == Safety => []NoExpiredBuffered
<1>1. Init => OldestFirst /\ InBudget
      BY DEF Init, OldestFirst, InBudget
<1>2. InBudget => NoExpiredBuffered
      BY DEF InBudget, NoExpiredBuffered
<1>. QED  BY <1>1, <1>2, NextBudget, TypeCorrect, PTL DEF Safety
-----------------------------------------------------------------------------
(* What the steps do to the first packet of the buffer, of the block and of *)
(* out_pkts.                                                                *)

LEMMA ExpireIs ==
    ASSUME TypeOK, PipelineInOrder, Expire
    PROVE  \E u \in Pkts, m \in Nat :
             /\ 1 \in DOMAIN q /\ u = q[1].uid /\ m = q[1].size
             /\ sent[u] + m = Size[u] /\ verdict[u] = "none"
             /\ sent' = [sent EXCEPT ![u] = Size[u]]
             /\ lost' = lost \cup {u}
             /\ Dropped(out_pkts', u, m)
<1>1. q \in Seq(BufferEntry) /\ q # <<>> /\ out_pkts \in Seq(OutEntry)
      BY Fields DEF Expire
<1>2. 1 \in DOMAIN q /\ Head(q) = q[1]
      BY <1>1, HeadTail
<1>3. PICK u \in Pkts, m \in Nat : u = q[1].uid /\ m = q[1].size
      BY <1>2, Fields
<1>4. sent[u] + m = Size[u] /\ verdict[u] = "none"
  <2>1. m + sent[u] = Size[u]
        BY <1>2, <1>3 DEF PipelineInOrder, Accounting
  <2>2. sent[u] \in Nat
        BY Fields
  <2>. QED  BY <1>2, <1>3, <2>1, <2>2 DEF PipelineInOrder, DecidedOrder
<1>5. /\ sent' = [sent EXCEPT ![u] = sent[u] + m]
      /\ lost' = lost \cup {u}
      /\ out_pkts' = WithoutData(u, m)
      BY <1>2, <1>3 DEF Expire
<1>6. Dropped(out_pkts', u, m)
      BY <1>1, <1>5, WithoutDataIs, Zenon
<1>. QED  BY <1>2, <1>3, <1>4, <1>5, <1>6

LEMMA PushIs ==
    ASSUME TypeOK, PipelineInOrder, Push
    PROVE  \E u \in Pkts, m \in Nat :
             /\ 1 \in DOMAIN harq.pkts /\ u = harq.pkts[1].uid /\ m = harq.pkts[1].size
             /\ m <= sent[u]
             /\ \A i \in DOMAIN out_pkts : out_pkts[i].uid = u => out_pkts[i].size + m <= sent[u]
             /\ harq'.pkts = Tail(harq.pkts)
             /\ Pushed(out_pkts', u, m)
<1>1. harq.pkts \in Seq(BlockEntry) /\ harq.pkts # <<>> /\ out_pkts \in Seq(OutEntry)
      BY Fields DEF Push
<1>2. 1 \in DOMAIN harq.pkts /\ Head(harq.pkts) = harq.pkts[1]
      BY <1>1, HeadTail
<1>3. PICK u \in Pkts, m \in Nat : u = harq.pkts[1].uid /\ m = harq.pkts[1].size
      BY <1>2, Fields
<1>4. /\ m <= sent[u]
      /\ \A i \in DOMAIN out_pkts : out_pkts[i].uid = u => out_pkts[i].size + m <= sent[u]
      BY <1>2, <1>3 DEF PipelineInOrder, Accounting
<1>5. out_pkts' = WithData(u, m, harq.wait, FALSE) /\ harq'.pkts = Tail(harq.pkts)
      BY <1>2, <1>3 DEF Push, TypeOK
<1>6. Pushed(out_pkts', u, m)
  <2>1. harq.wait \in Nat /\ FALSE \in BOOLEAN
        BY DEF TypeOK
  <2>. QED  BY <1>1, <1>5, <2>1, WithDataIs, Zenon
<1>. QED  BY <1>2, <1>3, <1>4, <1>5, <1>6

LEMMA VerdictIs ==
    ASSUME TypeOK, PipelineInOrder, ReleaseDrop \/ ReleaseAccept
    PROVE  \E u \in Pkts, v \in {"accept", "accept_ce", "drop"} :
             /\ 1 \in DOMAIN out_pkts /\ u = out_pkts[1].uid /\ out_pkts[1].size = Size[u]
             /\ verdict[u] = "none"
             /\ v = "drop" <=> ~Live(1)
             /\ verdict' = [verdict EXCEPT ![u] = v]
             /\ out_pkts' = Tail(out_pkts)
<1>1. ReleaseTypeOK /\ (DropFirst \/ AcceptFirst)
      BY DEF TypeOK, ReleaseDrop, ReleaseAccept
<1>2. PICK u \in Pkts, v \in {"accept", "accept_ce", "drop"} :
        /\ 1 \in DOMAIN out_pkts /\ u = out_pkts[1].uid /\ out_pkts[1].size = Size[u]
        /\ v = "drop" <=> out_pkts[1].erase
        /\ verdict' = [verdict EXCEPT ![u] = v]
        /\ out_pkts' = Tail(out_pkts)
      BY <1>1, LeavesIs
<1>3. verdict[u] = "none"
      BY <1>2 DEF PipelineInOrder, DecidedOrder
<1>. QED  BY <1>2, <1>3 DEF Live
-----------------------------------------------------------------------------
(* FateInv, action by action. *)

LEMMA UntouchedFate ==
    ASSUME FateInv, UNCHANGED <<out_pkts, sent, lost, verdict>>
    PROVE  FateInv'
BY DEF FateInv, LiveWasSent, LostIsErased, FateMatchesData, Live, Accepted

LEMMA StepFate ==
    ASSUME TypeOK, FateInv, Step
    PROVE  FateInv'
<1>1. /\ DOMAIN out_pkts' = DOMAIN out_pkts
      /\ \A i \in DOMAIN out_pkts :
            /\ out_pkts'[i].uid = out_pkts[i].uid
            /\ out_pkts'[i].size = out_pkts[i].size
            /\ out_pkts'[i].erase = out_pkts[i].erase
      BY Fields, LaterType, Zenon DEF Step
<1>2. sent' = sent /\ lost' = lost /\ verdict' = verdict
      BY DEF Step, history
<1>. QED  BY <1>1, <1>2 DEF FateInv, LiveWasSent, LostIsErased, FateMatchesData, Live, Accepted

(* What is taken out of the buffer is of an undecided packet. *)
LEMMA TakeFate ==
    ASSUME TypeOK, PipelineInOrder, FateInv, TakeWhole \/ TakeFragment
    PROVE  FateInv'
<1>1. PICK u \in Pkts, m \in Nat :
        /\ 1 \in DOMAIN q /\ u = q[1].uid
        /\ sent'[u] = sent[u] + m
        /\ \A v \in Pkts : v # u => sent'[v] = sent[v]
      BY TakenIs
<1>2. out_pkts' = out_pkts /\ lost' = lost /\ verdict' = verdict
      BY DEF TakeWhole, TakeFragment, release
<1>3. verdict[u] = "none"
      BY <1>1 DEF PipelineInOrder, DecidedOrder
<1>4. LiveWasSent'
  <2>1. \A v \in Pkts : sent[v] \in Nat /\ sent[v] <= sent'[v] /\ sent'[v] \in Nat
        BY <1>1, Fields, SMTT(30)
  <2>. QED  BY <1>2, <2>1, Fields, SMTT(30) DEF FateInv, LiveWasSent, Live
<1>5. LostIsErased'
      BY <1>2 DEF FateInv, LostIsErased, Live
<1>6. FateMatchesData'
      BY <1>1, <1>2, <1>3 DEF FateInv, FateMatchesData, Accepted
<1>. QED  BY <1>4, <1>5, <1>6 DEF FateInv

(* What expires is erased in out_pkts, with what was there of its packet. *)
LEMMA ExpireFate ==
    ASSUME TypeOK, PipelineInOrder, FateInv, Expire
    PROVE  FateInv'
<1>1. PICK u \in Pkts, m \in Nat :
        /\ sent[u] + m = Size[u] /\ verdict[u] = "none"
        /\ sent' = [sent EXCEPT ![u] = Size[u]]
        /\ lost' = lost \cup {u}
        /\ Dropped(out_pkts', u, m)
      BY ExpireIs
<1>2. verdict' = verdict
      BY DEF Expire
<1>3. /\ \A i \in DOMAIN out_pkts' :
           \/ i \in DOMAIN out_pkts /\ out_pkts'[i] = out_pkts[i]
           \/ out_pkts'[i].uid = u /\ out_pkts'[i].erase
      /\ \A i \in DOMAIN out_pkts : out_pkts[i].uid # u =>
           i \in DOMAIN out_pkts' /\ out_pkts'[i] = out_pkts[i]
      /\ \E i \in DOMAIN out_pkts' : out_pkts'[i].uid = u /\ out_pkts'[i].erase
  <2>1. CASE \E n \in Nat : OneMore(out_pkts', n, u, m) /\ out_pkts'[n].erase = TRUE
        BY <2>1 DEF OneMore
  <2>2. CASE \E k \in DOMAIN out_pkts : OneLonger(out_pkts', k, u, m) /\ out_pkts'[k].erase = TRUE
        BY <2>2 DEF OneLonger
  <2>. QED  BY <1>1, <2>1, <2>2 DEF Dropped
<1>4. LiveWasSent'
  <2>1. \A v \in Pkts : sent[v] \in Nat /\ sent[v] <= sent'[v] /\ sent'[v] \in Nat
    <3>1. \A v \in Pkts : sent[v] \in Nat /\ Size[v] \in Nat
          BY Fields
    <3>2. sent[u] <= Size[u]
          BY <1>1, <3>1
    <3>. QED  BY <1>1, <3>1, <3>2 DEF TypeOK
  <2>. QED  BY <1>3, <2>1, Fields, SMTT(30) DEF FateInv, LiveWasSent, Live
<1>5. LostIsErased'
      BY <1>1, <1>2, <1>3 DEF FateInv, LostIsErased, Live
<1>6. FateMatchesData'
  <2>1. \A v \in Pkts : v # u => sent'[v] = sent[v]
        BY <1>1 DEF TypeOK
  <2>. QED  BY <1>1, <1>2, <2>1 DEF FateInv, FateMatchesData, Accepted
<1>. QED  BY <1>4, <1>5, <1>6 DEF FateInv

(* A fragment joins the entry of its packet and leaves it erased if it was. *)
LEMMA PushFate ==
    ASSUME TypeOK, PipelineInOrder, FateInv, Push
    PROVE  FateInv'
<1>1. PICK u \in Pkts, m \in Nat :
        /\ m <= sent[u]
        /\ \A i \in DOMAIN out_pkts : out_pkts[i].uid = u => out_pkts[i].size + m <= sent[u]
        /\ Pushed(out_pkts', u, m)
      BY PushIs
<1>2. sent' = sent /\ lost' = lost /\ verdict' = verdict
      BY DEF Push, history
<1>3. /\ \A i \in DOMAIN out_pkts' :
           \/ /\ i \in DOMAIN out_pkts /\ out_pkts'[i].uid = out_pkts[i].uid
              /\ out_pkts'[i].erase = out_pkts[i].erase
              /\ out_pkts'[i] = out_pkts[i] \/ out_pkts'[i].size <= sent[out_pkts[i].uid]
           \/ out_pkts'[i].uid = u /\ ~out_pkts'[i].erase /\ out_pkts'[i].size <= sent[u]
      /\ \A i \in DOMAIN out_pkts :
           /\ i \in DOMAIN out_pkts'
           /\ out_pkts'[i].uid = out_pkts[i].uid /\ out_pkts'[i].erase = out_pkts[i].erase
  <2>1. CASE \E n \in Nat : OneMore(out_pkts', n, u, m) /\ out_pkts'[n].erase = FALSE
        BY <1>1, <2>1 DEF OneMore
  <2>2. CASE \E k \in DOMAIN out_pkts :
               OneLonger(out_pkts', k, u, m) /\ out_pkts'[k].erase = out_pkts[k].erase
        BY <1>1, <2>2 DEF OneLonger
  <2>. QED  BY <1>1, <2>1, <2>2 DEF Pushed
<1>4. LiveWasSent'
      BY <1>2, <1>3 DEF FateInv, LiveWasSent, Live
<1>5. LostIsErased'
      BY <1>2, <1>3 DEF FateInv, LostIsErased, Live
<1>6. FateMatchesData'
      BY <1>2 DEF FateInv, FateMatchesData, Accepted
<1>. QED  BY <1>4, <1>5, <1>6 DEF FateInv

(* Sorting loses no entry. *)
LEMMA PushDoneFate ==
    ASSUME TypeOK, FateInv, PushDone
    PROVE  FateInv'
<1>1. sent' = sent /\ lost' = lost /\ verdict' = verdict
      BY DEF PushDone, history
<1>2. /\ \A i \in DOMAIN out_pkts' : \E k \in DOMAIN out_pkts : out_pkts'[i] = out_pkts[k]
      /\ \A k \in DOMAIN out_pkts : \E i \in DOMAIN out_pkts' : out_pkts'[i] = out_pkts[k]
      BY SortedFrom, SortedAll, Fields DEF PushDone
<1>. QED  BY <1>1, <1>2 DEF FateInv, LiveWasSent, LostIsErased, FateMatchesData, Live, Accepted

(* A refused packet is lost and erased. *)
LEMMA TailDropFate ==
    ASSUME TypeOK, PipelineInOrder, FateInv, TailDrop
    PROVE  FateInv'
<1>. DEFINE u == admitted + 1
            e == Entry(u, Size[u], 0, FALSE, TRUE)
            s == Append(out_pkts, e)
<1>1. /\ u \in Pkts /\ u \in Nat /\ Size[u] \in Nat /\ ~(u <= admitted)
      BY NumPktsAssumption, SizeAssumption DEF TailDrop, TypeOK, Pkts
<1>2. sent' = sent /\ lost' = lost \cup {u} /\ verdict' = verdict
      BY DEF TailDrop
<1>3. verdict[u] = "none"
      BY <1>1 DEF PipelineInOrder, DecidedOrder
<1>4. e \in OutEntry /\ e.uid = u /\ e.erase
      BY <1>1, EntryType DEF Entry
<1>5. out_pkts' \in Sortings(s)
      BY Zenon DEF TailDrop
<1>. HIDE DEF e
<1>6. /\ s \in Seq(OutEntry)
      /\ \A i \in DOMAIN s : s[i] = e \/ \E k \in DOMAIN out_pkts : s[i] = out_pkts[k]
      /\ \A k \in DOMAIN out_pkts : \E i \in DOMAIN s : s[i] = out_pkts[k]
      /\ \E i \in DOMAIN s : s[i] = e
      BY <1>4, Fields, Appended
<1>. HIDE DEF s, u
<1>7. /\ \A i \in DOMAIN out_pkts' : out_pkts'[i] = e
           \/ \E k \in DOMAIN out_pkts : out_pkts'[i] = out_pkts[k]
      /\ \A k \in DOMAIN out_pkts : \E i \in DOMAIN out_pkts' : out_pkts'[i] = out_pkts[k]
      /\ \E i \in DOMAIN out_pkts' : out_pkts'[i] = e
  <2>1. \A i \in DOMAIN out_pkts' : \E k \in DOMAIN s : out_pkts'[i] = s[k]
        BY <1>5, <1>6, SortedFrom
  <2>2. \A k \in DOMAIN s : \E i \in DOMAIN out_pkts' : out_pkts'[i] = s[k]
        BY <1>5, <1>6, SortedAll
  <2>. QED  BY <1>6, <2>1, <2>2
<1>8. LiveWasSent'
      BY <1>2, <1>4, <1>7 DEF FateInv, LiveWasSent, Live
<1>9. LostIsErased'
      BY <1>2, <1>4, <1>7 DEF FateInv, LostIsErased, Live
<1>10. FateMatchesData'
      BY <1>2, <1>3 DEF FateInv, FateMatchesData, Accepted
<1>. QED  BY <1>8, <1>9, <1>10 DEF FateInv

(* A live entry that is complete was sent whole, and its packet is not lost: *)
(* the entry that says so would be this one.                                *)
LEMMA VerdictFate ==
    ASSUME TypeOK, PipelineInOrder, FateInv, ReleaseDrop \/ ReleaseAccept
    PROVE  FateInv'
<1>1. PICK u \in Pkts, v \in {"accept", "accept_ce", "drop"} :
        /\ 1 \in DOMAIN out_pkts /\ u = out_pkts[1].uid /\ out_pkts[1].size = Size[u]
        /\ verdict[u] = "none"
        /\ v = "drop" <=> ~Live(1)
        /\ verdict' = [verdict EXCEPT ![u] = v]
        /\ out_pkts' = Tail(out_pkts)
      BY VerdictIs
<1>2. sent' = sent /\ lost' = lost
      BY DEF ReleaseDrop, ReleaseAccept, history
<1>3. verdict'[u] = v /\ \A w \in Pkts : w # u => verdict'[w] = verdict[w]
      BY <1>1 DEF TypeOK, ReleaseTypeOK
<1>4. /\ \A i \in DOMAIN out_pkts' : i + 1 \in DOMAIN out_pkts /\ out_pkts'[i] = out_pkts[i + 1]
      /\ \A i \in DOMAIN out_pkts : i # 1 =>
           \E k \in DOMAIN out_pkts' : out_pkts'[k] = out_pkts[i]
  <2>1. out_pkts \in Seq(OutEntry) /\ out_pkts # <<>>
        BY <1>1, Fields
  <2>2. /\ \A i \in DOMAIN out_pkts' : i \in Nat /\ i + 1 \in DOMAIN out_pkts /\ out_pkts'[i] = out_pkts[i + 1]
        /\ \A i \in DOMAIN out_pkts : i # 1 => i - 1 \in DOMAIN out_pkts'
        BY <1>1, <2>1, HeadTail
  <2>3. ASSUME NEW i \in DOMAIN out_pkts, i # 1
        PROVE  i - 1 \in DOMAIN out_pkts' /\ out_pkts'[i - 1] = out_pkts[i]
    <3>1. i \in Nat /\ (i - 1) + 1 = i
          BY Fields
    <3>. QED  BY <2>2, <2>3, <3>1
  <2>. QED  BY <2>2, <2>3
<1>5. LiveWasSent'
      BY <1>2, <1>4 DEF FateInv, LiveWasSent, Live
<1>6. LostIsErased'
  <2>1. \A i \in DOMAIN out_pkts' : ~out_pkts'[i].erase \/ out_pkts'[i].uid \in lost
        BY <1>4 DEF FateInv, LostIsErased, Live
  <2>2. ASSUME NEW w \in lost, verdict'[w] = "none"
        PROVE  \E i \in DOMAIN out_pkts' : out_pkts'[i].uid = w /\ out_pkts'[i].erase
    <3>1. w \in Pkts /\ w # u /\ verdict[w] = "none"
          BY <1>3, <2>2 DEF TypeOK
    <3>2. PICK i \in DOMAIN out_pkts : out_pkts[i].uid = w /\ out_pkts[i].erase
          BY <3>1 DEF FateInv, LostIsErased, Live
    <3>. QED  BY <1>1, <1>4, <3>1, <3>2
  <2>. QED  BY <1>2, <2>1, <2>2 DEF LostIsErased, Live
<1>7. FateMatchesData'
  <2>1. CASE v = "drop"
    <3>1. u \in lost
          BY <1>1, <2>1 DEF FateInv, LostIsErased
    <3>. QED  BY <1>2, <1>3, <2>1, <3>1 DEF FateInv, FateMatchesData, Accepted
  <2>2. CASE v # "drop"
    <3>1. sent[u] = Size[u]
      <4>1. Size[u] <= sent[u] /\ sent[u] <= Size[u]
            BY <1>1, <2>2 DEF FateInv, LiveWasSent, PipelineInOrder, Accounting
      <4>. QED  BY <4>1, Fields
    <3>2. u \notin lost
          BY <1>1, <2>2 DEF FateInv, LostIsErased, PipelineInOrder, ReleaseOrder
    <3>. QED  BY <1>2, <1>3, <2>2, <3>1, <3>2 DEF FateInv, FateMatchesData, Accepted
  <2>. QED  BY <2>1, <2>2
<1>. QED  BY <1>5, <1>6, <1>7 DEF FateInv

LEMMA NextFate == TypeOK /\ PipelineInOrder /\ FateInv /\ [Next]_vars => FateInv'
<1>. SUFFICES ASSUME TypeOK, PipelineInOrder, FateInv, [Next]_vars PROVE FateInv'
     OBVIOUS
<1>1. CASE \/ Capture \/ Ingest \/ IngestDone \/ Admit \/ AdmitDone \/ ExpireDone
           \/ ReleaseDone \/ GetDone \/ UNCHANGED vars
           \/ \E g \in Grants, d \in Delays : Handle(g, d)
  <2>1. UNCHANGED <<out_pkts, sent, lost, verdict>>
        BY <1>1 DEF Capture, Ingest, IngestDone, Admit, AdmitDone, ExpireDone,
                    ReleaseDone, GetDone, Handle, vars, release, history
  <2>. QED  BY <2>1, UntouchedFate
<1>. QED  BY <1>1, StepFate, TakeFate, ExpireFate, PushFate, PushDoneFate, TailDropFate,
              VerdictFate DEF Next, UeStep

(* A packet is accepted only when every bit of it went through the radio    *)
(* and none was dropped, and is dropped only if some bit was, whatever is   *)
(* fragmented, expires or is refused on the way.                            *)
THEOREM FateIsTrue == Safety => []FateMatchesData
<1>1. Init => FateInv
      BY DEF Init, ReleaseInit, FateInv, LiveWasSent, LostIsErased, FateMatchesData, Accepted
<1>2. FateInv => FateMatchesData
      BY DEF FateInv
<1>. QED  BY <1>1, <1>2, NextFate, TypeCorrect, OrderKept, PTL DEF Safety
-----------------------------------------------------------------------------
(* Each action moves as much out of the buffer as it takes from             *)
(* current_size or adds to the block.  As long as no sum above Exact was    *)
(* stored, every sum and difference is a float and is stored as it is.      *)
SizeInv == SizeAccounted /\ (~rounded => current_size <= Exact)

LEMMA Subtracted ==
    ASSUME TypeOK, SizeInv, NEW n \in Nat, n <= current_size \/ rounded,
           current_size' \in Nearest(NotNegative(current_size - n))
    PROVE  /\ current_size' <= MaxSize
           /\ ~rounded => current_size' = current_size - n /\ current_size' <= Exact
<1>. DEFINE d == NotNegative(current_size - n)
<1>1. /\ current_size \in Nat /\ MaxSize \in Nat /\ Exact \in Nat
      /\ current_size <= MaxSize
      /\ ~rounded => current_size <= Exact
      BY FloatsAssumption, MaxSizeAssumption DEF TypeOK, SizeInv, SizeAccounted
<1>2. d \in Nat /\ d <= current_size /\ d <= MaxSize
      BY <1>1 DEF NotNegative
<1>3. current_size' \in Nearest(d)
      OBVIOUS
<1>4. ~rounded => d = current_size - n /\ d <= Exact
      BY <1>1 DEF NotNegative
<1>. HIDE DEF d
<1>5. current_size' <= MaxSize
      BY <1>2, <1>3, MaxSizeAssumption, NearestBelow
<1>6. ~rounded => d \in Floats
      BY <1>1, <1>2, <1>4, FloatsAssumption
<1>7. ~rounded => current_size' = d
      BY <1>3, <1>6, NearestIs
<1>. QED  BY <1>4, <1>5, <1>7

LEMMA NextSize == TypeOK /\ SizeInv /\ [Next]_vars => SizeInv'
<1>. SUFFICES ASSUME TypeOK, SizeInv, [Next]_vars PROVE SizeInv'
     OBVIOUS
<1>0. /\ q \in Seq(BufferEntry) /\ \A i \in DOMAIN q : q[i].size \in Nat
      /\ SumSizes(q) \in Nat /\ MaxSize \in Nat /\ Exact \in Nat
      /\ current_size \in Nat /\ harq.bits \in Nat /\ current_size <= MaxSize
      /\ ~rounded /\ pc = "get" => current_size = SumSizes(q) + harq.bits
      /\ ~rounded /\ pc # "get" => current_size = SumSizes(q)
      /\ ~rounded => current_size <= Exact
  <2>1. q \in Seq(BufferEntry) /\ \A i \in DOMAIN q : q[i].size \in Nat
        BY Fields
  <2>2. SumSizes(q) \in Nat
        BY <2>1, SumSizesNat
  <2>. QED  BY <2>1, <2>2, MaxSizeAssumption, FloatsAssumption DEF TypeOK, SizeInv, SizeAccounted
<1>1. CASE Step
  <2>. DEFINE age(i) == IF q[i].age > Budget THEN q[i].age ELSE q[i].age + 1
  <2>1. q' = [i \in DOMAIN q |-> [q[i] EXCEPT !.age = age(i)]]
        BY <1>1, Zenon DEF Step
  <2>. HIDE DEF age
  <2>2. \A i \in DOMAIN q : q[i] \in BufferEntry
        BY <1>0
  <2>3. DOMAIN q' = DOMAIN q /\ \A i \in DOMAIN q : q'[i].size = q[i].size
        BY <2>1, <2>2 DEF BufferEntry
  <2>4. SumSizes(q') = SumSizes(q)
        BY <2>3, SumSizesSame
  <2>5. current_size' = current_size /\ rounded' = rounded /\ pc # "get" /\ pc' # "get"
        BY <1>1 DEF Step
  <2>. QED  BY <1>0, <2>4, <2>5 DEF SizeInv, SizeAccounted
<1>2. CASE Admit
  <2>. DEFINE u == admitted + 1
              e == [uid |-> u, size |-> Size[u], age |-> 0]
  <2>1. u \in Pkts /\ Size[u] \in Nat \ {0}
        BY <1>2, NumPktsAssumption, SizeAssumption DEF Admit, TypeOK, Pkts
  <2>2. e \in BufferEntry /\ e.size = Size[u] /\ e.size \in Nat
        BY <2>1 DEF BufferEntry
  <2>3. /\ q' = Append(q, e) /\ current_size' \in Nearest(current_size + Size[u])
        /\ current_size' <= MaxSize /\ pc # "get" /\ pc' # "get"
        /\ rounded' = (rounded \/ current_size + Size[u] > Exact)
        BY <1>2 DEF Admit
  <2>. HIDE DEF e, u
  <2>4. SumSizes(q') = SumSizes(q) + e.size
        BY <1>0, <2>2, <2>3, SumSizesAppend
  <2>5. CASE rounded'
        BY <2>3, <2>5 DEF SizeInv, SizeAccounted
  <2>6. CASE ~rounded'
    <3>. DEFINE n == current_size + Size[u]
    <3>0. ~rounded /\ ~(n > Exact)
          BY <2>3, <2>6, Zenon
    <3>1. ~rounded /\ n \in Nat /\ n <= Exact
          BY <1>0, <2>1, <3>0
    <3>2. n \in Floats
          BY <3>1, <1>0, FloatsAssumption
    <3>3. current_size' \in Nearest(n)
          BY <2>3
    <3>. HIDE DEF n
    <3>4. current_size' = n
          BY <3>2, <3>3, NearestIs
    <3>. QED  BY <1>0, <2>2, <2>3, <2>4, <3>1, <3>4 DEF SizeInv, SizeAccounted, n
  <2>. QED  BY <2>5, <2>6
<1>3. CASE Expire
  <2>1. /\ q # <<>> /\ Head(q) = q[1] /\ q' = Tail(q) /\ 1 \in DOMAIN q
        /\ pc # "get" /\ pc' # "get"
        BY <1>0, <1>3, HeadTail DEF Expire
  <2>2. SumSizes(q) = q[1].size + SumSizes(q') /\ SumSizes(q') \in Nat
        BY <1>0, <2>1, SumSizesTail
  <2>3. /\ current_size' \in Nearest(NotNegative(current_size - q[1].size))
        /\ rounded' = rounded
        BY <1>3, <2>1 DEF Expire
  <2>4. q[1].size \in Nat /\ (q[1].size <= current_size \/ rounded)
        BY <1>0, <2>1, <2>2 DEF TypeOK
  <2>5. /\ current_size' <= MaxSize
        /\ ~rounded => current_size' = current_size - q[1].size /\ current_size' <= Exact
        BY <2>3, <2>4, Subtracted
  <2>. QED  BY <1>0, <2>1, <2>2, <2>3, <2>4, <2>5 DEF SizeInv, SizeAccounted
<1>4. CASE TakeWhole
  <2>1. /\ q # <<>> /\ Head(q) = q[1] /\ q' = Tail(q) /\ 1 \in DOMAIN q
        /\ pc = "get" /\ pc' = "get" /\ current_size' = current_size
        /\ rounded' = rounded /\ harq' = InHarq(q[1].uid, q[1].size)
        BY <1>0, <1>4, HeadTail DEF TakeWhole
  <2>2. SumSizes(q) = q[1].size + SumSizes(q') /\ SumSizes(q') \in Nat
        BY <1>0, <2>1, SumSizesTail
  <2>3. q[1].size \in Nat /\ harq'.bits = harq.bits + q[1].size
        BY <1>0, <2>1 DEF InHarq, TypeOK
  <2>. QED  BY <1>0, <2>1, <2>2, <2>3 DEF SizeInv, SizeAccounted
<1>5. CASE TakeFragment
  <2>. DEFINE e == [q[1] EXCEPT !.size = @ - bits]
  <2>1. /\ q # <<>> /\ Head(q) = q[1] /\ 1 \in DOMAIN q /\ q[1] \in BufferEntry
        /\ bits \in Nat
        BY <1>0, <1>5, HeadTail DEF TakeFragment, TypeOK
  <2>2. /\ q' = [q EXCEPT ![1] = e] /\ ~(bits >= q[1].size)
        /\ rounded' = rounded /\ harq' = InHarq(q[1].uid, bits)
        /\ pc = "get" /\ pc' = "get" /\ current_size' = current_size
        BY <1>5, <2>1 DEF TakeFragment, RequeueFront, Fits
  <2>3. e \in BufferEntry /\ e.size = q[1].size - bits /\ e.size \in Nat
        BY <2>1, <2>2 DEF BufferEntry
  <2>4. q[1].size \in Nat /\ harq'.bits = harq.bits + bits
        BY <1>0, <2>1, <2>2 DEF InHarq, TypeOK
  <2>. HIDE DEF e
  <2>5. SumSizes(q') = e.size + SumSizes(Tail(q))
        BY <1>0, <2>1, <2>2, <2>3, SumSizesCut
  <2>6. SumSizes(q) = q[1].size + SumSizes(Tail(q)) /\ SumSizes(Tail(q)) \in Nat
        BY <1>0, <2>1, SumSizesTail
  <2>. QED  BY <1>0, <2>1, <2>2, <2>3, <2>4, <2>5, <2>6, SMTT(30) DEF SizeInv, SizeAccounted
<1>6. CASE GetDone
  <2>1. /\ q' = q /\ current_size' \in Nearest(NotNegative(current_size - harq.bits))
        /\ rounded' = rounded /\ pc = "get" /\ pc' # "get"
        BY <1>6 DEF GetDone
  <2>2. harq.bits <= current_size \/ rounded
        BY <1>0, <2>1 DEF TypeOK
  <2>3. /\ current_size' <= MaxSize
        /\ ~rounded => current_size' = current_size - harq.bits /\ current_size' <= Exact
        BY <1>0, <2>1, <2>2, Subtracted
  <2>. QED  BY <1>0, <2>1, <2>3 DEF SizeInv, SizeAccounted
<1>7. CASE \E g \in Grants, d \in Delays : Handle(g, d)
  <2>1. /\ q' = q /\ current_size' = current_size /\ harq'.bits = 0 /\ pc # "get"
        /\ rounded' = rounded
        BY <1>7 DEF Handle, NoHarq, buffer
  <2>. QED  BY <1>0, <2>1 DEF SizeInv, SizeAccounted
<1>8. CASE \/ Capture \/ Ingest \/ IngestDone \/ TailDrop \/ AdmitDone \/ ExpireDone
           \/ ReleaseDrop \/ ReleaseAccept \/ ReleaseDone \/ Push \/ PushDone
           \/ UNCHANGED vars
  <2>1. /\ q' = q /\ current_size' = current_size /\ rounded' = rounded
        /\ (pc # "get" /\ pc' # "get") \/ (pc' = pc /\ harq' = harq)
        BY <1>8 DEF Capture, Ingest, IngestDone, TailDrop, AdmitDone, ExpireDone, ReleaseDrop,
                    ReleaseAccept, ReleaseDone, Push, PushDone, vars, buffer, grant
  <2>. QED  BY <1>0, <2>1 DEF SizeInv, SizeAccounted
<1>. QED  BY <1>1, <1>2, <1>3, <1>4, <1>5, <1>6, <1>7, <1>8 DEF Next, UeStep

(* current_size, on which add_pkt decides, never exceeds max_size, however  *)
(* its sums are rounded, and is what the buffer and the block under way hold *)
(* until a sum above Exact was stored in it: up to there no sequence of      *)
(* grants, fragments, drops and refusals makes it drift.                     *)
THEOREM SizeIsKept == Safety => []SizeAccounted
<1>1. Init => SizeInv
      BY SumSizesNothing, MaxSizeAssumption, FloatsAssumption DEF Init, SizeInv, SizeAccounted
<1>2. SizeInv => SizeAccounted
      BY DEF SizeInv
<1>. QED  BY <1>1, <1>2, NextSize, TypeCorrect, PTL DEF Safety
-----------------------------------------------------------------------------
(* BitsConserved counts between two loops; in the middle of one the block   *)
(* under way holds bits too, and every step keeps the sum of the three.     *)

Held(u) == BitsOf(q, u) + BitsOf(harq.pkts, u) + BitsOf(out_pkts, u)

Owed(u) == IF u <= admitted /\ verdict[u] = "none" THEN Size[u] ELSE 0

Conserved == \A u \in Pkts : Held(u) = Owed(u)

LEMMA PartsAreNat ==
    ASSUME TypeOK, NEW u
    PROVE  /\ BitsOf(q, u) \in Nat /\ BitsOf(harq.pkts, u) \in Nat
           /\ BitsOf(out_pkts, u) \in Nat
<1>1. /\ q \in Seq(BufferEntry) /\ \A i \in DOMAIN q : q[i].size \in Nat
      /\ harq.pkts \in Seq(BlockEntry) /\ \A i \in DOMAIN harq.pkts : harq.pkts[i].size \in Nat
      /\ out_pkts \in Seq(OutEntry) /\ \A i \in DOMAIN out_pkts : out_pkts[i].size \in Nat
      BY Fields
<1>. QED  BY <1>1, BitsOfNat

(* A step of time and a step that touches none of the three.                *)
LEMMA QuietConserved ==
    ASSUME TypeOK, Conserved,
           Step \/ PushDone \/ UNCHANGED <<q, harq.pkts, out_pkts, admitted, verdict>>,
           PipelineInOrder
    PROVE  Conserved'
<1>. SUFFICES ASSUME NEW u \in Pkts
              PROVE  /\ BitsOf(q, u)' = BitsOf(q, u)
                     /\ BitsOf(harq.pkts, u)' = BitsOf(harq.pkts, u)
                     /\ BitsOf(out_pkts, u)' = BitsOf(out_pkts, u)
                     /\ Owed(u)' = Owed(u)
     BY DEF Conserved, Held
<1>1. CASE Step
  <2>. DEFINE age(i) == IF q[i].age > Budget THEN q[i].age ELSE q[i].age + 1
  <2>1. q' = [i \in DOMAIN q |-> [q[i] EXCEPT !.age = age(i)]]
        BY <1>1, Zenon DEF Step
  <2>. HIDE DEF age
  <2>2. \A i \in DOMAIN q : q[i] \in BufferEntry
        BY Fields
  <2>3. DOMAIN q' = DOMAIN q /\ \A i \in DOMAIN q : PartOf(q'[i], u) = PartOf(q[i], u)
        BY <2>1, <2>2 DEF BufferEntry, PartOf
  <2>4. DOMAIN out_pkts' = DOMAIN out_pkts
        /\ \A i \in DOMAIN out_pkts : PartOf(out_pkts'[i], u) = PartOf(out_pkts[i], u)
    <3>1. out_pkts' = Later /\ out_pkts \in Seq(OutEntry)
          BY <1>1, Fields DEF Step
    <3>. QED  BY <3>1, LaterType DEF PartOf
  <2>5. BitsOf(q', u) = BitsOf(q, u) /\ BitsOf(out_pkts', u) = BitsOf(out_pkts, u)
        BY <2>3, <2>4, BitsOfSame
  <2>6. harq' = harq /\ admitted' = admitted /\ verdict' = verdict
        BY <1>1 DEF Step, grant, stages
  <2>. QED  BY <2>5, <2>6 DEF Owed
<1>2. CASE PushDone
  <2>1. out_pkts \in Seq(OutEntry) /\ OneEach(out_pkts) /\ out_pkts' \in Sortings(out_pkts)
        BY <1>2, Fields DEF PushDone, OneEach, PipelineInOrder, ReleaseOrder
  <2>2. BitsOf(out_pkts', u) = BitsOf(out_pkts, u)
        BY <2>1, SortedBits
  <2>3. q' = q /\ harq'.pkts = harq.pkts /\ admitted' = admitted /\ verdict' = verdict
        BY <1>2 DEF PushDone, NoHarq, buffer, stages
  <2>. QED  BY <2>2, <2>3 DEF Owed
<1>3. CASE UNCHANGED <<q, harq.pkts, out_pkts, admitted, verdict>>
      BY <1>3 DEF Owed
<1>. QED  BY <1>1, <1>2, <1>3

(* A packet that comes in.                                                  *)
LEMMA EnterConserved ==
    ASSUME TypeOK, PipelineInOrder, Conserved, Admit \/ TailDrop
    PROVE  Conserved'
<1>0. PICK u \in Pkts : u = admitted + 1
  <2>1. admitted < ingested
        BY DEF Admit, TailDrop
  <2>2. admitted + 1 \in Pkts
        BY <2>1, NumPktsAssumption DEF TypeOK, Pkts
  <2>. QED  BY <2>2
<1>1. /\ u \in Nat /\ admitted \in Nat /\ Size[u] \in Nat \ {0}
      /\ admitted' = u /\ verdict' = verdict /\ harq' = harq /\ verdict[u] = "none"
  <2>1. u \in Nat /\ admitted \in Nat /\ Size[u] \in Nat \ {0}
        BY <1>0, Fields, SizeAssumption
  <2>2. verdict[u] = "none"
        BY <1>0, <2>1 DEF PipelineInOrder, DecidedOrder
  <2>. QED  BY <1>0, <2>1, <2>2 DEF Admit, TailDrop, grant, release
<1>. DEFINE More(v) == BitsOf(q', v) + BitsOf(out_pkts', v)
                         = BitsOf(q, v) + BitsOf(out_pkts, v) + (IF v = u THEN Size[u] ELSE 0)
<1>. SUFFICES \A v \in Pkts : More(v)
  <2>1. \A v \in Pkts : Owed(v)' = Owed(v) + (IF v = u THEN Size[u] ELSE 0)
    <3>1. \A v \in Pkts : v \in Nat /\ Size[v] \in Nat
          BY Fields
    <3>. QED  BY <1>0, <1>1, <3>1 DEF Owed
  <2>2. \A v \in Pkts : BitsOf(harq'.pkts, v) = BitsOf(harq.pkts, v)
        BY <1>1
  <2>3. \A v \in Pkts : /\ BitsOf(q, v) \in Nat /\ BitsOf(harq.pkts, v) \in Nat
                        /\ BitsOf(out_pkts, v) \in Nat
        BY PartsAreNat
  <2>4. \A v : BitsOf(q', v) \in Nat /\ BitsOf(out_pkts', v) \in Nat
    <3>1. TypeOK'
          BY NextType DEF Next, UeStep
    <3>2. /\ q' \in Seq(BufferEntry) /\ \A i \in DOMAIN q' : q'[i].size \in Nat
          /\ out_pkts' \in Seq(OutEntry) /\ \A i \in DOMAIN out_pkts' : out_pkts'[i].size \in Nat
      <4>1. q' \in Seq(BufferEntry) /\ out_pkts' \in Seq(OutEntry)
            BY <3>1 DEF TypeOK, ReleaseTypeOK
      <4>2. \A i \in DOMAIN q' : q'[i] \in BufferEntry
            BY <4>1
      <4>3. \A i \in DOMAIN out_pkts' : out_pkts'[i] \in OutEntry
            BY <4>1
      <4>. QED  BY <4>1, <4>2, <4>3, EntryFields DEF BufferEntry
    <3>. QED  BY <3>2, BitsOfNat
  <2>5. Size[u] \in Nat
        BY <1>1
  <2>6. ASSUME NEW v \in Pkts
        PROVE  BitsOf(q', v) + BitsOf(harq'.pkts, v) + BitsOf(out_pkts', v) = Owed(v)'
    <3>1. BitsOf(q, v) + BitsOf(harq.pkts, v) + BitsOf(out_pkts, v) = Owed(v)
          BY DEF Conserved, Held
    <3>. QED  BY <2>1, <2>2, <2>3, <2>4, <2>5, <3>1
  <2>. QED  BY <2>6 DEF Conserved, Held
<1>. SUFFICES ASSUME NEW v \in Pkts PROVE More(v)
     OBVIOUS
<1>2. CASE Admit
  <2>. DEFINE e == [uid |-> u, size |-> Size[u], age |-> 0]
  <2>1. q \in Seq(BufferEntry) /\ \A i \in DOMAIN q : q[i].size \in Nat
        BY Fields
  <2>2. e \in BufferEntry /\ e.size \in Nat /\ e.uid = u /\ e.size = Size[u]
        BY <1>1 DEF BufferEntry
  <2>3. q' = Append(q, e) /\ out_pkts' = out_pkts
        BY <1>0, <1>2 DEF Admit, release
  <2>. HIDE DEF e
  <2>4. BitsOf(q', v) = BitsOf(q, v) + PartOf(e, v)
        BY <2>1, <2>2, <2>3, BitsOfAppend
  <2>5. BitsOf(q, v) \in Nat /\ BitsOf(out_pkts, v) \in Nat
        BY PartsAreNat
  <2>. QED  BY <1>1, <2>2, <2>3, <2>4, <2>5 DEF PartOf
<1>3. CASE TailDrop
  <2>. DEFINE e == Entry(u, Size[u], 0, FALSE, TRUE)
              s == Append(out_pkts, e)
  <2>1. out_pkts \in Seq(OutEntry) /\ \A i \in DOMAIN out_pkts : out_pkts[i].size \in Nat
        BY Fields
  <2>2. e \in OutEntry /\ e.size \in Nat /\ e.uid = u /\ e.size = Size[u]
        BY <1>1, EntryType DEF Entry
  <2>3. out_pkts' \in Sortings(s) /\ q' = q
        BY <1>0, <1>3, Zenon DEF TailDrop, buffer
  <2>. HIDE DEF e
  <2>4. BitsOf(s, v) = BitsOf(out_pkts, v) + PartOf(e, v)
        BY <2>1, <2>2, BitsOfAppend
  <2>5. s \in Seq(OutEntry) /\ OneEach(s)
    <3>. DEFINE n == Len(out_pkts) + 1
    <3>1. /\ s \in Seq(OutEntry) /\ DOMAIN s = DOMAIN out_pkts \cup {n}
          /\ \A i \in DOMAIN out_pkts : s[i] = out_pkts[i]
          /\ s[n] = e
          BY <2>1, <2>2, Appended
    <3>2. \A i \in DOMAIN out_pkts : out_pkts[i].uid # u
      <4>1. \A i \in DOMAIN out_pkts : out_pkts[i].uid <= admitted /\ out_pkts[i].uid \in Nat
            BY Fields DEF PipelineInOrder, ReleaseOrder
      <4>. QED  BY <1>0, <1>1, <4>1
    <3>. HIDE DEF s, n
    <3>. QED  BY <2>2, <3>1, <3>2 DEF OneEach, PipelineInOrder, ReleaseOrder
  <2>. HIDE DEF s
  <2>6. BitsOf(out_pkts', v) = BitsOf(s, v)
        BY <2>3, <2>5, SortedBits
  <2>7. BitsOf(q, v) \in Nat /\ BitsOf(out_pkts, v) \in Nat
        BY PartsAreNat
  <2>. QED  BY <1>1, <2>2, <2>3, <2>4, <2>6, <2>7 DEF PartOf
<1>. QED  BY <1>2, <1>3

(* Bits that move from the buffer to the block, or from either to out_pkts. *)
LEMMA TakeConserved ==
    ASSUME TypeOK, Conserved, TakeWhole \/ TakeFragment
    PROVE  Conserved'
<1>0. /\ q \in Seq(BufferEntry) /\ q # <<>> /\ \A i \in DOMAIN q : q[i].size \in Nat
      /\ harq.pkts \in Seq(BlockEntry) /\ \A i \in DOMAIN harq.pkts : harq.pkts[i].size \in Nat
      /\ Tail(q) \in Seq(BufferEntry)
      /\ 1 \in DOMAIN q /\ Head(q) = q[1] /\ q[1] \in BufferEntry /\ q[1].size \in Nat
      /\ out_pkts' = out_pkts /\ admitted' = admitted /\ verdict' = verdict
  <2>1. q \in Seq(BufferEntry) /\ q # <<>>
        BY Fields DEF TakeWhole, TakeFragment
  <2>2. /\ 1 \in DOMAIN q /\ Head(q) = q[1] /\ q[1] \in BufferEntry
        /\ Tail(q) \in Seq(BufferEntry)
        BY <2>1, HeadTail
  <2>. QED  BY <2>1, <2>2, Fields DEF TakeWhole, TakeFragment, release, stages
<1>1. PICK m \in Nat \ {0} :
        /\ harq' = InHarq(q[1].uid, m)
        /\ \/ m = q[1].size /\ q' = Tail(q)
           \/ /\ m < q[1].size
              /\ q' = [q EXCEPT ![1] = [q[1] EXCEPT !.size = @ - m]]
  <2>1. CASE TakeWhole
    <3>1. harq' = InHarq(q[1].uid, q[1].size) /\ q' = Tail(q)
          BY <1>0, <2>1 DEF TakeWhole
    <3>2. q[1].size \in Nat \ {0}
          BY <1>0 DEF BufferEntry
    <3>. QED  BY <3>1, <3>2, Zenon
  <2>2. CASE TakeFragment
    <3>1. /\ harq' = InHarq(q[1].uid, bits)
          /\ q' = [q EXCEPT ![1] = [q[1] EXCEPT !.size = @ - bits]]
          BY <1>0, <2>2 DEF TakeFragment, RequeueFront
    <3>2. bits \in Nat \ {0} /\ bits < q[1].size
          BY <1>0, <2>2 DEF TakeFragment, Fits, TypeOK
    <3>. QED  BY <3>1, <3>2, Zenon
  <2>. QED  BY <2>1, <2>2
<1>. DEFINE b == [uid |-> q[1].uid, size |-> m]
<1>2. b \in BlockEntry /\ b.size \in Nat /\ b.uid = q[1].uid /\ b.size = m
  <2>1. q[1].uid \in Pkts
        BY <1>0 DEF BufferEntry
  <2>. QED  BY <2>1 DEF BlockEntry
<1>3. harq'.pkts = Append(harq.pkts, b)
      BY <1>1 DEF InHarq, TypeOK
<1>. HIDE DEF b
<1>4. ASSUME NEW v \in Pkts
      PROVE  BitsOf(q', v) + BitsOf(harq'.pkts, v) = BitsOf(q, v) + BitsOf(harq.pkts, v)
  <2>1. BitsOf(harq'.pkts, v) = BitsOf(harq.pkts, v) + PartOf(b, v)
    <3>1. harq.pkts \in Seq(BlockEntry) /\ \A i \in DOMAIN harq.pkts : harq.pkts[i].size \in Nat
          BY <1>0
    <3>2. BitsOf(Append(harq.pkts, b), v) = BitsOf(harq.pkts, v) + PartOf(b, v)
          BY <1>2, <3>1, BitsOfAppend
    <3>. QED  BY <1>3, <3>2
  <2>2. BitsOf(q, v) = PartOf(q[1], v) + BitsOf(Tail(q), v)
        BY <1>0, BitsOfTail
  <2>3. BitsOf(q, v) \in Nat /\ BitsOf(harq.pkts, v) \in Nat /\ BitsOf(Tail(q), v) \in Nat
    <3>1. \A i \in DOMAIN Tail(q) : Tail(q)[i].size \in Nat
      <4>1. \A i \in DOMAIN Tail(q) : Tail(q)[i] \in BufferEntry
            BY <1>0
      <4>. QED  BY <4>1 DEF BufferEntry
    <3>. QED  BY <1>0, <3>1, BitsOfNat, PartsAreNat
  <2>4. CASE m = q[1].size /\ q' = Tail(q)
        BY <1>0, <1>2, <2>1, <2>2, <2>3, <2>4 DEF PartOf
  <2>5. CASE m < q[1].size /\ q' = [q EXCEPT ![1] = [q[1] EXCEPT !.size = @ - m]]
    <3>. DEFINE n == q[1].size - m
                e == [q[1] EXCEPT !.size = n]
    <3>1. n \in Nat \ {0}
          BY <1>0, <2>5
    <3>2. q' = [q EXCEPT ![1] = e]
          BY <2>5
    <3>. HIDE DEF n
    <3>3. e \in BufferEntry /\ e.size \in Nat /\ e.size = n /\ e.uid = q[1].uid
          BY <1>0, <3>1 DEF BufferEntry
    <3>. HIDE DEF e
    <3>4. BitsOf(q', v) = PartOf(e, v) + BitsOf(Tail(q), v)
          BY <1>0, <3>2, <3>3, BitsOfCut
    <3>. QED  BY <1>0, <1>2, <2>1, <2>2, <2>3, <3>1, <3>3, <3>4 DEF PartOf, n
  <2>. QED  BY <1>1, <2>4, <2>5
<1>5. ASSUME NEW v \in Pkts
      PROVE  BitsOf(q', v) + BitsOf(harq'.pkts, v) + BitsOf(out_pkts', v) = Owed(v)'
  <2>1. Owed(v)' = Owed(v)
        BY <1>0 DEF Owed
  <2>. QED  BY <1>0, <1>4, <2>1 DEF Conserved, Held
<1>. QED  BY <1>5 DEF Conserved, Held

LEMMA LeaveConserved ==
    ASSUME TypeOK, PipelineInOrder, Conserved, Expire \/ Push
    PROVE  Conserved'
<1>1. /\ out_pkts \in Seq(OutEntry) /\ OneEach(out_pkts) /\ out_pkts' \in Seq(OutEntry)
      /\ admitted' = admitted /\ verdict' = verdict
  <2>1. TypeOK'
        BY NextType DEF Next, UeStep
  <2>. QED  BY <2>1 DEF Expire, Push, stages, OneEach, PipelineInOrder, ReleaseOrder,
                        TypeOK, ReleaseTypeOK
<1>2. ASSUME NEW v \in Pkts
      PROVE  Held(v)' = Held(v)
  <2>1. CASE Expire
    <3>1. PICK u \in Pkts, m \in Nat :
            1 \in DOMAIN q /\ u = q[1].uid /\ m = q[1].size /\ Dropped(out_pkts', u, m)
          BY <2>1, ExpireIs
    <3>2. /\ q \in Seq(BufferEntry) /\ q # <<>> /\ \A i \in DOMAIN q : q[i].size \in Nat
          /\ q' = Tail(q) /\ harq' = harq
          BY <2>1, Fields DEF Expire, grant
    <3>3. BitsOf(q, v) = PartOf(q[1], v) + BitsOf(q', v)
          BY <3>2, BitsOfTail
    <3>4. BitsOf(out_pkts', v) = BitsOf(out_pkts, v) + (IF v = u THEN m ELSE 0)
          BY <1>1, <3>1, PushedBits
    <3>5. PartOf(q[1], v) = (IF v = u THEN m ELSE 0)
          BY <3>1 DEF PartOf
    <3>6. /\ BitsOf(q, v) \in Nat /\ BitsOf(harq.pkts, v) \in Nat
          /\ BitsOf(out_pkts, v) \in Nat /\ BitsOf(q', v) \in Nat
      <4>1. q' \in Seq(BufferEntry) /\ \A i \in DOMAIN q' : q'[i] \in BufferEntry
            BY <3>2
      <4>2. \A i \in DOMAIN q' : q'[i].size \in Nat
            BY <4>1 DEF BufferEntry
      <4>. QED  BY <4>1, <4>2, BitsOfNat, PartsAreNat
    <3>7. harq'.pkts = harq.pkts
          BY <3>2
    <3>. QED  BY <3>1, <3>3, <3>4, <3>5, <3>6, <3>7 DEF Held
  <2>2. CASE Push
    <3>1. PICK u \in Pkts, m \in Nat :
            /\ 1 \in DOMAIN harq.pkts /\ u = harq.pkts[1].uid /\ m = harq.pkts[1].size
            /\ harq'.pkts = Tail(harq.pkts)
            /\ Pushed(out_pkts', u, m)
          BY <2>2, PushIs
    <3>2. /\ harq.pkts \in Seq(BlockEntry) /\ harq.pkts # <<>>
          /\ \A i \in DOMAIN harq.pkts : harq.pkts[i].size \in Nat
          /\ q' = q
          BY <2>2, Fields DEF Push, buffer
    <3>3. BitsOf(harq.pkts, v) = PartOf(harq.pkts[1], v) + BitsOf(harq'.pkts, v)
          BY <3>1, <3>2, BitsOfTail
    <3>4. BitsOf(out_pkts', v) = BitsOf(out_pkts, v) + (IF v = u THEN m ELSE 0)
          BY <1>1, <3>1, PushedBits
    <3>5. PartOf(harq.pkts[1], v) = (IF v = u THEN m ELSE 0)
          BY <3>1 DEF PartOf
    <3>6. /\ BitsOf(q, v) \in Nat /\ BitsOf(harq.pkts, v) \in Nat
          /\ BitsOf(out_pkts, v) \in Nat /\ BitsOf(harq'.pkts, v) \in Nat
      <4>1. harq'.pkts \in Seq(BlockEntry) /\ \A i \in DOMAIN harq'.pkts : harq'.pkts[i] \in BlockEntry
            BY <3>1, <3>2
      <4>2. \A i \in DOMAIN harq'.pkts : harq'.pkts[i].size \in Nat
            BY <4>1 DEF BlockEntry
      <4>. QED  BY <4>1, <4>2, BitsOfNat, PartsAreNat
    <3>. QED  BY <3>1, <3>2, <3>3, <3>4, <3>5, <3>6 DEF Held
  <2>. QED  BY <2>1, <2>2
<1>3. \A v \in Pkts : Owed(v)' = Owed(v)
      BY <1>1 DEF Owed
<1>. QED  BY <1>2, <1>3 DEF Conserved

(* With its verdict all of a packet leaves out_pkts.                        *)
LEMMA VerdictConserved ==
    ASSUME TypeOK, PipelineInOrder, Conserved, ReleaseDrop \/ ReleaseAccept
    PROVE  Conserved'
<1>1. PICK u \in Pkts, w \in {"accept", "accept_ce", "drop"} :
        /\ 1 \in DOMAIN out_pkts /\ u = out_pkts[1].uid /\ out_pkts[1].size = Size[u]
        /\ verdict[u] = "none"
        /\ verdict' = [verdict EXCEPT ![u] = w]
        /\ out_pkts' = Tail(out_pkts)
      BY VerdictIs
<1>2. /\ q' = q /\ harq' = harq /\ admitted' = admitted
      /\ verdict'[u] # "none" /\ \A v \in Pkts : v # u => verdict'[v] = verdict[v]
      /\ u <= admitted
      BY <1>1 DEF ReleaseDrop, ReleaseAccept, stages, buffer, grant, TypeOK, ReleaseTypeOK,
                  PipelineInOrder, ReleaseOrder
<1>3. /\ out_pkts \in Seq(OutEntry) /\ out_pkts # <<>>
      /\ \A i \in DOMAIN out_pkts : out_pkts[i].size \in Nat
      /\ Size[u] \in Nat
      BY <1>1, Fields
<1>4. ASSUME NEW v \in Pkts
      PROVE  BitsOf(q', v) + BitsOf(harq'.pkts, v) + BitsOf(out_pkts', v) = Owed(v)'
  <2>1. BitsOf(out_pkts, v) = PartOf(out_pkts[1], v) + BitsOf(out_pkts', v)
        BY <1>1, <1>3, BitsOfTail
  <2>2. /\ BitsOf(q, v) \in Nat /\ BitsOf(harq.pkts, v) \in Nat
        /\ BitsOf(out_pkts, v) \in Nat /\ BitsOf(out_pkts', v) \in Nat
    <3>1. out_pkts' \in Seq(OutEntry) /\ \A i \in DOMAIN out_pkts' : out_pkts'[i] \in OutEntry
          BY <1>1, <1>3
    <3>2. \A i \in DOMAIN out_pkts' : out_pkts'[i].size \in Nat
          BY <3>1, EntryFields
    <3>. QED  BY <3>1, <3>2, BitsOfNat, PartsAreNat
  <2>3. BitsOf(q, v) + BitsOf(harq.pkts, v) + BitsOf(out_pkts, v) = Owed(v)
        BY DEF Conserved, Held
  <2>4. CASE v = u
    <3>1. PartOf(out_pkts[1], v) = Size[u] /\ Owed(v) = Size[u] /\ Owed(v)' = 0
          BY <1>1, <1>2, <2>4 DEF PartOf, Owed
    <3>. QED  BY <1>2, <1>3, <2>1, <2>2, <2>3, <3>1
  <2>5. CASE v # u
    <3>1. PartOf(out_pkts[1], v) = 0 /\ Owed(v)' = Owed(v)
          BY <1>1, <1>2, <2>5 DEF PartOf, Owed
    <3>. QED  BY <1>2, <2>1, <2>2, <2>3, <3>1
  <2>. QED  BY <2>4, <2>5
<1>. QED  BY <1>4 DEF Conserved, Held

LEMMA NextConserved ==
    TypeOK /\ PipelineInOrder /\ Conserved /\ [Next]_vars => Conserved'
<1>. SUFFICES ASSUME TypeOK, PipelineInOrder, Conserved, [Next]_vars PROVE Conserved'
     OBVIOUS
<1>1. CASE \/ Capture \/ Ingest \/ IngestDone \/ AdmitDone \/ ExpireDone
           \/ ReleaseDone \/ GetDone \/ UNCHANGED vars
           \/ \E g \in Grants, d \in Delays : Handle(g, d)
  <2>1. \/ UNCHANGED <<q, harq, out_pkts, admitted, verdict>>
        \/ /\ UNCHANGED <<q, out_pkts, admitted, verdict>> /\ harq'.pkts = <<>>
           /\ pc = "mac"
        BY <1>1 DEF Capture, Ingest, IngestDone, AdmitDone, ExpireDone, ReleaseDone, GetDone,
                    Handle, NoHarq, vars, stages, buffer, grant, release, history
  <2>2. UNCHANGED <<q, harq.pkts, out_pkts, admitted, verdict>>
        BY <2>1 DEF PipelineInOrder, InFlightOrder
  <2>. QED  BY <2>2, QuietConserved
<1>. QED  BY <1>1, QuietConserved, EnterConserved, TakeConserved, LeaveConserved,
              VerdictConserved DEF Next, UeStep

(* Between two loops no bit of a packet is missing or counted twice: what   *)
(* is buffered and what waits in out_pkts make up an undecided packet, and  *)
(* nothing is left of a decided one.                                        *)
THEOREM NoBitLost == Safety => []BitsConserved
<1>1. Init => Conserved
  <2>. SUFFICES ASSUME Init, NEW u \in Pkts
                PROVE  BitsOf(q, u) + BitsOf(harq.pkts, u) + BitsOf(out_pkts, u) = Owed(u)
       BY DEF Conserved, Held
  <2>1. q = <<>> /\ harq.pkts = <<>> /\ out_pkts = <<>> /\ Owed(u) = 0
        BY NumPktsAssumption DEF Init, ReleaseInit, NoHarq, Owed, Pkts
  <2>. QED  BY <2>1, BitsOfNothing
<1>2. TypeOK /\ PipelineInOrder /\ Conserved => BitsConserved
  <2>. SUFFICES ASSUME TypeOK, PipelineInOrder, Conserved, pc \in {"mac", "release"},
                       NEW u \in 1..admitted
                PROVE  BitsOf(q, u) + BitsOf(out_pkts, u)
                         = IF verdict[u] = "none" THEN Size[u] ELSE 0
       BY DEF BitsConserved
  <2>1. u \in Pkts /\ u <= admitted
        BY NumPktsAssumption DEF TypeOK, Pkts
  <2>2. BitsOf(harq.pkts, u) = 0
    <3>1. harq.pkts = <<>>
          BY DEF PipelineInOrder, InFlightOrder
    <3>. QED  BY <3>1, BitsOfNothing
  <2>3. BitsOf(q, u) + BitsOf(harq.pkts, u) + BitsOf(out_pkts, u) = Owed(u)
        BY <2>1 DEF Conserved, Held
  <2>4. BitsOf(q, u) \in Nat /\ BitsOf(out_pkts, u) \in Nat
        BY PartsAreNat
  <2>. QED  BY <2>1, <2>2, <2>3, <2>4 DEF Owed
<1>. QED  BY <1>1, <1>2, NextConserved, TypeCorrect, OrderKept, PTL DEF Safety
=============================================================================
