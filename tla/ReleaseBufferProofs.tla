------------------------ MODULE ReleaseBufferProofs ------------------------
(* Lemmas about ReleaseBuffer that the proofs of both PDCP flows rest on:   *)
(* the operators of out_pkts, and sort_by_id.                               *)
EXTENDS ReleaseBuffer, PacketBitsProofs

(* The operators of out_pkts keep its type. *)
LEMMA EntryType ==
    ASSUME NEW u \in Pkts, NEW size \in Nat, NEW wait \in Nat,
           NEW ce \in BOOLEAN, NEW erase \in BOOLEAN
    PROVE  Entry(u, size, wait, ce, erase) \in OutEntry
    BY NumPktsAssumption DEF Entry, OutEntry, PrevUid, Pkts

LEMMA EntryFields ==
    ASSUME NEW e \in OutEntry
    PROVE  e.uid \in Pkts /\ e.size \in Nat /\ e.wait \in Nat
    BY DEF OutEntry

LEMMA EntryUpdates ==
    ASSUME NEW e \in OutEntry, NEW n \in Nat
    PROVE  /\ [e EXCEPT !.wait = n] \in OutEntry
           /\ [e EXCEPT !.size = n] \in OutEntry
           /\ [e EXCEPT !.size = n, !.erase = TRUE] \in OutEntry
    BY DEF OutEntry

(* The search of add_data and remove_data finds an entry of the packet. *)
LEMMA FoundIs ==
    ASSUME NEW u, out_pkts \in Seq(OutEntry), Positions(u) # {}
    PROVE  /\ Found(u) \in DOMAIN out_pkts
           /\ out_pkts[Found(u)].uid = u
<1> DEFINE R == OpToRel(<, Nat)
<1>1. Positions(u) \subseteq Nat
      BY DEF Positions
<1>2. PICK i \in Positions(u) : \A j \in Positions(u) : <<j, i>> \notin R
      BY <1>1, WFMin, NatLessThanWellFounded, Zenon
<1>3. \A j \in Positions(u) : i <= j
  <2>. SUFFICES ASSUME NEW j \in Positions(u), j < i PROVE FALSE
       BY <1>1
  <2>. <<j, i>> \in R
       BY <1>1, Zenon DEF OpToRel
  <2>. QED  BY <1>2
<1>4. Found(u) \in Positions(u)
      BY <1>3 DEF Found
<1>. QED  BY <1>4 DEF Positions

(* A permutation of a sequence in the sense of sort_by_id. *)
LEMMA SortingIs ==
    ASSUME NEW s \in Seq(OutEntry), NEW t \in Sortings(s)
    PROVE  /\ t \in Seq(OutEntry)
           /\ DOMAIN t = DOMAIN s
           /\ \A i, j \in DOMAIN t : i < j => t[i].uid <= t[j].uid
           /\ \E p \in [DOMAIN s -> DOMAIN s] :
                /\ \A i, j \in DOMAIN s : p[i] = p[j] => i = j
                /\ \A i \in DOMAIN s : t[i] = s[p[i]]
<1>1. PICK p \in [DOMAIN s -> DOMAIN s] :
        /\ \A i, j \in DOMAIN s : p[i] = p[j] => i = j
        /\ t = [i \in DOMAIN s |-> s[p[i]]]
      BY DEF Sortings
<1>2. DOMAIN s = 1..Len(s) /\ Len(s) \in Nat
      OBVIOUS
<1>3. t \in [1..Len(s) -> OutEntry]
      BY <1>1, <1>2
<1>4. t \in Seq(OutEntry) /\ DOMAIN t = DOMAIN s
      BY <1>2, <1>3, FunctionSeq
<1>. QED  BY <1>1, <1>4 DEF Sortings

(* What push, drop and the passing of time do to the type of out_pkts.      *)
LEMMA WithDataType ==
    ASSUME out_pkts \in Seq(OutEntry), NEW u \in Pkts, NEW size \in Nat,
           NEW wait \in Nat, NEW ce \in BOOLEAN
    PROVE  WithData(u, size, wait, ce) \in Seq(OutEntry)
<1>1. CASE Positions(u) = {}
  <2>. DEFINE e == Entry(u, size, wait, ce, FALSE)
  <2>1. e \in OutEntry
        BY EntryType
  <2>2. WithData(u, size, wait, ce) = Append(out_pkts, e)
        BY <1>1, Zenon DEF WithData
  <2>. HIDE DEF e
  <2>. QED  BY <2>1, <2>2, Appended
<1>2. CASE Positions(u) # {}
  <2>. DEFINE i == Found(u)
              n == out_pkts[i].size + size
              e == [out_pkts[i] EXCEPT !.size = n]
  <2>1. i \in DOMAIN out_pkts
        BY <1>2, FoundIs
  <2>2. out_pkts[i] \in OutEntry
        BY <2>1
  <2>3. n \in Nat
        BY <2>2, EntryFields
  <2>4. WithData(u, size, wait, ce) = [out_pkts EXCEPT ![i] = e]
        BY <1>2, Zenon DEF WithData
  <2>. HIDE DEF n
  <2>5. e \in OutEntry
        BY <2>2, <2>3, EntryUpdates
  <2>. QED  BY <2>1, <2>4, <2>5, ExceptSeq
<1>. QED  BY <1>1, <1>2

LEMMA WithoutDataType ==
    ASSUME out_pkts \in Seq(OutEntry), NEW u \in Pkts, NEW size \in Nat
    PROVE  WithoutData(u, size) \in Seq(OutEntry)
<1>1. CASE Positions(u) = {}
  <2>. DEFINE e == Entry(u, size, 0, FALSE, TRUE)
  <2>1. e \in OutEntry
        BY EntryType
  <2>2. WithoutData(u, size) = Append(out_pkts, e)
        BY <1>1, Zenon DEF WithoutData
  <2>. HIDE DEF e
  <2>. QED  BY <2>1, <2>2, Appended
<1>2. CASE Positions(u) # {}
  <2>. DEFINE i == Found(u)
              n == out_pkts[i].size + size
              e == [out_pkts[i] EXCEPT !.size = n, !.erase = TRUE]
  <2>1. i \in DOMAIN out_pkts
        BY <1>2, FoundIs
  <2>2. out_pkts[i] \in OutEntry
        BY <2>1
  <2>3. n \in Nat
        BY <2>2, EntryFields
  <2>4. WithoutData(u, size) = [out_pkts EXCEPT ![i] = e]
        BY <1>2, Zenon DEF WithoutData
  <2>. HIDE DEF n
  <2>5. e \in OutEntry
        BY <2>2, <2>3, EntryUpdates
  <2>. QED  BY <2>1, <2>4, <2>5, ExceptSeq
<1>. QED  BY <1>1, <1>2

LEMMA LaterType ==
    ASSUME out_pkts \in Seq(OutEntry)
    PROVE  /\ Later \in Seq(OutEntry)
           /\ DOMAIN Later = DOMAIN out_pkts
           /\ \A i \in DOMAIN out_pkts :
                /\ Later[i].uid = out_pkts[i].uid
                /\ Later[i].size = out_pkts[i].size
                /\ Later[i].erase = out_pkts[i].erase
                /\ Later[i].ce = out_pkts[i].ce
<1>1. DOMAIN out_pkts = 1..Len(out_pkts) /\ Len(out_pkts) \in Nat
      OBVIOUS
<1>. DEFINE n(i) == IF out_pkts[i].wait = 0 THEN 0 ELSE out_pkts[i].wait - 1
<1>2. ASSUME NEW i \in DOMAIN out_pkts
      PROVE  [out_pkts[i] EXCEPT !.wait = n(i)] \in OutEntry
  <2>1. out_pkts[i] \in OutEntry
        OBVIOUS
  <2>2. n(i) \in Nat
        BY <2>1, EntryFields
  <2>. HIDE DEF n
  <2>. QED  BY <2>1, <2>2, EntryUpdates
<1>3. Later = [i \in DOMAIN out_pkts |-> [out_pkts[i] EXCEPT !.wait = n(i)]]
      BY Zenon DEF Later
<1>. HIDE DEF n
<1>4. Later \in [1..Len(out_pkts) -> OutEntry]
      BY <1>1, <1>2, <1>3
<1>5. ASSUME NEW i \in DOMAIN out_pkts
      PROVE  /\ Later[i].uid = out_pkts[i].uid
             /\ Later[i].size = out_pkts[i].size
             /\ Later[i].erase = out_pkts[i].erase
             /\ Later[i].ce = out_pkts[i].ce
  <2>1. out_pkts[i] \in OutEntry
        OBVIOUS
  <2>. QED  BY <1>3, <2>1 DEF OutEntry
<1>. QED  BY <1>1, <1>4, <1>5, FunctionSeq
-----------------------------------------------------------------------------
(* How push and drop change out_pkts: one entry more, at position n, ... *)
OneMore(new, n, u, size) ==
    /\ \A i \in DOMAIN out_pkts : out_pkts[i].uid # u
    /\ DOMAIN new = DOMAIN out_pkts \cup {n}
    /\ n \notin DOMAIN out_pkts
    /\ \A i \in DOMAIN out_pkts : i < n /\ new[i] = out_pkts[i]
    /\ new[n].uid = u /\ new[n].size = size

(* ... or the entry at k longer. *)
OneLonger(new, k, u, size) ==
    /\ DOMAIN new = DOMAIN out_pkts
    /\ \A i \in DOMAIN out_pkts : i # k => new[i] = out_pkts[i]
    /\ out_pkts[k].uid = u /\ new[k].uid = u
    /\ new[k].size = out_pkts[k].size + size

(* A push leaves the erase flag of an entry it finds, a drop sets it. *)
Pushed(new, u, size) ==
    \/ \E n \in Nat : OneMore(new, n, u, size) /\ new[n].erase = FALSE
    \/ \E k \in DOMAIN out_pkts : OneLonger(new, k, u, size) /\ new[k].erase = out_pkts[k].erase

Dropped(new, u, size) ==
    \/ \E n \in Nat : OneMore(new, n, u, size) /\ new[n].erase = TRUE
    \/ \E k \in DOMAIN out_pkts : OneLonger(new, k, u, size) /\ new[k].erase = TRUE

LEMMA WithDataIs ==
    ASSUME out_pkts \in Seq(OutEntry), NEW u \in Pkts, NEW size \in Nat,
           NEW wait \in Nat, NEW ce \in BOOLEAN,
           NEW new, new = WithData(u, size, wait, ce)
    PROVE  Pushed(new, u, size)
<1>1. CASE Positions(u) = {}
  <2>. DEFINE e == Entry(u, size, wait, ce, FALSE)
              n == Len(out_pkts) + 1
  <2>1. e \in OutEntry
        BY EntryType
  <2>2. e.uid = u /\ e.size = size /\ e.erase = FALSE
        BY DEF Entry
  <2>3. new = Append(out_pkts, e)
        BY <1>1, Zenon DEF WithData
  <2>4. \A i \in DOMAIN out_pkts : out_pkts[i].uid # u
        BY <1>1 DEF Positions
  <2>. HIDE DEF e
  <2>5. /\ DOMAIN new = DOMAIN out_pkts \cup {n}
        /\ n \notin DOMAIN out_pkts
        /\ \A i \in DOMAIN out_pkts : i < n /\ new[i] = out_pkts[i]
        /\ new[n] = e
        /\ n \in Nat
        BY <2>1, <2>3, Appended
  <2>6. new[n].uid = u /\ new[n].size = size /\ new[n].erase = FALSE
        BY <2>2, <2>5, Zenon
  <2>. HIDE DEF n
  <2>7. OneMore(new, n, u, size)
        BY <2>4, <2>5, <2>6 DEF OneMore
  <2>. QED  BY <2>5, <2>6, <2>7, Zenon DEF Pushed
<1>2. CASE Positions(u) # {}
  <2>. DEFINE k == Found(u)
              m == out_pkts[k].size + size
  <2>1. k \in DOMAIN out_pkts /\ out_pkts[k].uid = u
        BY <1>2, FoundIs
  <2>2. new = [out_pkts EXCEPT ![k] = [out_pkts[k] EXCEPT !.size = m]]
        BY <1>2, Zenon DEF WithData
  <2>3. out_pkts[k] \in OutEntry
        BY <2>1
  <2>. HIDE DEF k, m
  <2>4. /\ DOMAIN new = DOMAIN out_pkts
        /\ \A i \in DOMAIN out_pkts : i # k => new[i] = out_pkts[i]
        /\ new[k] = [out_pkts[k] EXCEPT !.size = m]
        BY <2>1, <2>2
  <2>5. new[k].uid = out_pkts[k].uid /\ new[k].size = m /\ new[k].erase = out_pkts[k].erase
        BY <2>3, <2>4 DEF OutEntry
  <2>6. OneLonger(new, k, u, size)
        BY <2>1, <2>4, <2>5 DEF OneLonger, m
  <2>. QED  BY <2>1, <2>5, <2>6, Zenon DEF Pushed
<1>. QED  BY <1>1, <1>2

LEMMA WithoutDataIs ==
    ASSUME out_pkts \in Seq(OutEntry), NEW u \in Pkts, NEW size \in Nat,
           NEW new, new = WithoutData(u, size)
    PROVE  Dropped(new, u, size)
<1>1. CASE Positions(u) = {}
  <2>. DEFINE e == Entry(u, size, 0, FALSE, TRUE)
              n == Len(out_pkts) + 1
  <2>1. e \in OutEntry
        BY EntryType
  <2>2. e.uid = u /\ e.size = size /\ e.erase = TRUE
        BY DEF Entry
  <2>3. new = Append(out_pkts, e)
        BY <1>1, Zenon DEF WithoutData
  <2>4. \A i \in DOMAIN out_pkts : out_pkts[i].uid # u
        BY <1>1 DEF Positions
  <2>. HIDE DEF e
  <2>5. /\ DOMAIN new = DOMAIN out_pkts \cup {n}
        /\ n \notin DOMAIN out_pkts
        /\ \A i \in DOMAIN out_pkts : i < n /\ new[i] = out_pkts[i]
        /\ new[n] = e
        /\ n \in Nat
        BY <2>1, <2>3, Appended
  <2>6. new[n].uid = u /\ new[n].size = size /\ new[n].erase = TRUE
        BY <2>2, <2>5, Zenon
  <2>. HIDE DEF n
  <2>7. OneMore(new, n, u, size)
        BY <2>4, <2>5, <2>6 DEF OneMore
  <2>. QED  BY <2>5, <2>6, <2>7, Zenon DEF Dropped
<1>2. CASE Positions(u) # {}
  <2>. DEFINE k == Found(u)
              m == out_pkts[k].size + size
  <2>1. k \in DOMAIN out_pkts /\ out_pkts[k].uid = u
        BY <1>2, FoundIs
  <2>2. new = [out_pkts EXCEPT ![k] = [out_pkts[k] EXCEPT !.size = m, !.erase = TRUE]]
        BY <1>2, Zenon DEF WithoutData
  <2>3. out_pkts[k] \in OutEntry
        BY <2>1
  <2>. HIDE DEF k, m
  <2>4. /\ DOMAIN new = DOMAIN out_pkts
        /\ \A i \in DOMAIN out_pkts : i # k => new[i] = out_pkts[i]
        /\ new[k] = [out_pkts[k] EXCEPT !.size = m, !.erase = TRUE]
        BY <2>1, <2>2
  <2>5. new[k].uid = out_pkts[k].uid /\ new[k].size = m /\ new[k].erase = TRUE
        BY <2>3, <2>4 DEF OutEntry
  <2>6. OneLonger(new, k, u, size)
        BY <2>1, <2>4, <2>5 DEF OneLonger, m
  <2>. QED  BY <2>1, <2>5, <2>6, Zenon DEF Dropped
<1>. QED  BY <1>1, <1>2

(* sort_by_id when no two entries have the same uid. *)
LEMMA SortedOrder ==
    ASSUME NEW s \in Seq(OutEntry), NEW t \in Sortings(s),
           \A i, j \in DOMAIN s : s[i].uid = s[j].uid => i = j
    PROVE  /\ \A i \in DOMAIN t : \E k \in DOMAIN s : t[i] = s[k]
           /\ \A i, j \in DOMAIN t : t[i].uid = t[j].uid => i = j
           /\ \A i, j \in DOMAIN t : i < j => t[i].uid < t[j].uid
<1>1. /\ DOMAIN t = DOMAIN s
      /\ \A i, j \in DOMAIN t : i < j => t[i].uid <= t[j].uid
      BY SortingIs
<1>2. PICK p \in [DOMAIN s -> DOMAIN s] :
        /\ \A i, j \in DOMAIN s : p[i] = p[j] => i = j
        /\ \A i \in DOMAIN s : t[i] = s[p[i]]
      BY SortingIs
<1>3. \A i, j \in DOMAIN t : t[i].uid = t[j].uid => i = j
      BY <1>1, <1>2
<1>4. \A i \in DOMAIN t : i \in Nat /\ t[i].uid \in Nat
  <2>1. \A i \in DOMAIN t : i \in Nat /\ t[i] \in OutEntry
        BY SortingIs
  <2>. QED  BY <2>1, EntryFields, NumPktsAssumption DEF Pkts
<1>5. \A i, j \in DOMAIN t : i < j => t[i].uid < t[j].uid
      BY <1>1, <1>3, <1>4
<1>. QED  BY <1>1, <1>2, <1>3, <1>5

(* One iteration of release(): its types, and what leaves with which verdict. *)
LEMMA ReleaseType ==
    ASSUME ReleaseTypeOK, DropFirst \/ AcceptFirst
    PROVE  ReleaseTypeOK'
<1>1. /\ out_pkts # <<>>
      /\ \E v \in {"accept", "accept_ce", "drop"} : GiveVerdict(v)
      BY DEF DropFirst, AcceptFirst
<1>2. Head(out_pkts) \in OutEntry /\ Tail(out_pkts) \in Seq(OutEntry)
      BY <1>1 DEF ReleaseTypeOK
<1>3. Head(out_pkts).uid \in Pkts
      BY <1>2 DEF OutEntry
<1>. QED  BY <1>1, <1>2, <1>3 DEF GiveVerdict, ReleaseTypeOK, Pkts

LEMMA LeavesIs ==
    ASSUME ReleaseTypeOK, DropFirst \/ AcceptFirst
    PROVE  \E u \in Pkts, v \in {"accept", "accept_ce", "drop"} :
             /\ 1 \in DOMAIN out_pkts /\ u = out_pkts[1].uid /\ out_pkts[1].size = Size[u]
             /\ v = "drop" <=> out_pkts[1].erase
             /\ v = "accept_ce" => out_pkts[1].ce
             /\ verdict' = [verdict EXCEPT ![u] = v]
             /\ out_pkts' = Tail(out_pkts)
<1>1. out_pkts \in Seq(OutEntry) /\ out_pkts # <<>>
      BY DEF ReleaseTypeOK, DropFirst, AcceptFirst
<1>2. 1 \in DOMAIN out_pkts /\ Head(out_pkts) = out_pkts[1] /\ out_pkts[1] \in OutEntry
      BY <1>1, HeadTail
<1>3. PICK u \in Pkts : u = out_pkts[1].uid
      BY <1>2, EntryFields
<1>4. CASE DropFirst
      BY <1>2, <1>3, <1>4 DEF DropFirst, DropDue, IsReady, GiveVerdict
<1>5. CASE AcceptFirst
  <2>1. PICK v \in {"accept", "accept_ce"} :
          GiveVerdict(v) /\ (v = "accept_ce" => Head(out_pkts).ce)
        BY <1>5 DEF AcceptFirst
  <2>. QED  BY <1>2, <1>3, <1>5, <2>1, ZenonT(40) DEF AcceptFirst, AcceptDue, IsReady, GiveVerdict
<1>. QED  BY <1>4, <1>5

(* Which entries are marked after a push, a drop and a step of time.        *)
LEMMA MarksOfRelease ==
    ASSUME out_pkts \in Seq(OutEntry), NEW u \in Pkts, NEW size \in Nat, NEW wait \in Nat,
           NEW ce \in BOOLEAN, NEW new,
           new = WithData(u, size, wait, ce) \/ new = WithoutData(u, size)
    PROVE  \A i \in DOMAIN new : new[i].ce =>
             \/ ce /\ new[i].uid = u
             \/ i \in DOMAIN out_pkts /\ out_pkts[i].ce /\ out_pkts[i].uid = new[i].uid
<1>1. CASE Positions(u) = {}
  <2>1. PICK d \in OutEntry : new = Append(out_pkts, d) /\ d.uid = u /\ (d.ce => ce)
    <3>1. CASE new = WithData(u, size, wait, ce)
      <4>1. Entry(u, size, wait, ce, FALSE) \in OutEntry
            BY EntryType
      <4>2. /\ Entry(u, size, wait, ce, FALSE).uid = u
            /\ Entry(u, size, wait, ce, FALSE).ce = ce
            BY DEF Entry
      <4>. QED  BY <1>1, <3>1, <4>1, <4>2 DEF WithData
    <3>2. CASE new = WithoutData(u, size)
      <4>1. Entry(u, size, 0, FALSE, TRUE) \in OutEntry
            BY EntryType
      <4>2. /\ Entry(u, size, 0, FALSE, TRUE).uid = u
            /\ Entry(u, size, 0, FALSE, TRUE).ce = FALSE
            BY DEF Entry
      <4>. QED  BY <1>1, <3>2, <4>1, <4>2 DEF WithoutData
    <3>. QED  BY <3>1, <3>2
  <2>. QED  BY <2>1, Appended
<1>2. CASE Positions(u) # {}
  <2>1. Found(u) \in DOMAIN out_pkts /\ \A i \in DOMAIN out_pkts : out_pkts[i] \in OutEntry
        BY <1>2, FoundIs
  <2>2. PICK d : /\ new = [out_pkts EXCEPT ![Found(u)] = d]
                 /\ d.ce = out_pkts[Found(u)].ce /\ d.uid = out_pkts[Found(u)].uid
    <3>1. CASE new = WithData(u, size, wait, ce)
      <4>. DEFINE n == out_pkts[Found(u)].size + size
                  d == [out_pkts[Found(u)] EXCEPT !.size = n]
      <4>1. new = [out_pkts EXCEPT ![Found(u)] = d]
            BY <1>2, <3>1 DEF WithData
      <4>2. d.ce = out_pkts[Found(u)].ce /\ d.uid = out_pkts[Found(u)].uid
            BY <2>1 DEF OutEntry
      <4>. QED  BY <4>1, <4>2
    <3>2. CASE new = WithoutData(u, size)
      <4>. DEFINE n == out_pkts[Found(u)].size + size
                  d == [out_pkts[Found(u)] EXCEPT !.size = n, !.erase = TRUE]
      <4>1. new = [out_pkts EXCEPT ![Found(u)] = d]
            BY <1>2, <2>1, <3>2 DEF WithoutData
      <4>2. d.ce = out_pkts[Found(u)].ce /\ d.uid = out_pkts[Found(u)].uid
            BY <2>1 DEF OutEntry
      <4>. QED  BY <4>1, <4>2
    <3>. QED  BY <3>1, <3>2
  <2>. QED  BY <2>1, <2>2
<1>. QED  BY <1>1, <1>2

(* Sorting adds no entry ... *)
LEMMA SortedFrom ==
    ASSUME NEW s \in Seq(OutEntry), NEW t \in Sortings(s)
    PROVE  \A i \in DOMAIN t : \E k \in DOMAIN s : t[i] = s[k]
BY SortingIs

(* ... and loses none.                                                      *)
LEMMA SortedAll ==
    ASSUME NEW s \in Seq(OutEntry), NEW t \in Sortings(s)
    PROVE  \A k \in DOMAIN s : \E i \in DOMAIN t : t[i] = s[k]
<1>1. DOMAIN t = DOMAIN s
      BY SortingIs
<1>2. PICK p \in [DOMAIN s -> DOMAIN s] :
        /\ \A i, j \in DOMAIN s : p[i] = p[j] => i = j
        /\ \A i \in DOMAIN s : t[i] = s[p[i]]
      BY SortingIs
<1>3. IsFiniteSet(DOMAIN s)
  <2>1. DOMAIN s = 1..Len(s) /\ 1 \in Int /\ Len(s) \in Int
        OBVIOUS
  <2>. QED  BY <2>1, FS_Interval
<1>4. p \in Injection(DOMAIN s, DOMAIN s)
      BY <1>2 DEF Injection, IsInjective
<1>5. p \in Surjection(DOMAIN s, DOMAIN s)
      BY <1>3, <1>4, FS_Injection
<1>6. \A k \in DOMAIN s : \E i \in DOMAIN s : p[i] = k
      BY <1>5 DEF Surjection
<1>. QED  BY <1>1, <1>2, <1>6
-----------------------------------------------------------------------------
(* When no packet has two entries, its bits are the size of its entry.      *)
OneEach(s) == \A i, j \in DOMAIN s : s[i].uid = s[j].uid => i = j

LEMMA BitsOfEntry ==
    ASSUME NEW s \in Seq(OutEntry), OneEach(s), NEW i \in DOMAIN s
    PROVE  BitsOf(s, s[i].uid) = s[i].size /\ s[i].size \in Nat
<1>1. \A j \in DOMAIN s : s[j].size \in Nat
  <2>1. \A j \in DOMAIN s : s[j] \in OutEntry
        OBVIOUS
  <2>. QED  BY <2>1, EntryFields
<1>. QED  BY <1>1, BitsOfOne DEF OneEach

LEMMA BitsOfAbsent ==
    ASSUME NEW s \in Seq(OutEntry), NEW u, \A i \in DOMAIN s : s[i].uid # u
    PROVE  BitsOf(s, u) = 0
<1>1. \A j \in DOMAIN s : s[j].size \in Nat
  <2>1. \A j \in DOMAIN s : s[j] \in OutEntry
        OBVIOUS
  <2>. QED  BY <2>1, EntryFields
<1>. QED  BY <1>1, BitsOfNone

(* Sorting keeps the bits of every packet ...                               *)
LEMMA SortedBits ==
    ASSUME NEW s \in Seq(OutEntry), OneEach(s), NEW t \in Sortings(s), NEW u
    PROVE  BitsOf(t, u) = BitsOf(s, u) /\ OneEach(t)
<1>1. /\ t \in Seq(OutEntry)
      /\ \A i \in DOMAIN t : \E k \in DOMAIN s : t[i] = s[k]
      /\ \A k \in DOMAIN s : \E i \in DOMAIN t : t[i] = s[k]
      BY SortingIs, SortedAll
<1>2. OneEach(t)
      BY SortedOrder DEF OneEach
<1>3. CASE \E k \in DOMAIN s : s[k].uid = u
  <2>1. PICK k \in DOMAIN s, i \in DOMAIN t : s[k].uid = u /\ t[i] = s[k]
        BY <1>1, <1>3
  <2>2. BitsOf(s, u) = s[k].size /\ BitsOf(t, u) = t[i].size
        BY <1>1, <1>2, <2>1, BitsOfEntry, SMTT(30)
  <2>. QED  BY <1>2, <2>1, <2>2
<1>4. CASE \A k \in DOMAIN s : s[k].uid # u
  <2>1. \A i \in DOMAIN t : t[i].uid # u
        BY <1>1, <1>4
  <2>. QED  BY <1>1, <1>2, <1>4, <2>1, BitsOfAbsent
<1>. QED  BY <1>3, <1>4

(* ... and a push or a drop adds to those of its packet only.               *)
LEMMA PushedBits ==
    ASSUME out_pkts \in Seq(OutEntry), OneEach(out_pkts),
           NEW u \in Pkts, NEW size \in Nat, NEW new \in Seq(OutEntry),
           Pushed(new, u, size) \/ Dropped(new, u, size), NEW v
    PROVE  /\ OneEach(new)
           /\ BitsOf(new, v) = BitsOf(out_pkts, v) + (IF v = u THEN size ELSE 0)
<1>1. /\ OneEach(new)
      /\ \A i \in DOMAIN new : new[i].uid = u => new[i].size = BitsOf(out_pkts, u) + size
      /\ \A i \in DOMAIN new : new[i].uid # u => i \in DOMAIN out_pkts /\ new[i] = out_pkts[i]
      /\ \A i \in DOMAIN out_pkts : out_pkts[i].uid # u => i \in DOMAIN new /\ new[i] = out_pkts[i]
      /\ \E i \in DOMAIN new : new[i].uid = u
  <2>1. CASE \E n \in Nat : OneMore(new, n, u, size)
    <3>1. PICK n \in Nat : OneMore(new, n, u, size)
          BY <2>1
    <3>2. BitsOf(out_pkts, u) = 0
          BY <3>1, BitsOfAbsent DEF OneMore
    <3>. QED  BY <3>1, <3>2 DEF OneMore, OneEach
  <2>2. CASE \E k \in DOMAIN out_pkts : OneLonger(new, k, u, size)
    <3>1. PICK k \in DOMAIN out_pkts : OneLonger(new, k, u, size)
          BY <2>2
    <3>2. BitsOf(out_pkts, u) = out_pkts[k].size
          BY <3>1, BitsOfEntry DEF OneLonger
    <3>. QED  BY <3>1, <3>2 DEF OneLonger, OneEach
  <2>. QED  BY <2>1, <2>2 DEF Pushed, Dropped
<1>2. CASE v = u
  <2>1. PICK i \in DOMAIN new : new[i].uid = u
        BY <1>1
  <2>2. BitsOf(new, u) = new[i].size
        BY <1>1, <2>1, BitsOfEntry
  <2>. QED  BY <1>1, <1>2, <2>1, <2>2
<1>3. CASE v # u /\ \E k \in DOMAIN out_pkts : out_pkts[k].uid = v
  <2>1. PICK k \in DOMAIN out_pkts : out_pkts[k].uid = v
        BY <1>3
  <2>2. k \in DOMAIN new /\ new[k] = out_pkts[k]
        BY <1>1, <1>3, <2>1
  <2>3. BitsOf(new, v) = out_pkts[k].size /\ BitsOf(out_pkts, v) = out_pkts[k].size
        /\ out_pkts[k].size \in Nat
        BY <1>1, <2>1, <2>2, BitsOfEntry
  <2>. QED  BY <1>1, <1>3, <2>3
<1>4. CASE v # u /\ \A k \in DOMAIN out_pkts : out_pkts[k].uid # v
  <2>1. \A i \in DOMAIN new : new[i].uid # v
        BY <1>1, <1>4
  <2>2. BitsOf(new, v) = 0 /\ BitsOf(out_pkts, v) = 0
        BY <1>4, <2>1, BitsOfAbsent
  <2>. QED  BY <1>1, <1>4, <2>2
<1>. QED  BY <1>2, <1>3, <1>4
=============================================================================
