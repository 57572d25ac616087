-------------------------- MODULE PacketBitsProofs --------------------------
(* Lemmas about sequences, what is counted in them and how a float counts   *)
(* it, on which the proofs of every model with packets in queues rest.      *)
EXTENDS PacketBits, BufferSize, FiniteSetTheorems, WellFoundedInduction, TLAPS

(* A change of one element, or of every element, leaves a sequence of the   *)
(* same length.                                                             *)
LEMMA ExceptSeq ==
    ASSUME NEW S, NEW s \in Seq(S), NEW i \in DOMAIN s, NEW e \in S
    PROVE  /\ [s EXCEPT ![i] = e] \in Seq(S)
           /\ Len([s EXCEPT ![i] = e]) = Len(s)
           /\ DOMAIN [s EXCEPT ![i] = e] = DOMAIN s
    OBVIOUS

LEMMA FunctionSeq ==
    ASSUME NEW S, NEW n \in Nat, NEW f \in [1..n -> S]
    PROVE  f \in Seq(S) /\ Len(f) = n
    OBVIOUS

(* What Head, Tail and Append return. *)
LEMMA HeadTail ==
    ASSUME NEW S, NEW s \in Seq(S), s # <<>>
    PROVE  /\ Head(s) \in S /\ Tail(s) \in Seq(S)
           /\ 1 \in DOMAIN s /\ Head(s) = s[1]
           /\ \A i \in DOMAIN Tail(s) : i \in Nat /\ i + 1 \in DOMAIN s /\ Tail(s)[i] = s[i + 1]
           /\ \A i \in DOMAIN s : i # 1 => i - 1 \in DOMAIN Tail(s)
<1>1. Len(s) \in Nat \ {0} /\ DOMAIN s = 1..Len(s)
      OBVIOUS
<1>2. Tail(s) \in Seq(S) /\ DOMAIN Tail(s) = 1..(Len(s) - 1)
      BY <1>1
<1>. QED  BY <1>1, <1>2

LEMMA Appended ==
    ASSUME NEW S, NEW s \in Seq(S), NEW e \in S
    PROVE  /\ Append(s, e) \in Seq(S)
           /\ DOMAIN Append(s, e) = DOMAIN s \cup {Len(s) + 1}
           /\ Len(s) + 1 \notin DOMAIN s
           /\ \A i \in DOMAIN s : i < Len(s) + 1 /\ Append(s, e)[i] = s[i]
           /\ Append(s, e)[Len(s) + 1] = e
    OBVIOUS
-----------------------------------------------------------------------------
(* Induction, for a set of numbers.                                         *)
LEMMA AllOfNat ==
    ASSUME NEW T \in SUBSET Nat, 0 \in T, \A n \in T : n + 1 \in T
    PROVE  T = Nat
<1>. DEFINE R == OpToRel(<, Nat)
            U == Nat \ T
<1>. SUFFICES ASSUME U # {} PROVE FALSE
     OBVIOUS
<1>1. PICK x \in U : \A y \in U : <<y, x>> \notin R
      BY WFMin, NatLessThanWellFounded, Zenon
<1>2. x \in Nat /\ x # 0 /\ x - 1 \in Nat /\ x - 1 < x
      OBVIOUS
<1>3. <<x - 1, x>> \in R
      BY <1>2, Zenon DEF OpToRel
<1>4. x - 1 \in T
      BY <1>1, <1>2, <1>3
<1>. QED  BY <1>2, <1>4

(* The partial sums of n, up to k.                                          *)
AreSums(f, n, k) ==
    /\ f \in [0..k -> Nat] /\ f[0] = 0
    /\ \A i \in 1..k : f[i] = f[i - 1] + n[i]

LEMMA SumsExist ==
    ASSUME NEW n, NEW k \in Nat, \A i \in 1..k : n[i] \in Nat
    PROVE  \E f : AreSums(f, n, k)
<1>. DEFINE T == {l \in Nat : l <= k => \E f : AreSums(f, n, l)}
<1>1. 0 \in T
  <2>1. AreSums([i \in 0..0 |-> 0], n, 0)
        BY DEF AreSums
  <2>. QED  BY <2>1
<1>2. ASSUME NEW l \in T
      PROVE  l + 1 \in T
  <2>. SUFFICES ASSUME l + 1 <= k
                PROVE  \E f : AreSums(f, n, l + 1)
       OBVIOUS
  <2>1. PICK f : AreSums(f, n, l)
        OBVIOUS
  <2>2. l \in Nat /\ n[l + 1] \in Nat /\ f[l] \in Nat
        BY <2>1 DEF AreSums
  <2>. DEFINE g == [i \in 0..(l + 1) |-> IF i = l + 1 THEN f[l] + n[l + 1] ELSE f[i]]
  <2>3. \A i \in 0..l : g[i] = f[i] /\ f[i] \in Nat
        BY <2>1, <2>2 DEF AreSums
  <2>4. g[l + 1] = f[l] + n[l + 1] /\ g[l + 1] \in Nat
        BY <2>2
  <2>5. g \in [0..(l + 1) -> Nat]
        BY <2>2, <2>3, <2>4
  <2>6. g[0] = 0
        BY <2>1, <2>2, <2>3 DEF AreSums
  <2>7. ASSUME NEW i \in 1..(l + 1)
        PROVE  g[i] = g[i - 1] + n[i]
    <3>1. CASE i = l + 1
      <4>1. i - 1 = l
            BY <2>2, <3>1
      <4>2. g[i - 1] = f[l]
            BY <2>2, <2>3, <4>1
      <4>. QED  BY <2>4, <3>1, <4>2
    <3>2. CASE i # l + 1
      <4>1. i \in 1..l /\ i \in 0..l /\ i - 1 \in 0..l
            BY <2>2, <3>2
      <4>2. f[i] = f[i - 1] + n[i]
            BY <2>1, <4>1 DEF AreSums
      <4>. QED  BY <2>3, <4>1, <4>2
    <3>. QED  BY <3>1, <3>2
  <2>. HIDE DEF g
  <2>8. AreSums(g, n, l + 1)
        BY <2>5, <2>6, <2>7 DEF AreSums
  <2>. QED  BY <2>8
<1>. HIDE DEF T
<1>3. T = Nat
  <2>1. T \in SUBSET Nat
        BY DEF T
  <2>. QED  BY <1>1, <1>2, <2>1, AllOfNat
<1>. QED  BY <1>3 DEF T

(* What is added up so far does not depend on what comes later.             *)
LEMMA SumsAgree ==
    ASSUME NEW f, NEW g, NEW n, NEW m, NEW k \in Nat, NEW j \in Nat,
           AreSums(f, n, k), AreSums(g, m, j),
           NEW l \in Nat, l <= k, l <= j, \A i \in 1..l : n[i] = m[i]
    PROVE  f[l] = g[l]
<1>. DEFINE T == {i \in Nat : i <= l => f[i] = g[i]}
<1>1. 0 \in T
      BY DEF AreSums
<1>2. ASSUME NEW i \in T
      PROVE  i + 1 \in T
  <2>. SUFFICES ASSUME i + 1 <= l
                PROVE  f[i + 1] = g[i + 1]
       OBVIOUS
  <2>1. i \in Nat /\ f[i] = g[i] /\ i + 1 \in 1..k /\ i + 1 \in 1..j /\ i + 1 \in 1..l
        OBVIOUS
  <2>2. (i + 1) - 1 = i
        BY <2>1
  <2>3. f[i + 1] = f[i] + n[i + 1] /\ g[i + 1] = g[i] + m[i + 1]
        BY <2>1, <2>2 DEF AreSums
  <2>. QED  BY <2>1, <2>3
<1>. HIDE DEF T
<1>3. T = Nat
  <2>1. T \in SUBSET Nat
        BY DEF T
  <2>. QED  BY <1>1, <1>2, <2>1, AllOfNat
<1>. QED  BY <1>3 DEF T

(* SumOf is the last of the partial sums.                                   *)
LEMMA SumOfIs ==
    ASSUME NEW n \in Seq(Nat)
    PROVE  /\ SumOf(n) \in Nat
           /\ \E f : AreSums(f, n, Len(n)) /\ SumOf(n) = f[Len(n)]
<1>. DEFINE k == Len(n)
            Sums(s) == [i \in 0..k |-> IF i = 0 THEN 0 ELSE s[i - 1] + n[i]]
            sum == CHOOSE s : s = Sums(s)
<1>1. k \in Nat /\ \A i \in 1..k : n[i] \in Nat
      OBVIOUS
<1>2. PICK f : AreSums(f, n, k)
      BY <1>1, SumsExist
<1>3. f = Sums(f)
  <2>1. f \in [0..k -> Nat]
        BY <1>2 DEF AreSums
  <2>2. \A i \in 0..k : f[i] = IF i = 0 THEN 0 ELSE f[i - 1] + n[i]
        BY <1>1, <1>2 DEF AreSums
  <2>. QED  BY <2>1, <2>2
<1>4. sum = Sums(sum)
      BY <1>3, Zenon
<1>5. SumOf(n) = sum[k]
      BY Zenon DEF SumOf
<1>. HIDE DEF sum
<1>6. sum[0] = 0 /\ \A i \in 1..k : sum[i] = sum[i - 1] + n[i]
      BY <1>1, <1>4
<1>. DEFINE T == {i \in Nat : i <= k => sum[i] = f[i]}
<1>7. 0 \in T
      BY <1>2, <1>6 DEF AreSums
<1>8. ASSUME NEW i \in T
      PROVE  i + 1 \in T
  <2>. SUFFICES ASSUME i + 1 <= k
                PROVE  sum[i + 1] = f[i + 1]
       OBVIOUS
  <2>1. i \in Nat /\ sum[i] = f[i] /\ i + 1 \in 1..k /\ (i + 1) - 1 = i
        BY <1>1
  <2>2. f[i + 1] = f[i] + n[i + 1]
        BY <1>2, <2>1 DEF AreSums
  <2>. QED  BY <1>6, <2>1, <2>2
<1>. HIDE DEF T
<1>9. T = Nat
  <2>1. T \in SUBSET Nat
        BY DEF T
  <2>. QED  BY <1>7, <1>8, <2>1, AllOfNat
<1>10. SumOf(n) = f[k]
      BY <1>1, <1>5, <1>9 DEF T
<1>11. f[k] \in Nat
      BY <1>1, <1>2 DEF AreSums
<1>. QED  BY <1>2, <1>10, <1>11

(* A sum, whatever way its partial sums are written.                        *)
LEMMA SumOfUnique ==
    ASSUME NEW n \in Seq(Nat), NEW f, AreSums(f, n, Len(n))
    PROVE  SumOf(n) = f[Len(n)]
<1>1. PICK g : AreSums(g, n, Len(n)) /\ SumOf(n) = g[Len(n)]
      BY SumOfIs
<1>2. Len(n) \in Nat /\ Len(n) <= Len(n)
      OBVIOUS
<1>3. g[Len(n)] = f[Len(n)]
      BY <1>1, <1>2, SumsAgree
<1>. QED  BY <1>1, <1>3

(* Sums of nothing, of one number more at the end, and of one at the front. *)
LEMMA SumOfNothing ==
    SumOf(<<>>) = 0
<1>1. AreSums([i \in 0..0 |-> 0], <<>>, 0) /\ <<>> \in Seq(Nat) /\ Len(<<>>) = 0
      BY DEF AreSums
<1>. QED  BY <1>1, SumOfUnique

LEMMA SumOfAppend ==
    ASSUME NEW n \in Seq(Nat), NEW x \in Nat
    PROVE  SumOf(Append(n, x)) = SumOf(n) + x
<1>. DEFINE m == Append(n, x)
            k == Len(n)
<1>1. /\ m \in Seq(Nat) /\ k \in Nat /\ Len(m) = k + 1 /\ m[k + 1] = x
      /\ \A i \in 1..k : n[i] = m[i]
      OBVIOUS
<1>2. PICK f : AreSums(f, n, k) /\ SumOf(n) = f[k]
      BY SumOfIs
<1>3. PICK g : AreSums(g, m, k + 1) /\ SumOf(m) = g[k + 1]
      BY <1>1, SumOfIs
<1>. HIDE DEF m, k
<1>4. f[k] = g[k]
      BY <1>1, <1>2, <1>3, SumsAgree
<1>5. (k + 1) - 1 = k /\ k + 1 \in 1..(k + 1)
      BY <1>1
<1>6. g[k + 1] = g[k] + x
      BY <1>1, <1>3, <1>5 DEF AreSums
<1>. QED  BY <1>2, <1>3, <1>4, <1>6 DEF m

LEMMA SumOfTail ==
    ASSUME NEW n \in Seq(Nat), n # <<>>
    PROVE  SumOf(n) = n[1] + SumOf(Tail(n))
<1>. DEFINE m == Tail(n)
            k == Len(m)
<1>1. /\ m \in Seq(Nat) /\ k \in Nat /\ Len(n) = k + 1 /\ n[1] \in Nat
      /\ \A i \in 1..k : m[i] = n[i + 1] /\ n[i + 1] \in Nat
      OBVIOUS
<1>2. PICK f : AreSums(f, n, k + 1) /\ SumOf(n) = f[k + 1]
      BY <1>1, SumOfIs
<1>3. PICK g : AreSums(g, m, k) /\ SumOf(m) = g[k]
      BY <1>1, SumOfIs
<1>. HIDE DEF m, k
<1>. DEFINE T == {i \in Nat : i <= k => f[i + 1] = n[1] + g[i]}
<1>4. 0 \in T
  <2>1. 1 \in 1..(k + 1) /\ 1 - 1 = 0
        BY <1>1
  <2>2. f[1] = f[0] + n[1] /\ f[0] = 0 /\ g[0] = 0
        BY <1>2, <1>3, <2>1 DEF AreSums
  <2>. QED  BY <1>1, <2>2
<1>5. ASSUME NEW i \in T
      PROVE  i + 1 \in T
  <2>. SUFFICES ASSUME i + 1 <= k
                PROVE  f[(i + 1) + 1] = n[1] + g[i + 1]
       OBVIOUS
  <2>1. /\ i \in Nat /\ f[i + 1] = n[1] + g[i] /\ i \in 0..k
        /\ (i + 1) + 1 \in 1..(k + 1) /\ i + 1 \in 1..k
        /\ ((i + 1) + 1) - 1 = i + 1 /\ (i + 1) - 1 = i
        BY <1>1
  <2>2. f[(i + 1) + 1] = f[i + 1] + n[(i + 1) + 1]
        BY <1>2, <2>1 DEF AreSums
  <2>3. g[i + 1] = g[i] + n[(i + 1) + 1]
        BY <1>1, <1>3, <2>1 DEF AreSums
  <2>4. n[(i + 1) + 1] \in Nat /\ g[i] \in Nat
        BY <1>1, <1>3, <2>1 DEF AreSums
  <2>. QED  BY <1>1, <2>1, <2>2, <2>3, <2>4, SMTT(30)
<1>. HIDE DEF T
<1>6. T = Nat
  <2>1. T \in SUBSET Nat
        BY DEF T
  <2>. QED  BY <1>4, <1>5, <2>1, AllOfNat
<1>7. f[k + 1] = n[1] + g[k]
  <2>1. k \in T /\ k <= k
        BY <1>1, <1>6
  <2>. QED  BY <2>1 DEF T
<1>. QED  BY <1>2, <1>3, <1>7 DEF m

(* A single number that is not zero.                                        *)
LEMMA SumOfOne ==
    ASSUME NEW n \in Seq(Nat), NEW k \in DOMAIN n,
           \A i \in DOMAIN n : i # k => n[i] = 0
    PROVE  SumOf(n) = n[k]
<1>1. /\ k \in Nat /\ k >= 1 /\ k <= Len(n) /\ Len(n) \in Nat /\ n[k] \in Nat
      /\ DOMAIN n = 1..Len(n)
      OBVIOUS
<1>. DEFINE f == [i \in 0..Len(n) |-> IF i < k THEN 0 ELSE n[k]]
<1>2. f \in [0..Len(n) -> Nat] /\ f[0] = 0 /\ f[Len(n)] = n[k]
      BY <1>1
<1>3. ASSUME NEW i \in 1..Len(n)
      PROVE  f[i] = f[i - 1] + n[i]
  <2>1. i \in 0..Len(n) /\ i - 1 \in 0..Len(n) /\ i \in DOMAIN n /\ i \in Int
        BY <1>1
  <2>2. f[i] = (IF i < k THEN 0 ELSE n[k]) /\ f[i - 1] = (IF i - 1 < k THEN 0 ELSE n[k])
        BY <2>1
  <2>. HIDE DEF f
  <2>3. CASE i < k
        BY <1>1, <2>1, <2>2, <2>3
  <2>4. CASE i = k
        BY <1>1, <2>1, <2>2, <2>4
  <2>5. CASE i > k
        BY <1>1, <2>1, <2>2, <2>5
  <2>. QED  BY <1>1, <2>1, <2>3, <2>4, <2>5
<1>. HIDE DEF f
<1>4. AreSums(f, n, Len(n))
      BY <1>2, <1>3 DEF AreSums
<1>. QED  BY <1>2, <1>4, SumOfUnique

LEMMA SumOfZeros ==
    ASSUME NEW n \in Seq(Nat), \A i \in DOMAIN n : n[i] = 0
    PROVE  SumOf(n) = 0
<1>1. CASE n = <<>>
      BY <1>1, SumOfNothing
<1>2. CASE n # <<>>
  <2>1. 1 \in DOMAIN n
        BY <1>2
  <2>2. SumOf(n) = n[1]
        BY <2>1, SumOfOne
  <2>. QED  BY <2>1, <2>2
<1>. QED  BY <1>1, <1>2

(* Queues: the sizes of their elements.                                     *)
LEMMA SizesSeq ==
    ASSUME NEW S, NEW s \in Seq(S), \A i \in DOMAIN s : s[i].size \in Nat, NEW u
    PROVE  /\ [i \in DOMAIN s |-> s[i].size] \in Seq(Nat)
           /\ [i \in DOMAIN s |-> IF s[i].uid = u THEN s[i].size ELSE 0] \in Seq(Nat)
<1>1. Len(s) \in Nat /\ DOMAIN s = 1..Len(s)
      OBVIOUS
<1>2. [i \in DOMAIN s |-> s[i].size] \in [1..Len(s) -> Nat]
      BY <1>1
<1>3. \A i \in DOMAIN s : (IF s[i].uid = u THEN s[i].size ELSE 0) \in Nat
      OBVIOUS
<1>4. [i \in DOMAIN s |-> IF s[i].uid = u THEN s[i].size ELSE 0] \in [1..Len(s) -> Nat]
      BY <1>1, <1>3
<1>. QED  BY <1>1, <1>2, <1>4, FunctionSeq

(* The bits of a queue when a packet joins it, leaves it or is cut.         *)
LEMMA SumSizesNothing ==
    SumSizes(<<>>) = 0
<1>1. [i \in DOMAIN <<>> |-> <<>>[i].size] = <<>>
      OBVIOUS
<1>. QED  BY <1>1, SumOfNothing DEF SumSizes

LEMMA SumSizesAppend ==
    ASSUME NEW S, NEW s \in Seq(S), \A i \in DOMAIN s : s[i].size \in Nat,
           NEW e \in S, e.size \in Nat
    PROVE  SumSizes(Append(s, e)) = SumSizes(s) + e.size
<1>. DEFINE n == [i \in DOMAIN s |-> s[i].size]
            m == [i \in DOMAIN Append(s, e) |-> Append(s, e)[i].size]
<1>1. n \in Seq(Nat)
      BY SizesSeq
<1>2. m = Append(n, e.size)
  <2>1. /\ DOMAIN Append(s, e) = 1..(Len(s) + 1) /\ Len(s) \in Nat
        /\ \A i \in 1..Len(s) : Append(s, e)[i] = s[i]
        /\ Append(s, e)[Len(s) + 1] = e
        OBVIOUS
  <2>2. /\ DOMAIN n = 1..Len(s) /\ Len(n) = Len(s)
        /\ \A i \in 1..Len(s) : n[i] = s[i].size
        BY <1>1
  <2>. HIDE DEF n
  <2>3. Append(n, e.size) = [i \in 1..(Len(s) + 1) |-> IF i = Len(s) + 1 THEN e.size ELSE n[i]]
        BY <1>1, <2>2
  <2>. QED  BY <2>1, <2>2, <2>3
<1>3. SumSizes(s) = SumOf(n) /\ SumSizes(Append(s, e)) = SumOf(m)
      BY Zenon DEF SumSizes
<1>. HIDE DEF n, m
<1>. QED  BY <1>1, <1>2, <1>3, SumOfAppend

LEMMA SumSizesTail ==
    ASSUME NEW S, NEW s \in Seq(S), s # <<>>, \A i \in DOMAIN s : s[i].size \in Nat
    PROVE  SumSizes(s) = s[1].size + SumSizes(Tail(s)) /\ SumSizes(Tail(s)) \in Nat
<1>. DEFINE n == [i \in DOMAIN s |-> s[i].size]
            m == [i \in DOMAIN Tail(s) |-> Tail(s)[i].size]
<1>1. n \in Seq(Nat)
      BY SizesSeq
<1>2. /\ DOMAIN Tail(s) = 1..(Len(s) - 1) /\ Len(s) \in Nat /\ Len(s) >= 1
      /\ DOMAIN s = 1..Len(s)
      /\ \A i \in 1..(Len(s) - 1) : Tail(s)[i] = s[i + 1]
      OBVIOUS
<1>3. DOMAIN n = 1..Len(s) /\ \A i \in 1..Len(s) : n[i] = s[i].size
      BY <1>2
<1>4. m = [i \in 1..(Len(s) - 1) |-> s[i + 1].size]
      BY <1>2
<1>5. SumSizes(s) = SumOf(n) /\ SumSizes(Tail(s)) = SumOf(m)
      BY Zenon DEF SumSizes
<1>. HIDE DEF n, m
<1>6. n # <<>> /\ Len(n) = Len(s) /\ n[1] = s[1].size
      BY <1>1, <1>2, <1>3
<1>7. Tail(n) = [i \in 1..(Len(s) - 1) |-> n[i + 1]]
  <2>1. Tail(n) \in Seq(Nat) /\ Len(Tail(n)) = Len(s) - 1
        BY <1>1, <1>2, <1>6
  <2>2. \A i \in 1..(Len(s) - 1) : Tail(n)[i] = n[i + 1]
        BY <1>1, <1>2, <1>6
  <2>3. \A t \in Seq(Nat) : t = [i \in 1..Len(t) |-> t[i]]
        OBVIOUS
  <2>. QED  BY <2>1, <2>2, <2>3
<1>8. m = Tail(n)
      BY <1>2, <1>3, <1>4, <1>7
<1>9. Tail(n) \in Seq(Nat)
      BY <1>1, <1>6
<1>. QED  BY <1>1, <1>5, <1>6, <1>8, <1>9, SumOfTail, SumOfIs

LEMMA SumSizesCut ==
    ASSUME NEW S, NEW s \in Seq(S), s # <<>>, \A i \in DOMAIN s : s[i].size \in Nat,
           NEW e \in S, e.size \in Nat
    PROVE  SumSizes([s EXCEPT ![1] = e]) = e.size + SumSizes(Tail(s))
<1>. DEFINE r == [s EXCEPT ![1] = e]
<1>1. r \in Seq(S) /\ r # <<>> /\ DOMAIN r = DOMAIN s /\ r[1] = e /\ Tail(r) = Tail(s)
      OBVIOUS
<1>2. \A i \in DOMAIN r : r[i].size \in Nat
      OBVIOUS
<1>. HIDE DEF r
<1>3. SumSizes(r) = r[1].size + SumSizes(Tail(r))
      BY <1>1, <1>2, SumSizesTail
<1>. QED  BY <1>1, <1>3 DEF r

LEMMA SumSizesSame ==
    ASSUME NEW s, NEW t, DOMAIN t = DOMAIN s, \A i \in DOMAIN s : t[i].size = s[i].size
    PROVE  SumSizes(t) = SumSizes(s)
<1>1. [i \in DOMAIN t |-> t[i].size] = [i \in DOMAIN s |-> s[i].size]
      OBVIOUS
<1>. QED  BY <1>1, Zenon DEF SumSizes

LEMMA SumSizesNat ==
    ASSUME NEW S, NEW s \in Seq(S), \A i \in DOMAIN s : s[i].size \in Nat
    PROVE  SumSizes(s) \in Nat
<1>1. [i \in DOMAIN s |-> s[i].size] \in Seq(Nat)
      BY SizesSeq
<1>. QED  BY <1>1, SumOfIs DEF SumSizes

(* The bits of a packet with one entry, or none.                            *)
LEMMA BitsOfOne ==
    ASSUME NEW S, NEW s \in Seq(S), \A i \in DOMAIN s : s[i].size \in Nat,
           NEW k \in DOMAIN s, \A i \in DOMAIN s : s[i].uid = s[k].uid => i = k
    PROVE  BitsOf(s, s[k].uid) = s[k].size
<1>. DEFINE n == [i \in DOMAIN s |-> IF s[i].uid = s[k].uid THEN s[i].size ELSE 0]
<1>1. n \in Seq(Nat)
      BY SizesSeq
<1>2. k \in DOMAIN n /\ n[k] = s[k].size /\ \A i \in DOMAIN n : i # k => n[i] = 0
      OBVIOUS
<1>3. BitsOf(s, s[k].uid) = SumOf(n)
      BY Zenon DEF BitsOf
<1>. HIDE DEF n
<1>. QED  BY <1>1, <1>2, <1>3, SumOfOne

LEMMA BitsOfNone ==
    ASSUME NEW S, NEW s \in Seq(S), \A i \in DOMAIN s : s[i].size \in Nat,
           NEW u, \A i \in DOMAIN s : s[i].uid # u
    PROVE  BitsOf(s, u) = 0
<1>. DEFINE n == [i \in DOMAIN s |-> IF s[i].uid = u THEN s[i].size ELSE 0]
<1>1. n \in Seq(Nat)
      BY SizesSeq
<1>2. \A i \in DOMAIN n : n[i] = 0
      OBVIOUS
<1>3. BitsOf(s, u) = SumOf(n)
      BY Zenon DEF BitsOf
<1>. HIDE DEF n
<1>. QED  BY <1>1, <1>2, <1>3, SumOfZeros

(* The bits of a packet when something joins a queue, leaves it or is cut.  *)
LEMMA BitsOfNat ==
    ASSUME NEW S, NEW s \in Seq(S), \A i \in DOMAIN s : s[i].size \in Nat, NEW u
    PROVE  BitsOf(s, u) \in Nat
<1>1. [i \in DOMAIN s |-> IF s[i].uid = u THEN s[i].size ELSE 0] \in Seq(Nat)
      BY SizesSeq
<1>. QED  BY <1>1, SumOfIs, Zenon DEF BitsOf

(* What of an element e is of packet u.                                     *)
PartOf(e, u) == IF e.uid = u THEN e.size ELSE 0

LEMMA BitsOfSingle ==
    ASSUME NEW e, e.size \in Nat, NEW u
    PROVE  BitsOf(<<e>>, u) = PartOf(e, u)
<1>1. <<e>> \in Seq({e}) /\ 1 \in DOMAIN <<e>> /\ <<e>>[1] = e
      /\ \A i \in DOMAIN <<e>> : i = 1 /\ <<e>>[i] = e
      OBVIOUS
<1>2. PICK s : s = <<e>>
      OBVIOUS
<1>3. /\ s \in Seq({e}) /\ 1 \in DOMAIN s /\ s[1] = e
      /\ \A i \in DOMAIN s : i = 1 /\ s[i] = e /\ s[i].size \in Nat
      BY <1>1, <1>2
<1>4. CASE e.uid = u
  <2>1. BitsOf(s, s[1].uid) = s[1].size
        BY <1>3, BitsOfOne
  <2>. QED  BY <1>2, <1>3, <1>4, <2>1 DEF PartOf
<1>5. CASE e.uid # u
  <2>1. BitsOf(s, u) = 0
        BY <1>3, <1>5, BitsOfNone
  <2>. QED  BY <1>2, <1>5, <2>1 DEF PartOf
<1>. QED  BY <1>4, <1>5

LEMMA BitsOfAppend ==
    ASSUME NEW S, NEW s \in Seq(S), \A i \in DOMAIN s : s[i].size \in Nat,
           NEW e \in S, e.size \in Nat, NEW u
    PROVE  BitsOf(Append(s, e), u) = BitsOf(s, u) + PartOf(e, u)
<1>. DEFINE r == Append(s, e)
            n == [i \in DOMAIN s |-> IF s[i].uid = u THEN s[i].size ELSE 0]
            m == [i \in DOMAIN r |-> IF r[i].uid = u THEN r[i].size ELSE 0]
            x == PartOf(e, u)
<1>1. n \in Seq(Nat)
      BY SizesSeq
<1>2. x \in Nat
      BY DEF PartOf
<1>3. m = Append(n, x)
  <2>1. /\ DOMAIN r = 1..(Len(s) + 1) /\ Len(s) \in Nat
        /\ \A i \in 1..Len(s) : r[i] = s[i]
        /\ r[Len(s) + 1] = e
        OBVIOUS
  <2>2. /\ DOMAIN n = 1..Len(s) /\ Len(n) = Len(s)
        /\ \A i \in 1..Len(s) : n[i] = IF s[i].uid = u THEN s[i].size ELSE 0
        BY <1>1
  <2>. HIDE DEF n, x, r
  <2>3. Append(n, x) = [i \in 1..(Len(s) + 1) |-> IF i = Len(s) + 1 THEN x ELSE n[i]]
    <3>1. /\ Append(n, x) \in Seq(Nat) /\ Len(Append(n, x)) = Len(s) + 1
          /\ \A i \in 1..Len(s) : Append(n, x)[i] = n[i]
          /\ Append(n, x)[Len(s) + 1] = x
          BY <1>1, <1>2, <2>2
    <3>2. \A t \in Seq(Nat) : t = [i \in 1..Len(t) |-> t[i]]
          OBVIOUS
    <3>3. Append(n, x) = [i \in 1..(Len(s) + 1) |-> Append(n, x)[i]]
          BY <3>1, <3>2
    <3>4. \A i \in 1..(Len(s) + 1) :
            Append(n, x)[i] = (IF i = Len(s) + 1 THEN x ELSE n[i])
          BY <2>1, <3>1
    <3>. QED  BY <3>3, <3>4
  <2>4. \A i \in DOMAIN r : (IF r[i].uid = u THEN r[i].size ELSE 0)
                              = IF i = Len(s) + 1 THEN x ELSE n[i]
        BY <2>1, <2>2 DEF x, PartOf
  <2>. QED  BY <2>1, <2>3, <2>4
<1>4. BitsOf(s, u) = SumOf(n) /\ BitsOf(r, u) = SumOf(m)
      BY Zenon DEF BitsOf
<1>. HIDE DEF n, m, x
<1>5. SumOf(Append(n, x)) = SumOf(n) + x
      BY <1>1, <1>2, SumOfAppend
<1>. QED  BY <1>3, <1>4, <1>5 DEF x

LEMMA BitsOfTail ==
    ASSUME NEW S, NEW s \in Seq(S), s # <<>>, \A i \in DOMAIN s : s[i].size \in Nat, NEW u
    PROVE  BitsOf(s, u) = PartOf(s[1], u) + BitsOf(Tail(s), u)
<1>. DEFINE n == [i \in DOMAIN s |-> IF s[i].uid = u THEN s[i].size ELSE 0]
            m == [i \in DOMAIN Tail(s) |-> IF Tail(s)[i].uid = u THEN Tail(s)[i].size ELSE 0]
<1>1. n \in Seq(Nat)
      BY SizesSeq
<1>2. /\ DOMAIN Tail(s) = 1..(Len(s) - 1) /\ Len(s) \in Nat /\ Len(s) >= 1
      /\ DOMAIN s = 1..Len(s)
      /\ \A i \in 1..(Len(s) - 1) : Tail(s)[i] = s[i + 1]
      OBVIOUS
<1>3. DOMAIN n = 1..Len(s) /\ \A i \in 1..Len(s) : n[i] = PartOf(s[i], u)
      BY <1>2 DEF PartOf
<1>4. m = [i \in 1..(Len(s) - 1) |-> PartOf(s[i + 1], u)]
      BY <1>2 DEF PartOf
<1>5. BitsOf(s, u) = SumOf(n) /\ BitsOf(Tail(s), u) = SumOf(m)
      BY Zenon DEF BitsOf
<1>. HIDE DEF n, m
<1>6. n # <<>> /\ Len(n) = Len(s) /\ n[1] = PartOf(s[1], u)
      BY <1>1, <1>2, <1>3
<1>7. Tail(n) = [i \in 1..(Len(s) - 1) |-> n[i + 1]]
  <2>1. Tail(n) \in Seq(Nat) /\ Len(Tail(n)) = Len(s) - 1
        BY <1>1, <1>2, <1>6
  <2>2. \A i \in 1..(Len(s) - 1) : Tail(n)[i] = n[i + 1]
        BY <1>1, <1>2, <1>6
  <2>3. \A t \in Seq(Nat) : t = [i \in 1..Len(t) |-> t[i]]
        OBVIOUS
  <2>. QED  BY <2>1, <2>2, <2>3
<1>8. m = Tail(n)
      BY <1>2, <1>3, <1>4, <1>7
<1>. QED  BY <1>1, <1>5, <1>6, <1>8, SumOfTail

LEMMA BitsOfCut ==
    ASSUME NEW S, NEW s \in Seq(S), s # <<>>, \A i \in DOMAIN s : s[i].size \in Nat,
           NEW e \in S, e.size \in Nat, NEW u
    PROVE  BitsOf([s EXCEPT ![1] = e], u) = PartOf(e, u) + BitsOf(Tail(s), u)
<1>. DEFINE r == [s EXCEPT ![1] = e]
<1>1. r \in Seq(S) /\ r # <<>> /\ DOMAIN r = DOMAIN s /\ r[1] = e /\ Tail(r) = Tail(s)
      OBVIOUS
<1>2. \A i \in DOMAIN r : r[i].size \in Nat
      OBVIOUS
<1>. HIDE DEF r
<1>3. BitsOf(r, u) = PartOf(r[1], u) + BitsOf(Tail(r), u)
      BY <1>1, <1>2, BitsOfTail
<1>. QED  BY <1>1, <1>3 DEF r

LEMMA BitsOfNothing ==
    ASSUME NEW u
    PROVE  BitsOf(<<>>, u) = 0
<1>1. <<>> \in Seq(Nat) /\ DOMAIN <<>> = {}
      OBVIOUS
<1>. QED  BY <1>1, BitsOfNone

LEMMA BitsOfSame ==
    ASSUME NEW s, NEW t, NEW u, DOMAIN t = DOMAIN s,
           \A i \in DOMAIN s : PartOf(t[i], u) = PartOf(s[i], u)
    PROVE  BitsOf(t, u) = BitsOf(s, u)
<1>1. [i \in DOMAIN t |-> IF t[i].uid = u THEN t[i].size ELSE 0]
        = [i \in DOMAIN s |-> IF s[i].uid = u THEN s[i].size ELSE 0]
      BY DEF PartOf
<1>. QED  BY <1>1, Zenon DEF BitsOf

(* Partial sums of numbers that differ in one place, or lack a number.      *)
DifferIn(n, m, l, k) ==
    \A i \in 1..l : n[i] \in Nat /\ m[i] \in Nat /\ (i # k => m[i] = n[i])

LacksOne(n, m, l, k) ==
    /\ \A i \in 1..(l + 1) : n[i] \in Nat
    /\ \A i \in 1..l : m[i] \in Nat /\ m[i] = IF i < k THEN n[i] ELSE n[i + 1]

LEMMA SumsChange ==
    ASSUME NEW l \in Nat, NEW f, NEW g, NEW n, NEW m, AreSums(f, n, l), AreSums(g, m, l),
           NEW k \in 1..l, DifferIn(n, m, l, k)
    PROVE  g[l] + n[k] = f[l] + m[k]
<1>. USE DEF DifferIn
<1>1. PICK x, y \in Nat : x = n[k] /\ y = m[k]
      OBVIOUS
<1>. DEFINE T == {i \in Nat : i <= l => IF i < k THEN g[i] = f[i] ELSE g[i] + x = f[i] + y}
<1>2. 0 \in T
      BY DEF AreSums
<1>3. ASSUME NEW i \in T
      PROVE  i + 1 \in T
  <2>. SUFFICES ASSUME i + 1 <= l
                PROVE  IF i + 1 < k THEN g[i + 1] = f[i + 1]
                       ELSE g[i + 1] + x = f[i + 1] + y
       OBVIOUS
  <2>1. /\ i \in Nat /\ i + 1 \in 1..l /\ (i + 1) - 1 = i /\ i \in 0..l /\ k \in Nat
        /\ IF i < k THEN g[i] = f[i] ELSE g[i] + x = f[i] + y
        OBVIOUS
  <2>2. PICK a, b, c, e \in Nat : a = g[i] /\ b = f[i] /\ c = n[i + 1] /\ e = m[i + 1]
        BY <2>1 DEF AreSums
  <2>3. f[i + 1] = b + c /\ g[i + 1] = a + e
        BY <2>1, <2>2 DEF AreSums
  <2>4. i + 1 # k => c = e
        BY <2>1, <2>2
  <2>5. i + 1 = k => c = x /\ e = y
        BY <1>1, <2>2
  <2>6. IF i < k THEN a = b ELSE a + x = b + y
        BY <2>1, <2>2
  <2>. QED  BY <2>1, <2>3, <2>4, <2>5, <2>6
<1>. HIDE DEF T
<1>4. T = Nat
  <2>1. T \in SUBSET Nat
        BY DEF T
  <2>. QED  BY <1>2, <1>3, <2>1, AllOfNat
<1>5. l \in T /\ l <= l /\ ~(l < k)
      BY <1>4
<1>6. g[l] + x = f[l] + y
      BY <1>5 DEF T
<1>. QED  BY <1>1, <1>6

LEMMA SumsRemoved ==
    ASSUME NEW l \in Nat, NEW j, j = l + 1, NEW f, NEW g, NEW n, NEW m,
           AreSums(f, n, j), AreSums(g, m, l), NEW k \in 1..j, LacksOne(n, m, l, k)
    PROVE  f[j] = g[l] + n[k]
<1>0. AreSums(f, n, l + 1) /\ k \in 1..(l + 1)
      OBVIOUS
<1>. USE <1>0 DEF LacksOne
<1>1. PICK x \in Nat : x = n[k]
      OBVIOUS
<1>. DEFINE Ok(i) == /\ i < k => f[i] = g[i]
                     /\ i + 1 >= k => f[i + 1] = g[i] + x
            T == {i \in Nat : i <= l => Ok(i)}
<1>2. ASSUME NEW i \in 0..l, i < k, f[i] = g[i]
      PROVE  Ok(i)
  <2>1. i + 1 \in 1..(l + 1) /\ (i + 1) - 1 = i
        BY <1>2
  <2>2. f[i + 1] = f[i] + n[i + 1]
        BY <2>1 DEF AreSums
  <2>3. i + 1 >= k => i + 1 = k
        BY <1>2
  <2>. QED  BY <1>1, <1>2, <2>2, <2>3
<1>3. 0 \in T
  <2>1. f[0] = g[0] /\ 0 < k /\ 0 \in 0..l
        BY DEF AreSums
  <2>. HIDE DEF Ok
  <2>2. Ok(0)
        BY <1>2, <2>1
  <2>. QED  BY <2>2
<1>4. ASSUME NEW i \in T
      PROVE  i + 1 \in T
  <2>. SUFFICES ASSUME i + 1 <= l
                PROVE  Ok(i + 1)
       OBVIOUS
  <2>1. /\ i \in Nat /\ i + 1 \in 1..l /\ i + 1 \in 1..(l + 1) /\ (i + 1) + 1 \in 1..(l + 1)
        /\ (i + 1) - 1 = i /\ ((i + 1) + 1) - 1 = i + 1 /\ i \in 0..l /\ i + 1 \in 0..l
        /\ Ok(i) /\ k \in Nat /\ i \in 0..(l + 1)
        OBVIOUS
  <2>0. /\ f[i] \in Nat /\ g[i] \in Nat /\ f[i + 1] \in Nat
        /\ n[i + 1] \in Nat /\ n[(i + 1) + 1] \in Nat
    <3>1. i + 1 \in 0..(l + 1)
          BY <2>1
    <3>. QED  BY <2>1, <3>1 DEF AreSums
  <2>2. PICK a, b, c, e, h \in Nat :
            a = f[i] /\ b = g[i] /\ c = n[i + 1] /\ e = n[(i + 1) + 1] /\ h = f[i + 1]
        BY <2>0
  <2>3. /\ h = a + c /\ f[(i + 1) + 1] = h + e
        /\ g[i + 1] = b + (IF i + 1 < k THEN c ELSE e)
    <3>1. f[i + 1] = f[i] + n[i + 1] /\ f[(i + 1) + 1] = f[i + 1] + n[(i + 1) + 1]
          BY <2>1 DEF AreSums
    <3>2. g[i + 1] = g[i] + m[i + 1]
          BY <2>1 DEF AreSums
    <3>3. m[i + 1] = IF i + 1 < k THEN n[i + 1] ELSE n[(i + 1) + 1]
          BY <2>1
    <3>. QED  BY <2>2, <3>1, <3>2, <3>3
  <2>4. CASE i + 1 < k
    <3>1. f[i + 1] = g[i + 1]
          BY <2>1, <2>2, <2>3, <2>4
    <3>. HIDE DEF Ok
    <3>. QED  BY <1>2, <2>1, <2>4, <3>1
  <2>5. CASE ~(i + 1 < k)
    <3>1. h = b + x
          BY <2>1, <2>2, <2>5
    <3>. QED  BY <2>1, <2>2, <2>3, <2>5, <3>1
  <2>. QED  BY <2>4, <2>5
<1>. HIDE DEF T
<1>5. T = Nat
  <2>1. T \in SUBSET Nat
        BY DEF T
  <2>. QED  BY <1>3, <1>4, <2>1, AllOfNat
<1>6. l \in T /\ l <= l /\ l + 1 >= k
      BY <1>5
<1>. QED  BY <1>1, <1>6 DEF T

(* Two sequences that differ in one place, and one that lacks a number.     *)
LEMMA SumOfChange ==
    ASSUME NEW n \in Seq(Nat), NEW m \in Seq(Nat), Len(m) = Len(n), NEW k \in DOMAIN n,
           \A i \in DOMAIN n : i # k => m[i] = n[i]
    PROVE  SumOf(m) + n[k] = SumOf(n) + m[k]
<1>1. PICK l \in Nat : l = Len(n)
      OBVIOUS
<1>2. DOMAIN n = 1..l /\ k \in 1..l /\ \A i \in 1..l : n[i] \in Nat /\ m[i] \in Nat
      BY <1>1
<1>3. DifferIn(n, m, l, k)
      BY <1>2 DEF DifferIn
<1>4. PICK f : AreSums(f, n, l) /\ SumOf(n) = f[l]
      BY <1>1, SumOfIs
<1>5. PICK g : AreSums(g, m, l) /\ SumOf(m) = g[l]
      BY <1>1, SumOfIs
<1>6. g[l] + n[k] = f[l] + m[k]
      BY <1>2, <1>3, <1>4, <1>5, SumsChange
<1>. QED  BY <1>4, <1>5, <1>6

LEMMA SumOfRemoved ==
    ASSUME NEW n \in Seq(Nat), NEW m \in Seq(Nat), NEW k \in DOMAIN n, Len(n) = Len(m) + 1,
           \A i \in DOMAIN m : m[i] = IF i < k THEN n[i] ELSE n[i + 1]
    PROVE  SumOf(n) = SumOf(m) + n[k]
<1>1. PICK l \in Nat : l = Len(m)
      OBVIOUS
<1>. DEFINE j == l + 1
<1>2. /\ DOMAIN m = 1..l /\ k \in 1..j /\ \A i \in 1..j : n[i] \in Nat
      /\ \A i \in 1..l : m[i] \in Nat
      BY <1>1, SMTT(30)
<1>3. LacksOne(n, m, l, k)
      BY <1>2 DEF LacksOne
<1>4. PICK f : AreSums(f, n, j) /\ SumOf(n) = f[j]
      BY <1>1, SumOfIs
<1>5. PICK g : AreSums(g, m, l) /\ SumOf(m) = g[l]
      BY <1>1, SumOfIs
<1>6. f[j] = g[l] + n[k]
  <2>1. j = l + 1
        OBVIOUS
  <2>. HIDE DEF j
  <2>. QED  BY <1>2, <1>3, <1>4, <1>5, <2>1, SumsRemoved, SMTT(30)
<1>. QED  BY <1>4, <1>5, <1>6

LEMMA SumOfAtLeast ==
    ASSUME NEW n \in Seq(Nat), NEW k \in DOMAIN n
    PROVE  n[k] <= SumOf(n)
<1>. DEFINE m == [n EXCEPT ![k] = 0]
<1>1. m \in Seq(Nat) /\ Len(m) = Len(n) /\ m[k] = 0 /\ n[k] \in Nat
      /\ \A i \in DOMAIN n : i # k => m[i] = n[i]
      OBVIOUS
<1>. HIDE DEF m
<1>2. SumOf(m) + n[k] = SumOf(n) + m[k]
      BY <1>1, SumOfChange
<1>3. SumOf(m) \in Nat /\ SumOf(n) \in Nat
      BY <1>1, SumOfIs
<1>. QED  BY <1>1, <1>2, <1>3

(* A packet with something in a queue has at least that there.              *)
LEMMA BitsOfAtLeast ==
    ASSUME NEW S, NEW s \in Seq(S), \A i \in DOMAIN s : s[i].size \in Nat, NEW k \in DOMAIN s
    PROVE  s[k].size <= BitsOf(s, s[k].uid)
<1>. DEFINE n == [i \in DOMAIN s |-> IF s[i].uid = s[k].uid THEN s[i].size ELSE 0]
<1>1. n \in Seq(Nat)
      BY SizesSeq
<1>2. k \in DOMAIN n /\ n[k] = s[k].size
      OBVIOUS
<1>3. BitsOf(s, s[k].uid) = SumOf(n)
      BY Zenon DEF BitsOf
<1>. HIDE DEF n
<1>. QED  BY <1>1, <1>2, <1>3, SumOfAtLeast
-----------------------------------------------------------------------------
(* What rounding does: a float is stored as it is, and no number is rounded *)
(* beyond a float.                                                          *)
LEMMA NearestIs ==
    ASSUME NEW n \in Floats
    PROVE  Nearest(n) = {n}
<1>. Floats \subseteq Nat
     BY FloatsAssumption
<1>1. \A f \in Floats : Gap(n, n) <= Gap(f, n) /\ (Gap(f, n) <= Gap(n, n) => f = n)
      BY DEF Gap
<1>. QED  BY <1>1 DEF Nearest

LEMMA NearestBelow ==
    ASSUME NEW n \in Nat, NEW m \in Floats, n <= m, NEW f \in Nearest(n)
    PROVE  f <= m
<1>1. f \in Nat /\ m \in Nat /\ Gap(f, n) <= Gap(m, n)
      BY FloatsAssumption DEF Nearest
<1>. QED  BY <1>1 DEF Gap

(* What += and -= of a size leave in current_size.                          *)
LEMMA SizeGrows ==
    ASSUME NEW c \in Floats, NEW n \in Nat, NEW f \in Nearest(c + n)
    PROVE  /\ f \in Floats
           /\ c + n <= Exact => f = c + n
<1>1. f \in Floats /\ c \in Nat
      BY FloatsAssumption DEF Nearest
<1>2. ASSUME c + n <= Exact PROVE f = c + n
  <2>1. c + n \in Floats
        BY <1>1, <1>2, FloatsAssumption
  <2>. QED  BY <2>1, NearestIs
<1>. QED  BY <1>1, <1>2

LEMMA SizeShrinks ==
    ASSUME NEW c \in Floats, NEW n \in Nat, NEW f \in Nearest(NotNegative(c - n))
    PROVE  /\ f \in Floats
           /\ n <= c /\ c <= Exact => f = c - n /\ f <= Exact
<1>1. f \in Floats /\ c \in Nat
      BY FloatsAssumption DEF Nearest
<1>2. ASSUME n <= c, c <= Exact PROVE f = c - n /\ f <= Exact
  <2>1. c - n \in 0..Exact /\ NotNegative(c - n) = c - n
        BY <1>1, <1>2, FloatsAssumption DEF NotNegative
  <2>2. c - n \in Floats
        BY <2>1, FloatsAssumption
  <2>. QED  BY <2>1, <2>2, NearestIs
<1>. QED  BY <1>1, <1>2
=============================================================================
