----------------------------- MODULE PacketBits -----------------------------
(* What is counted in the queues, blocks and lists that packets and their   *)
(* fragments wait in: the bits of all of them, and those of one packet.     *)
EXTENDS Integers, Sequences

SumOf(n) ==
    LET sum[i \in 0..Len(n)] == IF i = 0 THEN 0 ELSE sum[i - 1] + n[i]
    IN  sum[Len(n)]

SumSizes(s) == SumOf([i \in DOMAIN s |-> s[i].size])
BitsOf(s, u) == SumOf([i \in DOMAIN s |-> IF s[i].uid = u THEN s[i].size ELSE 0])
=============================================================================
