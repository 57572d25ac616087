----------------------------- MODULE BufferSize -----------------------------
(***************************************************************************)
(* The arithmetic of ip_buffer::current_size, a float: what += and -= may  *)
(* store in it.  Packet sizes are integers and small; the buffer may hold  *)
(* far more than the 2^24 bits up to which a float has every integer.      *)
(***************************************************************************)
EXTENDS Integers

CONSTANTS
    Floats,  \* the numbers current_size can be
    Exact    \* all integers up to this one are among them (2^24 in the code)

ASSUME FloatsAssumption ==
    Floats \subseteq Nat /\ Exact \in Nat /\ 0..Exact \subseteq Floats

(* if (current_size < 0) current_size = 0 *)
NotNegative(n) == IF n < 0 THEN 0 ELSE n

Gap(m, n) == IF m < n THEN n - m ELSE m - n

(* The result of a sum or difference n of floats: a float nearest to it.     *)
(* The machine breaks ties towards an even mantissa; here either may result. *)
Nearest(n) == {f \in Floats : \A g \in Floats : Gap(f, n) <= Gap(g, n)}
=============================================================================
