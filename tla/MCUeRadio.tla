----------------------------- MODULE MCUeRadio ------------------------------
EXTENDS UeRadio

Setup(c, r, t) == [cqi |-> c, ri |-> r, coherence |-> t]

(* An SINR period that divides the CQI period, cut by the coherence time,  *)
(* and one that does not, cut by the shorter report.                       *)
SomeSetups == {Setup(4, 3, 20), Setup(4, 3, 90)}

SpeedNoise == {-1, 0, 1}
=============================================================================
