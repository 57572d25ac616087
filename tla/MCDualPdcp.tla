----------------------------- MODULE MCDualPdcp -----------------------------
(* Instances of DualPdcp for TLC. *)
EXTENDS DualPdcp

\* one packet that needs two grants or more, the others share one
Sizes2 == <<3, 2>>
Sizes3 == <<2, 1, 1>>
=============================================================================
