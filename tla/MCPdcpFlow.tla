----------------------------- MODULE MCPdcpFlow -----------------------------
(* Instances of PdcpFlow for TLC. *)
EXTENDS PdcpFlow

\* packet sizes: a packet that always needs two grants, one that needs one,
\* and small ones that share a grant
Sizes4 == <<3, 1, 2, 1>>
=============================================================================
