------------------------------ MODULE MCMacGrid ------------------------------
EXTENDS MacGrid

(* A transition slot that ends in a guard symbol. *)
DlGuard == <<1, 1, 0>>
=============================================================================
