----------------------------- MODULE MCDessaCopy -----------------------------
(* Instances of DessaCopy: which copies the PHIs of a block ask for.       *)
EXTENDS DessaCopy

MCConst == {-1}
=============================================================================
