-------------------------- MODULE MCSwapSettlement --------------------------
(* The swap at the sizes the configurations give: SwapTao*.cfg, SwapSol*.cfg. *)
EXTENDS SwapSettlement
=============================================================================
