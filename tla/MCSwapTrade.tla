----------------------------- MODULE MCSwapTrade -----------------------------
(* Two terms of the same receiver and payer, one with a validity deadline   *)
(* and a later refund path, and the terms of another receiver; every        *)
(* evidence field can match or mismatch.                                    *)
EXTENDS SwapTrade

MCTime == 0..2
MCMsat == {1000, 2000}
MCOffer ==
    {[receiver |-> "maker", payer |-> "taker", btc_sats |-> 1, deal |-> "d1",
      refundAfter |-> 1, validUntil |-> None],
     [receiver |-> "maker", payer |-> "taker", btc_sats |-> 1, deal |-> "d2",
      refundAfter |-> 2, validUntil |-> 0],
     [receiver |-> "taker", payer |-> "maker", btc_sats |-> 2, deal |-> "d1",
      refundAfter |-> 1, validUntil |-> 1]}
=============================================================================
