----------------------------- MODULE MCTakerRfq -----------------------------
(***************************************************************************)
(* Two makers and two trade cycles over TAO.  Of the offers one is narrower*)
(* than the flags, one has too long a refund window and one is too large.  *)
(* Of the quotes one has a shorter window than the narrow offer, which the *)
(* flags allow; the other would fit the offer with the long window.        *)
(***************************************************************************)
EXTENDS TakerRfq

MCBounds == [min |-> 1, max |-> 2]
MCOwn == [btc |-> 1, amount |-> 1, fee |-> 1, min |-> 1, max |-> 2]
MCOffers == { [btc |-> 2, amount |-> 1, fee |-> 0, min |-> 2, max |-> 2],
              [btc |-> 1, amount |-> 1, fee |-> 1, min |-> 3, max |-> 3],
              [btc |-> 3, amount |-> 1, fee |-> 1, min |-> 1, max |-> 1] }
MCQuotes == { [btc |-> 2, amount |-> 1, fee |-> 0, window |-> 1],
              [btc |-> 1, amount |-> 1, fee |-> 1, window |-> 3] }
=============================================================================
