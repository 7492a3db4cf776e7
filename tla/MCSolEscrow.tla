----------------------------- MODULE MCSolEscrow -----------------------------
(* Two payment hashes; requests whose fees round down to nothing, that use   *)
(* both caps, that lock nothing, and that are refundable at once.  Rates     *)
(* just above the caps are asked for and must be refused.                    *)
EXTENDS SolEscrow

MCSha256 == [p1 |-> "h1", p2 |-> "h2"]
MCSupply == [maker |-> 60, taker |-> 5, op |-> 0]
Req(payer, to, amount, after, pb, tb) ==
    [payer |-> payer, recipient |-> to, refund |-> payer, refund_after |-> after,
     amount |-> amount, platform_bps |-> pb, trade_bps |-> tb, collector |-> "op"]
MCRequest == {Req("maker", "taker", 40, 1, 500, 1000),
              Req("maker", "taker", 40, 2, 1000, 0),
              Req("maker", "taker", 19, 1, 500, 0),
              Req("maker", "taker", 20, 2, 0, 1001),
              Req("taker", "maker", 0, 0, 0, 1000),
              Req("taker", "maker", 3, 0, 0, 0)}
MCBps == {0, 500, 501, 1000, 1001}
MCAmount == {0, 1, 3}
=============================================================================
