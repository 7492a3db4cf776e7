------------------------------ MODULE MCTaoHTLC ------------------------------
(* The maker's lock with two salts, one under the other hash, one that sends *)
(* nothing, and a lock of the taker, with deadlines at which refund and      *)
(* claim compete.                                                            *)
EXTENDS TaoHTLC

MCSha256 == [p1 |-> "h1", p2 |-> "h2"]
MCFunds == [maker |-> 3, taker |-> 1]
Req(from, to, amount, after, h, salt) ==
    [sender |-> from, receiver |-> to, amount |-> amount,
     refundAfter |-> after, hashlock |-> h, salt |-> salt]
MCCalls == {Req("maker", "taker", 2, 1, "h1", "s1"),
            Req("maker", "taker", 2, 1, "h1", "s2"),
            Req("maker", "taker", 1, 2, "h2", "s1"),
            Req("maker", "taker", 0, 2, "h2", "s1"),
            Req("taker", "maker", 1, 3, "h1", "s1"),
            Req("taker", "taker", 1, 0, "h2", "s1")}
=============================================================================
