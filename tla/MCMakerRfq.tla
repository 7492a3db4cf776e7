----------------------------- MODULE MCMakerRfq -----------------------------
(* Two RFQ messages of one peer that differ only in their validity (a        *)
(* repost) and an RFQ of another peer for the same trade id.                 *)
EXTENDS MakerRfq, TLC

Names == Permutations(Swap)

Ask(p, t, k, n, until) == [signer |-> p, trade |-> t, key |-> k, n |-> n, until |-> until]
Repost == {Ask("p1", "t1", "k1", 1, 1), Ask("p1", "t1", "k1", 2, 2)}
Rival == Ask("p2", "t1", "k2", 1, 1)
MCRfqRival == Repost \cup {Rival}
=============================================================================
