-------------------------------- MODULE Htlc --------------------------------
(***************************************************************************)
(* What the swap bots rely on a settlement chain for: a hash- and          *)
(* time-locked contract.  A contract is locked under terms fixed for good, *)
(* is claimed only by publishing the preimage of its hash, is refunded     *)
(* only once its deadline has passed, and is settled one way only.         *)
(* SolEscrow (the Solana program) and TaoHTLC (the EVM contract) implement *)
(* this specification.                                                     *)
(***************************************************************************)
EXTENDS Integers

CONSTANTS
    Key,       \* identities of contracts
    Hash, Preimage, Sha256,   \* Sha256[p] is the hash of p
    Party,     \* accounts that can be paid
    Relock,    \* can a contract that was claimed be locked once more?
    MaxTime    \* bound on the clock

Status == {"none", "locked", "claimed", "refunded"}
Deed   == [hash : Hash, to : Party, back : Party, after : 0..MaxTime]

VARIABLES status,   \* status of each contract
          deed,     \* the terms it is, or was last, locked under
          revealed, \* preimages published on the chain
          now

vars == <<status, deed, revealed, now>>

NoDeed == [hash |-> "none", to |-> "none", back |-> "none", after |-> 0]

Init == /\ status = [k \in Key |-> "none"]
        /\ deed = [k \in Key |-> NoDeed]
        /\ revealed = {}
        /\ now = 0

Lock(k, d) ==
    /\ status[k] = "none" \/ (Relock /\ status[k] = "claimed")
    /\ status' = [status EXCEPT ![k] = "locked"]
    /\ deed' = [deed EXCEPT ![k] = d]
    /\ UNCHANGED <<revealed, now>>

Claim(k, p) ==
    /\ status[k] = "locked"
    /\ Sha256[p] = deed[k].hash
    /\ status' = [status EXCEPT ![k] = "claimed"]
    /\ revealed' = revealed \cup {p}
    /\ UNCHANGED <<deed, now>>

Refund(k) ==
    /\ status[k] = "locked"
    /\ now >= deed[k].after
    /\ status' = [status EXCEPT ![k] = "refunded"]
    /\ UNCHANGED <<deed, revealed, now>>

Tick == now < MaxTime /\ now' = now + 1 /\ UNCHANGED <<status, deed, revealed>>

Next == \/ \E k \in Key : \/ \E d \in Deed : Lock(k, d)
                          \/ \E p \in Preimage : Claim(k, p)
                          \/ Refund(k)
        \/ Tick

Spec == Init /\ [][Next]_vars
=============================================================================
