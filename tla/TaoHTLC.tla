------------------------------- MODULE TaoHTLC -------------------------------
(***************************************************************************)
(* The contract settlement/tao-evm/contracts/TaoHTLC.sol: the TAO leg of a *)
(* swap.  A swap id is the keccak of its parameters, hence the parameters  *)
(* themselves, and the mapping holds exactly the ids in `swaps'.           *)
(*                                                                         *)
(* claim and refund delete the entry before they pay, so the flags claimed *)
(* and refunded of the struct are never set; the events tell what became   *)
(* of an id, and `event' keeps the last one.  A call that reverts, because *)
(* a require fails or because the payee rejects the transfer, is no step;  *)
(* a payee that calls back sees the entry gone, as any later call does.    *)
(***************************************************************************)
EXTENDS HashLock, Functions

CONSTANTS
    Account,
    Value,      \* amounts sent with lock (0 is one)
    Salt,       \* clientSalt
    Calls,      \* the lock calls that are made
    Funds       \* Funds[a]: what a holds at the start

SwapId == [sender : Account, receiver : Account, amount : Value,
           refundAfter : 0..MaxTime, hashlock : Hash, salt : Salt]

ASSUME TaoAssumption ==
    /\ Value \subseteq Nat
    /\ Calls \subseteq SwapId
    /\ Funds \in [Account -> Nat]

VARIABLES
    swaps,      \* the ids with an entry in the mapping
    event,      \* the last event emitted for each id
    balance,    \* what each account holds
    held,       \* what the contract holds
    shown,      \* preimages shown to claim
    timestamp   \* block.timestamp

taoVars == <<swaps, event, balance, held, shown, timestamp>>

TaoInit ==
    /\ swaps = {}
    /\ event = [i \in Calls |-> "none"]
    /\ balance = Funds
    /\ held = 0
    /\ shown = {}
    /\ timestamp = 0

InFuture(i) == i.refundAfter > timestamp

Unlocks(p, i) == Sha256[p] = i.hashlock

MutRefundOpen(i) == timestamp + 1 >= i.refundAfter  \* mutant: one block early
RefundOpen(i) == timestamp >= i.refundAfter

MutRemaining(i) == swaps \cup {i}  \* mutant: the entry is not deleted
Remaining(i) == swaps \ {i}

lock(i) ==
    /\ i.amount > 0
    /\ InFuture(i)
    /\ i \notin swaps
    /\ i.amount <= balance[i.sender]
    /\ swaps' = swaps \cup {i}
    /\ event' = [event EXCEPT ![i] = "locked"]
    /\ balance' = [balance EXCEPT ![i.sender] = @ - i.amount]
    /\ held' = held + i.amount
    /\ UNCHANGED <<shown, timestamp>>

\* Anyone may call claim and refund; the payee is fixed by the entry.
claim(i, p) ==
    /\ i \in swaps
    /\ Unlocks(p, i)
    /\ swaps' = Remaining(i)
    /\ event' = [event EXCEPT ![i] = "claimed"]
    /\ balance' = [balance EXCEPT ![i.receiver] = @ + i.amount]
    /\ held' = held - i.amount
    /\ shown' = shown \cup {p}
    /\ UNCHANGED timestamp

refund(i) ==
    /\ i \in swaps
    /\ RefundOpen(i)
    /\ swaps' = Remaining(i)
    /\ event' = [event EXCEPT ![i] = "refunded"]
    /\ balance' = [balance EXCEPT ![i.sender] = @ + i.amount]
    /\ held' = held - i.amount
    /\ UNCHANGED <<shown, timestamp>>

Block == /\ timestamp < MaxTime
         /\ timestamp' = timestamp + 1
         /\ UNCHANGED <<swaps, event, balance, held, shown>>

TaoNext == \/ \E i \in Calls : \/ lock(i)
                              \/ \E p \in Preimage : claim(i, p)
                              \/ refund(i)
           \/ Block

TaoSpec == TaoInit /\ [][TaoNext]_taoVars

-----------------------------------------------------------------------------
\* The mapping, the events and the balances are of their types; no account
\* and no contract balance is ever negative.
TaoTypeOK ==
    /\ swaps \subseteq Calls
    /\ event \in [Calls -> {"none", "locked", "claimed", "refunded"}]
    /\ balance \in [Account -> Nat]
    /\ held \in Nat
    /\ shown \subseteq Preimage
    /\ timestamp \in 0..MaxTime

\* The contract always holds exactly what its open swaps are owed, so no
\* claim or refund can fail for lack of funds or be paid from another swap.
Solvent == held = SumFunctionOnSet([i \in Calls |-> i.amount], swaps)

\* The contract is a hash- and time-locked contract per swap id, which can
\* be locked once more after a claim.
C == INSTANCE Htlc WITH
        Key <- Calls, Party <- Account, Relock <- TRUE,
        status <- event, revealed <- shown, now <- timestamp,
        deed <- [i \in Calls |->
                   IF event[i] = "none"
                   THEN [hash |-> "none", to |-> "none", back |-> "none",
                         after |-> 0]
                   ELSE [hash |-> i.hashlock, to |-> i.receiver,
                         back |-> i.sender, after |-> i.refundAfter]]
TaoIsHtlc == C!Spec
=============================================================================
