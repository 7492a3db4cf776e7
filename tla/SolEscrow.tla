------------------------------ MODULE SolEscrow ------------------------------
(***************************************************************************)
(* The Solana program solana/ln_usdt_escrow: the USDT leg of a swap.  One  *)
(* escrow account per payment hash, its vault, the platform fee config and *)
(* one trade fee config per collector, with the vaults the fees go to.     *)
(*                                                                         *)
(* One mint.  An instruction that returns an error changes nothing, so it  *)
(* is no step.  The PDA, ATA and bump checks identify the accounts; they   *)
(* are the indexing of the variables.  The program checks u64 overflow of  *)
(* the total before it compares it with the payer's balance, which is a    *)
(* u64: the balance check subsumes it.  `revealed' is what the public      *)
(* instruction data shows.                                                 *)
(***************************************************************************)
EXTENDS HashLock, Functions, FiniteSets

CONSTANTS
    Key,        \* signers, each with one token account of the mint
    Admin,      \* the keys that ever send config instructions
    Amount,     \* amounts withdrawal instructions carry (0 is one)
    Bps,        \* fee rates config instructions carry
    Request,    \* the Init instructions that are sent, for any hash
    Supply,     \* Supply[k]: tokens k holds at the start
    None        \* an account without data

MAX_PLATFORM_FEE_BPS == 500
MAX_TRADE_FEE_BPS == 1000
MAX_TOTAL_FEE_BPS == 1500

EscrowState ==
    [status : {"active", "claimed", "refunded"},
     recipient : Key, refund : Key, refund_after : 0..MaxTime,
     net_amount : Nat, platform_fee_amount : Nat, trade_fee_amount : Nat,
     trade_fee_collector : Key]

InitRequest ==
    [payer : Key, recipient : Key, refund : Key, refund_after : 0..MaxTime,
     amount : Nat, platform_bps : Nat, trade_bps : Nat, collector : Key]

ASSUME SolAssumption ==
    /\ Admin \subseteq Key
    /\ Amount \subseteq Nat /\ Bps \subseteq Nat
    /\ Request \subseteq InitRequest
    /\ Supply \in [Key -> Nat]
    /\ None \notin Nat \cup [authority : Key, fee_bps : Nat] \cup EscrowState

\* A public key and a payment hash are 32 bytes each.
ASSUME SolFinite == IsFiniteSet(Key) /\ IsFiniteSet(Hash)

VARIABLES
    config,       \* None, or the platform fee config
    tradeConfig,  \* tradeConfig[k]: None, or the fee_bps collector k asks for
    escrow,       \* escrow[h]: None, or the EscrowState of payment hash h
    wallet, vault, feeVault, tradeVault,   \* token balances
    revealed,     \* preimages seen in Claim instructions
    now           \* the clock sysvar

tokens == <<wallet, vault, feeVault, tradeVault>>
vars == <<config, tradeConfig, escrow, tokens, revealed, now>>

Init ==
    /\ config = None
    /\ tradeConfig = [k \in Key |-> None]
    /\ escrow = [h \in Hash |-> None]
    /\ wallet = Supply
    /\ vault = [h \in Hash |-> 0]
    /\ feeVault = 0
    /\ tradeVault = [k \in Key |-> 0]
    /\ revealed = {}
    /\ now = 0

-----------------------------------------------------------------------------
\* Platform config: whoever initialises it becomes authority and collector.
InitConfig(k, bps) ==
    /\ bps <= MAX_PLATFORM_FEE_BPS
    /\ config = None
    /\ config' = [authority |-> k, fee_bps |-> bps]
    /\ UNCHANGED <<tradeConfig, escrow, tokens, revealed, now>>

SetConfig(k, bps) ==
    /\ bps <= MAX_PLATFORM_FEE_BPS
    /\ config # None /\ config.authority = k
    /\ config' = [config EXCEPT !.fee_bps = bps]
    /\ UNCHANGED <<tradeConfig, escrow, tokens, revealed, now>>

\* A collector's own config; its PDA is derived from the collector's key.
InitTradeConfig(k, bps) ==
    /\ bps <= MAX_TRADE_FEE_BPS
    /\ tradeConfig[k] = None
    /\ tradeConfig' = [tradeConfig EXCEPT ![k] = bps]
    /\ UNCHANGED <<config, escrow, tokens, revealed, now>>

SetTradeConfig(k, bps) ==
    /\ bps <= MAX_TRADE_FEE_BPS
    /\ tradeConfig[k] # None
    /\ tradeConfig' = [tradeConfig EXCEPT ![k] = bps]
    /\ UNCHANGED <<config, escrow, tokens, revealed, now>>

\* amount = 0 withdraws everything; an empty vault is left alone.
Withdrawn(amount, balance) == IF amount = 0 THEN balance ELSE amount

WithdrawFees(k, amount) ==
    LET w == Withdrawn(amount, feeVault) IN
    /\ config # None /\ config.authority = k
    /\ w <= feeVault
    /\ feeVault' = feeVault - w
    /\ wallet' = [wallet EXCEPT ![k] = @ + w]
    /\ UNCHANGED <<config, tradeConfig, escrow, vault, tradeVault, revealed, now>>

WithdrawTradeFees(k, amount) ==
    LET w == Withdrawn(amount, tradeVault[k]) IN
    /\ tradeConfig[k] # None
    /\ w <= tradeVault[k]
    /\ tradeVault' = [tradeVault EXCEPT ![k] = @ - w]
    /\ wallet' = [wallet EXCEPT ![k] = @ + w]
    /\ UNCHANGED <<config, tradeConfig, escrow, vault, feeVault, revealed, now>>

-----------------------------------------------------------------------------
Fee(amount, bps) == (amount * bps) \div 10000

Active(h) == escrow[h] # None /\ escrow[h].status = "active"

Fresh(h) == escrow[h] = None

Affordable(r, total) == total <= wallet[r.payer]

\* The rates both configs stand at are the ones agreed, and within the caps.
FeesAgreed(r) ==
    /\ config # None /\ config.fee_bps = r.platform_bps
    /\ tradeConfig[r.collector] # None
    /\ tradeConfig[r.collector] = r.trade_bps
    /\ r.platform_bps <= MAX_PLATFORM_FEE_BPS
    /\ r.trade_bps <= MAX_TRADE_FEE_BPS
    /\ r.platform_bps + r.trade_bps <= MAX_TOTAL_FEE_BPS

\* The depositor states the fee rates it agreed to; a config that has moved
\* since makes the instruction fail.  The account of a payment hash is never
\* initialised twice.
InitEscrow(h, r) ==
    LET pf == Fee(r.amount, r.platform_bps)
        tf == Fee(r.amount, r.trade_bps)
        total == r.amount + pf + tf IN
    /\ FeesAgreed(r)
    /\ Affordable(r, total)
    /\ Fresh(h)
    /\ wallet' = [wallet EXCEPT ![r.payer] = @ - total]
    /\ vault' = [vault EXCEPT ![h] = @ + total]
    /\ escrow' = [escrow EXCEPT ![h] =
          [status |-> "active", recipient |-> r.recipient, refund |-> r.refund,
           refund_after |-> r.refund_after, net_amount |-> r.amount,
           platform_fee_amount |-> pf, trade_fee_amount |-> tf,
           trade_fee_collector |-> r.collector]]
    /\ UNCHANGED <<config, tradeConfig, feeVault, tradeVault, revealed, now>>

\* mutant: the amounts are not cleared
MutClosed(e, status) == [e EXCEPT !.status = status]
Closed(e, status) ==
    [e EXCEPT !.status = status, !.net_amount = 0,
              !.platform_fee_amount = 0, !.trade_fee_amount = 0]

\* mutant: the trade fee is left out
MutLocked(e) == e.net_amount + e.platform_fee_amount
Locked(e) == e.net_amount + e.platform_fee_amount + e.trade_fee_amount

Opens(p, h) == Sha256[p] = h

MutExpired(e) == now + 1 >= e.refund_after  \* mutant: one tick early
Expired(e) == now >= e.refund_after

\* The recipient signs and shows the preimage; no deadline is looked at.
Claim(k, h, p) ==
    LET e == escrow[h] IN
    /\ Active(h)
    /\ e.recipient = k
    /\ Opens(p, h)
    /\ wallet' = [wallet EXCEPT ![k] = @ + e.net_amount]
    /\ feeVault' = feeVault + e.platform_fee_amount
    /\ tradeVault' = [tradeVault EXCEPT ![e.trade_fee_collector] =
                                            @ + e.trade_fee_amount]
    /\ vault' = [vault EXCEPT ![h] = @ - Locked(e)]
    /\ escrow' = [escrow EXCEPT ![h] = Closed(e, "claimed")]
    /\ revealed' = revealed \cup {p}
    /\ UNCHANGED <<config, tradeConfig, now>>

\* The refund authority gets everything back, fees included.
Refund(k, h) ==
    LET e == escrow[h] IN
    /\ Active(h)
    /\ e.refund = k
    /\ Expired(e)
    /\ wallet' = [wallet EXCEPT ![k] = @ + Locked(e)]
    /\ vault' = [vault EXCEPT ![h] = @ - Locked(e)]
    /\ escrow' = [escrow EXCEPT ![h] = Closed(e, "refunded")]
    /\ UNCHANGED <<config, tradeConfig, feeVault, tradeVault, revealed, now>>

Tick == /\ now < MaxTime
        /\ now' = now + 1
        /\ UNCHANGED <<config, tradeConfig, escrow, tokens, revealed>>

-----------------------------------------------------------------------------
AdminStep ==
    \E k \in Admin :
       \/ \E b \in Bps : \/ InitConfig(k, b) \/ SetConfig(k, b)
                         \/ InitTradeConfig(k, b) \/ SetTradeConfig(k, b)
       \/ \E a \in Amount : WithdrawFees(k, a) \/ WithdrawTradeFees(k, a)

EscrowStep ==
    \E h \in Hash :
       \/ \E r \in Request : InitEscrow(h, r)
       \/ \E k \in Key : \/ \E p \in Preimage : Claim(k, h, p)
                         \/ Refund(k, h)

Next == AdminStep \/ EscrowStep \/ Tick

Spec == Init /\ [][Next]_vars

-----------------------------------------------------------------------------
\* Every account holds data of its layout and every balance is a natural
\* number: no instruction overdraws an account.
TypeOK ==
    /\ config \in [authority : Key, fee_bps : Nat] \cup {None}
    /\ tradeConfig \in [Key -> Nat \cup {None}]
    /\ escrow \in [Hash -> EscrowState \cup {None}]
    /\ wallet \in [Key -> Nat] /\ vault \in [Hash -> Nat]
    /\ feeVault \in Nat /\ tradeVault \in [Key -> Nat]
    /\ revealed \subseteq Preimage
    /\ now \in 0..MaxTime

\* Each vault holds exactly what its escrow still owes: an active escrow can
\* always be paid out in full, from its own vault, and a settled one left
\* nothing behind.
VaultBacksEscrow ==
    \A h \in Hash :
       vault[h] = IF escrow[h] = None THEN 0 ELSE Locked(escrow[h])

\* No instruction creates or destroys tokens, rounding of fees included.
Conserved ==
    SumFunction(wallet) + SumFunction(vault) + feeVault
        + SumFunction(tradeVault) = SumFunction(Supply)

\* The program is a hash- and time-locked contract per payment hash.
H == INSTANCE Htlc WITH
        Key <- Hash, Party <- Key, Relock <- FALSE,
        status <- [h \in Hash |->
                     IF escrow[h] = None THEN "none"
                     ELSE IF escrow[h].status = "active" THEN "locked"
                     ELSE escrow[h].status],
        deed <- [h \in Hash |->
                     IF escrow[h] = None
                     THEN [hash |-> "none", to |-> "none", back |-> "none",
                           after |-> 0]
                     ELSE [hash |-> h, to |-> escrow[h].recipient,
                           back |-> escrow[h].refund,
                           after |-> escrow[h].refund_after]]
ImplementsHtlc == H!Spec
=============================================================================
