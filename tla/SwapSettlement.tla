--------------------------- MODULE SwapSettlement ---------------------------
(***************************************************************************)
(* One swap between the two bots, scripts/rfq-maker.mjs (LN receiver) and  *)
(* scripts/rfq-taker.mjs (LN payer), once both are on the swap channel:    *)
(* the channel, the Lightning payment, the contract on the settlement      *)
(* chain, the receipts each side writes, and scripts/swaprecover.mjs, the  *)
(* tool that works from those receipts when a bot is gone.                 *)
(*                                                                         *)
(*  - The bots are event driven: between two awaits a bot runs without     *)
(*    interruption, so an action is what happens from one await to the     *)
(*    next, and makerPc / takerPc name the await a bot is in.  Message     *)
(*    handlers run while the swap's own routine awaits.                    *)
(*  - `net' holds every message sent so far: any of them may be delivered  *)
(*    late, again, out of order or never.                                  *)
(*  - Each side has one copy of the trade, moved by TradeRules.            *)
(*  - The contract is the abstract one of module Htlc for one key.         *)
(*  - Faults lists what may go wrong in a run; without it nothing does.    *)
(*  - Both bots keep receipts (--receipts-db); `receipts' has the fields   *)
(*    that swaprecover looks for.                                          *)
(***************************************************************************)
EXTENDS Integers

CONSTANTS
    Settlement,     \* "solana" or "tao"
    Faults,         \* see FaultKind
    RefundWindow,   \* --settlement-refund-after-sec
    TermsValid,     \* --terms-valid-sec
    InvoiceExpiry,  \* --ln-invoice-expiry-sec
    SwapTimeout,    \* --swap-timeout-sec
    MinRemaining,   \* INTERCOMSWAP_MIN_TIMELOCK_REMAINING_SEC
    PayBound,       \* an LN payment is resolved within this time
    LastReady,      \* bound: the maker hears `ready' no later than this
    None

FaultKind == {"maker crash", "taker crash", "maker error", "taker error",
              "pay fails", "cancel"}

ASSUME SettlementAssumption ==
    /\ Settlement \in {"solana", "tao"}
    /\ Faults \subseteq FaultKind
    /\ {RefundWindow, TermsValid, InvoiceExpiry, SwapTimeout, MinRemaining,
        PayBound, LastReady} \subseteq Nat
    /\ None \notin Nat

\* The refund path of any terms is open by the time the clock stops.
MaxTime == LastReady + RefundWindow
Time == 0..(MaxTime + RefundWindow + TermsValid + InvoiceExpiry)

OfferOf(t) == [receiver |-> "maker", payer |-> "taker", btc_sats |-> 1,
               deal |-> "deal", refundAfter |-> t + RefundWindow,
               validUntil |-> t + TermsValid]

INSTANCE TradeRules WITH
    Peer <- {"maker", "taker"}, Offer <- {OfferOf(t) : t \in 0..LastReady},
    Deal <- {"deal"}, Hash <- {"hash"}, Bolt11 <- {"bolt11"}, Msat <- {1000},
    Id <- {"id"}, Tx <- {"lock", "claim"}, Time <- Time, None <- None

VARIABLES
    now, net,
    chain,        \* [status, after]: the contract and its refund time
    ln,           \* [status, since]: the Lightning payment
    makerTrade, makerPc, awaiting, fetching, makerIn,
    takerTrade, takerPc,
    receipts      \* fields each side has in its receipts database

makerVars == <<makerTrade, makerPc, awaiting, fetching, makerIn>>
takerVars == <<takerTrade, takerPc>>
world == <<now, chain, ln>>
vars == <<world, net, makerVars, takerVars, receipts>>

Init ==
    /\ now = 0
    /\ net = {[kind |-> "STATUS", signer |-> "taker", ts |-> 0, body |-> "ready"]}
    /\ chain = [status |-> "none", after |-> 0]
    /\ ln = [status |-> "none", since |-> 0]
    /\ makerTrade = createInitialTrade
    /\ makerPc = "idle" /\ awaiting = TRUE /\ fetching = None /\ makerIn = "swap"
    /\ takerTrade = createInitialTrade
    /\ takerPc = "ready"
    /\ receipts = [maker |-> {}, taker |-> {}]

-----------------------------------------------------------------------------
\* Messages and what applySwapEnvelope makes of them.  The time of sending is
\* kept where a rule reads it.
Dated == {"TERMS", "ACCEPT", "LN_INVOICE", "LN_PAID"}
Msg(kind, who, body) == [kind |-> kind, signer |-> who, body |-> body,
                         ts |-> IF kind \in Dated THEN now ELSE 0]
Send(m) == net' = net \cup {m}
Sent(who) == {m \in net : m.signer = who}

Accepts(t, m) ==
    CASE m.kind = "TERMS"      -> CanTerms(t, m)
      [] m.kind = "ACCEPT"     -> CanAccept(t, m)
      [] m.kind = "LN_INVOICE" -> CanInvoice(t, m)
      [] m.kind = "ESCROW"     -> CanEscrow(t, m)
      [] m.kind = "LN_PAID"    -> CanLnPaid(t, m)
      [] m.kind = "CLAIMED"    -> CanClaimed(t, m)
      [] m.kind = "CANCEL"     -> CanCancel(t)
      [] OTHER                 -> TRUE

After(t, m) ==
    CASE m.kind = "TERMS"      -> AfterTerms(t, m)
      [] m.kind = "ACCEPT"     -> AfterAccept(t, m)
      [] m.kind = "LN_INVOICE" -> AfterInvoice(t, m)
      [] m.kind = "ESCROW"     -> AfterEscrow(t, m)
      [] m.kind = "LN_PAID"    -> AfterLnPaid(t, m)
      [] m.kind = "CLAIMED"    -> AfterClaimed(t, m)
      [] m.kind = "CANCEL"     -> AfterCancel(t)
      [] OTHER                 -> t

Apply(t, m) == IF Accepts(t, m) THEN After(t, m) ELSE t

Record(who, fields) == receipts' = [receipts EXCEPT ![who] = @ \cup fields]

-----------------------------------------------------------------------------
\* The maker.  makerIn: in the swap ("swap"), cleaned up ("left"), or dead
\* ("down").  makerPc: the await of createInvoiceAndEscrow, which goes on
\* when the swap is cleaned up underneath it.
MakerOn == makerIn # "down"

\* The swap handler: `ready' starts createAndSendTerms, which reads the clock
\* for the deadlines and then awaits the fee snapshot.
MakerReady ==
    /\ makerIn = "swap" /\ awaiting /\ fetching = None
    /\ now <= LastReady
    /\ \E m \in Sent("taker") : m.kind = "STATUS"
    /\ fetching' = now
    /\ UNCHANGED <<world, net, makerTrade, makerPc, awaiting, makerIn, takerVars, receipts>>

\* TERMS are applied, then sent; the maker no longer awaits `ready' unless
\* the send threw.  The resender sends what was applied in either case.
MakerTerms ==
    /\ MakerOn /\ fetching # None
    /\ fetching' = None
    /\ LET m == Msg("TERMS", "maker", OfferOf(fetching)) IN
       IF Accepts(makerTrade, m)
       THEN /\ makerTrade' = After(makerTrade, m)
            /\ Send(m)
            /\ awaiting' \in IF "maker error" \in Faults THEN BOOLEAN ELSE {FALSE}
       ELSE UNCHANGED <<makerTrade, net, awaiting>>
    /\ UNCHANGED <<world, makerPc, makerIn, takerVars, receipts>>

\* feeSnapshot throws: the next `ready' tries again.
MakerTermsFail ==
    /\ "maker error" \in Faults
    /\ MakerOn /\ fetching # None
    /\ fetching' = None
    /\ UNCHANGED <<world, net, makerTrade, makerPc, awaiting, makerIn, takerVars, receipts>>

\* ACCEPT starts the settlement once; an ACCEPT in state accepted, after the
\* start, is skipped.
MakerAccept ==
    /\ makerIn = "swap"
    /\ \E m \in Sent("taker") :
          /\ m.kind = "ACCEPT" /\ Accepts(makerTrade, m)
          /\ ~(makerTrade.state = "accepted" /\ makerPc # "idle")
          /\ makerTrade' = After(makerTrade, m)
    /\ makerPc' = IF makerTrade'.state = "accepted" THEN "invoice" ELSE makerPc
    /\ UNCHANGED <<world, net, awaiting, fetching, makerIn, takerVars, receipts>>

\* Any other envelope of the taker's peer; a final state ends the swap.
MakerHears ==
    /\ makerIn = "swap"
    /\ \E m \in Sent("taker") :
          /\ m.kind \in {"LN_PAID", "CLAIMED", "CANCEL"} /\ Accepts(makerTrade, m)
          /\ makerTrade' = After(makerTrade, m)
    /\ makerIn' = IF makerTrade'.state \in Final THEN "left" ELSE makerIn
    /\ UNCHANGED <<world, net, makerPc, awaiting, fetching, takerVars, receipts>>

\* What the receipts hold when lock is called: on TAO the settlement id is
\* computed and persisted first.
MutBeforeLock == {"hash"}  \* mutant: the id is persisted after the lock only
BeforeLock == IF Settlement = "tao" THEN {"hash", "id"} ELSE {"hash"}

\* lnInvoice returns: LN_INVOICE is applied (or the routine throws),
\* persisted, sent.
MakerInvoice ==
    /\ MakerOn /\ makerPc = "invoice"
    /\ LET m == Msg("LN_INVOICE", "maker",
                    [hash |-> "hash", bolt11 |-> "bolt11", amount |-> 1000,
                     expires |-> now + InvoiceExpiry]) IN
       IF Accepts(makerTrade, m)
       THEN /\ makerTrade' = After(makerTrade, m)
            /\ Record("maker", BeforeLock)
            /\ Send(m)
            /\ makerPc' = "lock"
       ELSE /\ makerPc' = "stopped"
            /\ UNCHANGED <<makerTrade, receipts, net>>
    /\ UNCHANGED <<world, awaiting, fetching, makerIn, takerVars>>

\* Over TAO the contract refuses a refund time in the past and the provider
\* wants a margin; over Solana nothing is checked.
LockInTime ==
    Settlement = "tao" =>
        LET after == makerTrade.terms.refundAfter IN after > now /\ after >= now + MinRemaining

\* The lock transaction lands while the maker still awaits it.
MakerLock ==
    /\ MakerOn /\ makerPc = "lock"
    /\ LockInTime
    /\ chain' = [status |-> "locked", after |-> makerTrade.terms.refundAfter]
    /\ makerPc' = "prove"
    /\ UNCHANGED <<now, ln, net, makerTrade, awaiting, fetching, makerIn, takerVars, receipts>>

\* lock returns: the escrow is applied (or the routine throws), persisted,
\* sent.
MakerProves ==
    /\ MakerOn /\ makerPc = "prove"
    /\ LET m == Msg("ESCROW", "maker",
                    [hash |-> "hash", deal |-> "deal", id |-> "id", tx |-> "lock",
                     refundAfter |-> makerTrade.terms.refundAfter]) IN
       IF Accepts(makerTrade, m)
       THEN /\ makerTrade' = After(makerTrade, m)
            /\ Record("maker", {"hash", "id"})
            /\ Send(m)
            /\ makerPc' = "shown"
       ELSE /\ makerPc' = "stopped"
            /\ UNCHANGED <<makerTrade, receipts, net>>
    /\ UNCHANGED <<world, awaiting, fetching, makerIn, takerVars>>

\* lnInvoice or lock throws for good: not started, too late, or - in "prove" -
\* broadcast but not seen confirmed.  Nothing restarts the routine.
MakerFails ==
    /\ MakerOn
    /\ \/ makerPc \in {"invoice", "lock", "prove"} /\ "maker error" \in Faults
       \/ makerPc = "lock" /\ ~LockInTime
    /\ makerPc' = "stopped"
    /\ UNCHANGED <<world, net, makerTrade, awaiting, fetching, makerIn, takerVars, receipts>>

\* The resender at the deadline: clean up, then send CANCEL.
MakerTimeout ==
    /\ makerIn = "swap" /\ now > SwapTimeout
    /\ makerIn' = "left"
    /\ Send(Msg("CANCEL", "maker", "timeout"))
    /\ UNCHANGED <<world, makerTrade, makerPc, awaiting, fetching, takerVars, receipts>>

MakerCrash ==
    /\ "maker crash" \in Faults /\ MakerOn
    /\ makerIn' = "down"
    /\ UNCHANGED <<world, net, makerTrade, makerPc, awaiting, fetching, takerVars, receipts>>

\* swaprecover refund, run by the maker's operator.
MakerRefund ==
    /\ {"hash", "id"} \subseteq receipts.maker
    /\ chain.status = "locked" /\ now >= chain.after
    /\ chain' = [chain EXCEPT !.status = "refunded"]
    /\ UNCHANGED <<now, ln, net, makerVars, takerVars, receipts>>

-----------------------------------------------------------------------------
\* The taker.  takerPc: "ready" and "sending" await a send, "terms",
\* "invoice" and "escrow" await a message, then "verify", "check", "paying",
\* "record", "claim", "tell"; in the end "done" or "dead" (die: whatever
\* startSwap throws ends the process).
TakerOn == takerPc \notin {"done", "dead"}

TakerReadySent ==
    /\ takerPc = "ready"
    /\ takerPc' = "terms"
    /\ UNCHANGED <<world, net, makerVars, takerTrade, receipts>>

\* TERMS while awaited: they are applied if the rules allow, and ACCEPT of
\* the terms in that message, whether applied or not, is applied and sent.
TakerTerms ==
    /\ takerPc = "terms"
    /\ \E m \in Sent("maker") :
          /\ m.kind = "TERMS"
          /\ LET t == Apply(takerTrade, m)
                 a == Msg("ACCEPT", "taker", [terms_hash |-> HashOf(m)])
             IN IF Accepts(t, a)
                THEN takerTrade' = After(t, a) /\ Send(a) /\ takerPc' = "sending"
                ELSE takerTrade' = t /\ takerPc' = "dead" /\ UNCHANGED net
    /\ UNCHANGED <<world, makerVars, receipts>>

TakerAcceptSent ==
    /\ takerPc = "sending"
    /\ takerPc' = "invoice"
    /\ UNCHANGED <<world, net, makerVars, takerTrade, receipts>>

\* persistSwapMessageCheckpoint
\* mutant: an escrow message is not checkpointed
MutCheckpoint(kind) == IF kind = "LN_INVOICE" THEN {"hash"} ELSE {}
Checkpoint(kind) == CASE kind = "LN_INVOICE" -> {"hash"}
                      [] kind = "ESCROW"     -> {"id"}
                      [] OTHER               -> {}

\* onSidechannelMessage: apply, checkpoint if applied, then wake the waiter
\* for this kind, which checkpoints in any case and moves on.
TakerReceives(m) ==
    LET woken == <<takerPc, m.kind>> \in {<<"invoice", "LN_INVOICE">>,
                                          <<"escrow", "ESCROW">>}
    IN /\ TakerOn
       /\ m.kind = "TERMS" => takerPc # "terms"
       /\ takerTrade' = Apply(takerTrade, m)
       /\ IF Accepts(takerTrade, m) \/ woken
          THEN Record("taker", Checkpoint(m.kind)) ELSE UNCHANGED receipts
       /\ takerPc' = IF ~woken THEN takerPc
                     ELSE IF takerPc = "invoice" THEN "escrow" ELSE "verify"
       /\ UNCHANGED <<world, net, makerVars>>

TakerHears == \E m \in Sent("maker") : TakerReceives(m)

\* waitForPrepayOnchain: the contract must be locked and be the escrow of
\* the messages.  The Solana provider has no such method: the call throws.
OnChainOK ==
    /\ Settlement = "tao"
    /\ takerTrade.invoice # None /\ takerTrade.escrow # None
    /\ chain.status = "locked"
    /\ chain.after = takerTrade.escrow.refundAfter
    /\ chain.after = takerTrade.terms.refundAfter

TakerVerifies ==
    /\ takerPc = "verify"
    /\ takerPc' = IF OnChainOK THEN "check" ELSE "dead"
    /\ UNCHANGED <<world, net, makerVars, takerTrade, receipts>>

\* The timelock is checked on the clock, then lnPay is called; the payee
\* refuses an expired invoice.
\* mutant: only an open refund path is refused
MutTimelockSafe == takerTrade.escrow.refundAfter > now
TimelockSafe ==
    /\ takerTrade.escrow.refundAfter >= now + MinRemaining
    /\ takerTrade.escrow.refundAfter > takerTrade.invoice.expires + MinRemaining

TakerPays ==
    /\ takerPc = "check"
    /\ IF TimelockSafe /\ now <= takerTrade.invoice.expires
       THEN ln' = [status |-> "inflight", since |-> now] /\ takerPc' = "paying"
       ELSE takerPc' = "dead" /\ UNCHANGED ln
    /\ UNCHANGED <<now, chain, net, makerVars, takerTrade, receipts>>

\* lnPay returns the preimage: LN_PAID is applied (or startSwap throws) and
\* sent; the preimage is persisted after the send.
TakerPaid ==
    /\ takerPc = "paying" /\ ln.status = "paid"
    /\ LET m == Msg("LN_PAID", "taker", [hash |-> "hash"]) IN
       IF Accepts(takerTrade, m)
       THEN takerTrade' = After(takerTrade, m) /\ Send(m) /\ takerPc' = "record"
       ELSE takerPc' = "dead" /\ UNCHANGED <<takerTrade, net>>
    /\ UNCHANGED <<world, makerVars, receipts>>

TakerRecords ==
    /\ takerPc = "record"
    /\ Record("taker", {"hash", "preimage"})
    /\ takerPc' = "claim"
    /\ UNCHANGED <<world, net, makerVars, takerTrade>>

TakerClaims ==
    /\ takerPc = "claim" /\ chain.status = "locked"
    /\ chain' = [chain EXCEPT !.status = "claimed"]
    /\ takerPc' = "tell"
    /\ UNCHANGED <<now, ln, net, makerVars, takerTrade, receipts>>

\* CLAIMED is sent, never applied to the taker's own copy.
\* mutant: CLAIMED is sent before the claim
MutTakerTells ==
    /\ takerPc = "claim"
    /\ Send(Msg("CLAIMED", "taker", [hash |-> "hash", id |-> "id", tx |-> "claim"]))
    /\ takerPc' = "done"
    /\ UNCHANGED <<world, makerVars, takerTrade, receipts>>
TakerTells ==
    /\ takerPc = "tell"
    /\ Send(Msg("CLAIMED", "taker", [hash |-> "hash", id |-> "id", tx |-> "claim"]))
    /\ takerPc' = "done"
    /\ UNCHANGED <<world, makerVars, takerTrade, receipts>>

\* lnPay or claim throws: the payment failed, the contract is closed, or a
\* call was lost although it may have got through.
TakerFails ==
    /\ \/ takerPc = "paying" /\ ln.status = "failed"
       \/ takerPc = "claim" /\ chain.status # "locked"
       \/ takerPc \in {"verify", "paying", "claim"} /\ "taker error" \in Faults
    /\ takerPc' = "dead"
    /\ UNCHANGED <<world, net, makerVars, takerTrade, receipts>>

\* The timers of startSwap end the process at the deadline, whatever
\* startSwap is doing.
TakerTimeout ==
    /\ TakerOn /\ takerPc # "ready" /\ now > SwapTimeout
    /\ takerPc' = "dead"
    /\ UNCHANGED <<world, net, makerVars, takerTrade, receipts>>

TakerCrash ==
    /\ "taker crash" \in Faults /\ TakerOn
    /\ takerPc' = "dead"
    /\ UNCHANGED <<world, net, makerVars, takerTrade, receipts>>

\* swaprecover claim, run by the taker's operator: not once the refund path
\* is open.
Recoverable == {"hash", "id", "preimage"} \subseteq receipts.taker

TakerRecover ==
    /\ takerPc = "dead" /\ Recoverable
    /\ chain.status = "locked" /\ now < chain.after
    /\ chain' = [chain EXCEPT !.status = "claimed"]
    /\ UNCHANGED <<now, ln, net, makerVars, takerVars, receipts>>

\* The operator of the taker's peer posts CANCEL from the prompt tools.
OperatorCancels ==
    /\ "cancel" \in Faults
    /\ Send(Msg("CANCEL", "taker", "operator"))
    /\ UNCHANGED <<world, makerVars, takerVars, receipts>>

-----------------------------------------------------------------------------
\* The Lightning network settles or fails a payment whatever became of the
\* bot that asked for it; nothing fails unless told to.
PaymentSettles ==
    /\ ln.status = "inflight"
    /\ ln' = [ln EXCEPT !.status = "paid"]
    /\ UNCHANGED <<now, chain, net, makerVars, takerVars, receipts>>

PaymentFails ==
    /\ "pay fails" \in Faults
    /\ ln.status = "inflight"
    /\ ln' = [ln EXCEPT !.status = "failed"]
    /\ UNCHANGED <<now, chain, net, makerVars, takerVars, receipts>>

\* Time.  The environment the margins are made for: a payment is resolved
\* within PayBound, and a live taker that learned the preimage records it and
\* claims before the next tick.
Tick ==
    /\ now < MaxTime
    /\ ln.status = "inflight" => now < ln.since + PayBound
    /\ takerPc \notin {"record", "claim"}
    /\ ~(takerPc = "paying" /\ ln.status # "inflight")
    /\ now' = now + 1
    /\ UNCHANGED <<chain, ln, net, makerVars, takerVars, receipts>>

\* The swap may end, and the clock stop.
MakerNext == \/ MakerReady \/ MakerTerms \/ MakerTermsFail \/ MakerAccept
             \/ MakerHears \/ MakerInvoice \/ MakerLock \/ MakerProves
             \/ MakerFails \/ MakerTimeout \/ MakerCrash \/ MakerRefund
TakerNext == \/ TakerReadySent \/ TakerTerms \/ TakerAcceptSent \/ TakerHears
             \/ TakerVerifies \/ TakerPays \/ TakerPaid \/ TakerRecords
             \/ TakerClaims \/ TakerTells \/ TakerFails \/ TakerTimeout
             \/ TakerCrash \/ TakerRecover \/ OperatorCancels
Next == MakerNext \/ TakerNext \/ PaymentSettles \/ PaymentFails \/ Tick

Spec == Init /\ [][Next]_vars

\* What a live bot keeps resending: TERMS in state terms; LN_INVOICE and
\* the escrow until LN_PAID; `ready' in state init; ACCEPT until an invoice.
\* mutant: LN_INVOICE is resent only until it was applied
MutResent(m) ==
    CASE m.kind = "TERMS" -> makerTrade.state = "terms"
      [] m.kind = "LN_INVOICE" -> makerTrade.state = "accepted"
      [] m.kind = "ESCROW" -> makerTrade.state \in {"invoice", "escrow"}
      [] OTHER -> takerTrade.invoice = None
Resent(m) ==
    CASE m.kind = "TERMS" -> makerTrade.state = "terms"
      [] m.kind = "LN_INVOICE" -> makerTrade.state \in {"accepted", "invoice", "escrow"}
      [] m.kind = "ESCROW" -> makerTrade.state \in {"invoice", "escrow"}
      [] m.kind = "STATUS" -> takerTrade.state = "init"
      [] m.kind = "ACCEPT" -> takerTrade.invoice = None
                              /\ takerTrade.state \in Open \cup {"accepted"}
      [] OTHER -> FALSE
Resending(kind) == \E m \in net : m.kind = kind /\ Resent(m)

Delivers(kind) == \E m \in Sent("maker") :
                     m.kind = kind /\ Resent(m) /\ TakerReceives(m)

\* A bot that runs goes on after an await, and the channel delivers in the
\* end what is resent again and again.
BotsFair ==
    /\ WF_vars(MakerReady /\ Resending("STATUS"))
    /\ SF_vars(MakerTerms)
    /\ WF_vars(MakerAccept /\ Resending("ACCEPT"))
    /\ WF_vars(MakerInvoice) /\ WF_vars(MakerLock) /\ WF_vars(MakerProves)
    /\ WF_vars(TakerReadySent) /\ WF_vars(TakerAcceptSent)
    /\ WF_vars(TakerTerms /\ Resending("TERMS"))
    /\ \A k \in {"LN_INVOICE", "ESCROW"} : WF_vars(Delivers(k))
    /\ WF_vars(TakerVerifies) /\ WF_vars(TakerPays) /\ WF_vars(TakerPaid)
    /\ WF_vars(TakerRecords) /\ WF_vars(TakerClaims) /\ WF_vars(TakerTells)
    /\ WF_vars(TakerFails) /\ WF_vars(PaymentSettles)

\* Time passes, and an operator runs swaprecover refund once it can succeed.
RefundFair == WF_vars(Tick) /\ WF_vars(MakerRefund)

BotSpec == Spec /\ BotsFair

-----------------------------------------------------------------------------
\* Two bots that both accepted accepted the same terms, although TERMS may be
\* sent twice and either side may hold the older ones; and they never hold
\* different invoices or escrows.
SameDeal ==
    /\ makerTrade.accepted_at # None /\ takerTrade.accepted_at # None
          => makerTrade.terms_hash = takerTrade.terms_hash
    /\ None \in {makerTrade.invoice, takerTrade.invoice}
          \/ makerTrade.invoice = takerTrade.invoice
    /\ None \in {makerTrade.escrow, takerTrade.escrow}
          \/ makerTrade.escrow = takerTrade.escrow

\* "Hard rule: no escrow, no pay": when the payment leaves, the contract the
\* taker read earlier is still locked and leaves it the agreed time to claim.
PaysAgainstEscrowStep ==
    ln.status = "none" /\ ln'.status = "inflight" =>
        /\ chain.status = "locked"
        /\ chain.after = takerTrade.terms.refundAfter
        /\ chain.after >= now + MinRemaining
PaysAgainstEscrow == [][PaysAgainstEscrowStep]_vars

\* A taker that is still running is never left with a paid invoice and a
\* refunded escrow: the timelock margins outlast the payment.
RunningTakerIsSafe ==
    ln.status = "paid" /\ chain.status = "refunded" => takerPc = "dead"

\* The escrow goes to the taker only against the Lightning payment, and what
\* the maker has on record happened: LN_PAID and CLAIMED reach it only after
\* the payment settled and the claim landed.
MakerRecordsTrue ==
    /\ chain.status = "claimed" => ln.status = "paid"
    /\ makerTrade.ln_paid # None => ln.status = "paid"
    /\ makerTrade.claimed # None => chain.status = "claimed"

\* At every moment at which the taker may vanish after paying was started,
\* its receipts identify the payment and the escrow.
PayerKnowsEscrow == ln.status # "none" => {"hash", "id"} \subseteq receipts.taker

\* A taker that paid and is gone has what swaprecover claim needs, the
\* preimage included ("required for offline recovery").
PaidIsRecoverable ==
    ln.status = "paid" /\ chain.status = "locked" /\ takerPc = "dead" => Recoverable

\* Locked funds never stay locked, whatever fails, if time passes and an
\* operator refunds what can be refunded.
EscrowSettles ==
    RefundFair => (chain.status = "locked" ~> chain.status \in {"claimed", "refunded"})

\* The maker is asked for terms early enough, nothing fails, is canceled or
\* crashes, and no deadline passes.  (Where no fault of the taker is allowed
\* its end is the code's own doing.)
Calm ==
    /\ now <= LastReady
    /\ awaiting => makerTrade.state = "init"
    /\ makerIn # "down" /\ makerPc # "stopped"
    /\ Faults \cap {"taker error", "taker crash"} # {} => takerPc # "dead"
    /\ ln.status # "failed"
    /\ \A m \in net : m.kind # "CANCEL"

\* As long as it is calm the swap completes, whatever messages are lost,
\* repeated or reordered while the bots resend: "Taker claims USDT on Solana
\* using preimage".
Completes == []Calm => <>(chain.status = "claimed" /\ takerPc = "done")
=============================================================================
