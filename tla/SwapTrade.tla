------------------------------ MODULE SwapTrade ------------------------------
(***************************************************************************)
(* One copy of a trade (createInitialTrade) driven by applySwapEnvelope:   *)
(* validly signed envelopes of every kind, from any peer, in any order,    *)
(* any number of times.  An envelope the rules reject leaves the trade as  *)
(* it is (the caller keeps its old record), as does STATUS; neither is an  *)
(* action.                                                                 *)
(***************************************************************************)
EXTENDS TradeRules

VARIABLE trade

Init == trade = createInitialTrade

TERMS   == \E e \in TermsEnvelope :
              CanTerms(trade, e) /\ trade' = AfterTerms(trade, e)
ACCEPT  == \E e \in AcceptEnvelope :
              CanAccept(trade, e) /\ trade' = AfterAccept(trade, e)
LN_INVOICE == \E e \in InvoiceEnvelope :
              CanInvoice(trade, e) /\ trade' = AfterInvoice(trade, e)
ESCROW_CREATED == \E e \in EscrowEnvelope :
              CanEscrow(trade, e) /\ trade' = AfterEscrow(trade, e)
LN_PAID == \E e \in PaidEnvelope :
              CanLnPaid(trade, e) /\ trade' = AfterLnPaid(trade, e)
CLAIMED == \E e \in SettledEnvelope :
              CanClaimed(trade, e) /\ trade' = AfterClaimed(trade, e)
REFUNDED == \E e \in SettledEnvelope :
              CanRefunded(trade, e) /\ trade' = AfterRefunded(trade, e)
CANCEL  == CanCancel(trade) /\ trade' = AfterCancel(trade)

Next == TERMS \/ ACCEPT \/ LN_INVOICE \/ ESCROW_CREATED \/ LN_PAID
        \/ CLAIMED \/ REFUNDED \/ CANCEL

Spec == Init /\ [][Next]_trade

-----------------------------------------------------------------------------
\* Every field of the record holds a value of its kind or null.
TypeOK == trade \in Trade

\* No evidence of settlement is held for terms nobody accepted: before
\* ACCEPT there is no invoice, escrow, payment, claim or refund, whatever
\* terms were replaced; so replacing terms can never discard evidence.
NoEvidenceBeforeAccept ==
    trade.accepted_at = None =>
        /\ trade.invoice = None /\ trade.escrow = None
        /\ trade.ln_paid = None
        /\ trade.claimed = None /\ trade.refunded = None

\* Everything held hangs together across messages that arrived separately:
\* the invoice is for the agreed amount; the escrow locks the agreed deal
\* under the invoice's hash with a refund path no earlier than agreed; what
\* was paid, claimed or refunded is that hash and that escrow.
EvidenceChain ==
    LET t == trade IN
    /\ t.invoice # None /\ t.invoice.amount # None
          => t.invoice.amount = 1000 * t.terms.btc_sats
    /\ t.escrow # None =>
          /\ t.invoice # None
          /\ t.escrow.hash = t.invoice.hash
          /\ t.escrow.deal = t.terms.deal
          /\ t.escrow.refundAfter >= t.terms.refundAfter
    /\ t.ln_paid # None =>
          t.escrow # None /\ t.ln_paid.hash = t.escrow.hash
    /\ \A s \in {t.claimed, t.refunded} : s # None =>
          t.escrow # None /\ s.hash = t.escrow.hash /\ s.id = t.escrow.id

\* A trade is settled one way only: never both claimed and refunded, and a
\* trade whose payment is on record is never recorded as refunded.
SettledOneWay ==
    trade.refunded # None => trade.claimed = None /\ trade.ln_paid = None

\* A canceled trade has no escrow: "Either side may cancel before escrow is
\* created", never after.
CanceledUnfunded == trade.state = "canceled" => trade.escrow = None

\* Once accepted, the terms, their hash and the acceptance are frozen, and
\* each piece of evidence is written at most once, whatever is replayed.
AcceptedFrozenStep ==
    trade.accepted_at # None =>
       /\ trade'.accepted_at = trade.accepted_at
       /\ trade'.terms = trade.terms
       /\ trade'.terms_hash = trade.terms_hash
       /\ trade.invoice # None => trade'.invoice = trade.invoice
       /\ trade.escrow # None => trade'.escrow = trade.escrow
       /\ trade.ln_paid # None => trade'.ln_paid = trade.ln_paid
       /\ trade.claimed # None => trade'.claimed = trade.claimed
       /\ trade.refunded # None => trade'.refunded = trade.refunded
AcceptedFrozen == [][AcceptedFrozenStep]_trade

\* The LN receiver that first proposed terms is the author of the terms for
\* the life of the trade, also through replacements.
AuthorLockedStep ==
    trade.terms # None =>
       trade'.terms # None /\ trade'.terms.receiver = trade.terms.receiver
AuthorLocked == [][AuthorLockedStep]_trade

\* The state only advances along init, terms, accepted, invoice, escrow,
\* ln_paid to one of the three final states, and never leaves those.
Rank == [init |-> 0, terms |-> 1, accepted |-> 2, invoice |-> 3,
         escrow |-> 4, ln_paid |-> 5, claimed |-> 6, refunded |-> 6,
         canceled |-> 6]
ForwardStep ==
    /\ Rank[trade'.state] >= Rank[trade.state]
    /\ trade.state \in Final => trade'.state = trade.state
Forward == [][ForwardStep]_trade
=============================================================================
