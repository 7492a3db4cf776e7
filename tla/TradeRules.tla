----------------------------- MODULE TradeRules -----------------------------
(***************************************************************************)
(* The rules of src/swap/stateMachine.js: which signed swap envelope a     *)
(* trade record accepts, and what the record becomes.  applySwapEnvelope   *)
(* is a pure function of (trade, envelope); it is split here, per kind,    *)
(* into a guard Can<Kind>(t, e), the conjunction of the checks that do not *)
(* return an error, and a result After<Kind>(t, e).                        *)
(*                                                                         *)
(* Abstractions.                                                           *)
(*  - A terms body keeps the two peers, the BTC amount, the deadline of    *)
(*    the refund path, the validity deadline, and one value `deal' that    *)
(*    stands for everything an escrow must reproduce verbatim: asset,      *)
(*    amount, recipient and refund address.                                *)
(*  - SOL_* and TAO_* envelopes differ only in the names of the fields     *)
(*    that are compared; `id' is the escrow's identity (escrow_pda and     *)
(*    vault_ata, or settlement_id) and `tx' its transaction.               *)
(*  - terms_hash is a hash of the unsigned envelope, hence the envelope's  *)
(*    content itself.  Schema and signature checks are the shape of the    *)
(*    envelope sets: a signer is a peer that really signed.                *)
(*  - Seconds and milliseconds are one unit of time.                       *)
(*  - `last' and `canceled_reason' are written and read by no rule.        *)
(***************************************************************************)
EXTENDS Integers

CONSTANTS
    Peer,     \* public keys that can sign an envelope
    Offer,    \* the TERMS bodies that may be proposed
    Deal,     \* asset, amount, recipient and refund address of an escrow
    Hash,     \* payment hashes
    Bolt11,   \* encoded invoices
    Msat,     \* invoice amounts in millisatoshi
    Id,       \* identities of escrows
    Tx,       \* transaction signatures
    Time,     \* timestamps
    None      \* a field that is null or absent

OfferType ==
    [receiver : Peer, payer : Peer, btc_sats : Nat, deal : Deal,
     refundAfter : Time, validUntil : Time \cup {None}]

ASSUME OfferAssumption == Offer \subseteq OfferType
ASSUME TimeAssumption == Time \subseteq Nat
ASSUME MsatAssumption == Msat \subseteq Nat
\* null is neither a number, a peer, nor a body
ASSUME NoneAssumption == /\ None \notin Nat
                         /\ None \notin OfferType

TermsHash == [body : Offer, ts : Time]

InvoiceBody == [hash : Hash, bolt11 : Bolt11,
                amount : Msat \cup {None}, expires : Time \cup {None}]
EscrowBody  == [hash : Hash, deal : Deal, refundAfter : Time, id : Id, tx : Tx]
PaidBody    == [hash : Hash]
SettledBody == [hash : Hash, id : Id, tx : Tx]

Signed(body) == [signer : Peer, ts : Time, body : body]

TermsEnvelope   == Signed(Offer)
AcceptEnvelope  == Signed([terms_hash : TermsHash])
InvoiceEnvelope == Signed(InvoiceBody)
EscrowEnvelope  == Signed(EscrowBody)
PaidEnvelope    == Signed(PaidBody)
SettledEnvelope == Signed(SettledBody)

Open      == {"init", "terms"}
Final     == {"claimed", "refunded", "canceled"}
State     == Open \cup {"accepted", "invoice", "escrow", "ln_paid"} \cup Final

Trade ==
    [state       : State,
     terms       : Offer \cup {None},
     terms_hash  : TermsHash \cup {None},
     accepted_at : Time \cup {None},
     invoice     : InvoiceBody \cup {None},
     escrow      : EscrowBody \cup {None},
     ln_paid     : PaidBody \cup {None},
     claimed     : SettledBody \cup {None},
     refunded    : SettledBody \cup {None}]

createInitialTrade ==
    [state |-> "init", terms |-> None, terms_hash |-> None,
     accepted_at |-> None, invoice |-> None, escrow |-> None,
     ln_paid |-> None, claimed |-> None, refunded |-> None]

\* Evidence already held wins over the replay that carries it again.
MutKeep(old, new) == new  \* mutant: a replay overwrites
Keep(old, new) == IF old = None THEN new ELSE old

-----------------------------------------------------------------------------
\* TERMS: authored by the LN receiver it names, and by the same one for ever;
\* after ACCEPT (or CANCEL) only the exact same terms may be replayed.
HashOf(e) == [body |-> e.body, ts |-> e.ts]

CanTerms(t, e) ==
    /\ e.signer = e.body.receiver
    /\ t.terms # None => e.signer = t.terms.receiver
    /\ t.state \notin Open => t.terms_hash = HashOf(e)

\* mutant: stores the envelope where the body belongs
MutAfterTerms(t, e) == [t EXCEPT !.state = "terms", !.terms = e]

AfterTerms(t, e) ==
    IF t.state \in Open
    THEN [state |-> "terms", terms |-> e.body, terms_hash |-> HashOf(e),
          accepted_at |-> None, invoice |-> None, escrow |-> None,
          ln_paid |-> None, claimed |-> None, refunded |-> None]
    ELSE t

-----------------------------------------------------------------------------
\* ACCEPT: by the LN payer the terms name, for the terms now held.
\* The validity deadline is compared with the sender's timestamp, and only
\* for the envelope that moves the trade.
\* mutant: the hash that was accepted is not compared
MutCanAccept(t, e) ==
    t.state \in {"terms", "accepted"} /\ e.signer = t.terms.payer

CanAccept(t, e) ==
    /\ t.terms # None
    /\ t.state # "canceled"
    /\ t.state = "terms" /\ t.terms.validUntil # None
           => e.ts <= t.terms.validUntil
    /\ e.signer = t.terms.payer
    /\ e.body.terms_hash = t.terms_hash

AfterAccept(t, e) ==
    IF t.state = "terms"
    THEN [t EXCEPT !.state = "accepted", !.accepted_at = e.ts]
    ELSE t

-----------------------------------------------------------------------------
\* LN_INVOICE: by the receiver, for the agreed amount, not yet expired; a
\* second one must repeat the first (optional fields only where both carry
\* them).
SameWhereBoth(a, b) == a # None /\ b # None => a = b

CanInvoice(t, e) ==
    /\ t.state \in {"accepted", "invoice", "escrow"}
    /\ t.terms # None
    /\ e.signer = t.terms.receiver
    /\ e.body.amount # None => e.body.amount = 1000 * t.terms.btc_sats
    /\ e.body.expires # None => e.ts <= e.body.expires
    /\ t.invoice # None =>
           /\ e.body.hash = t.invoice.hash
           /\ e.body.bolt11 = t.invoice.bolt11
           /\ SameWhereBoth(t.invoice.amount, e.body.amount)
           /\ SameWhereBoth(t.invoice.expires, e.body.expires)

AfterInvoice(t, e) ==
    [t EXCEPT !.invoice = Keep(@, e.body),
              !.state = IF @ = "accepted" THEN "invoice" ELSE @]

-----------------------------------------------------------------------------
\* SOL_ESCROW_CREATED / TAO_HTLC_LOCKED: by the receiver, for the invoice's
\* hash and the agreed deal, with a refund path no earlier than agreed.
\* mutant: the escrow's payment hash is not compared with the invoice's
MutCanEscrow(t, e) ==
    /\ t.state \in {"invoice", "escrow"}
    /\ e.signer = t.terms.receiver
    /\ e.body.deal = t.terms.deal
    /\ e.body.refundAfter >= t.terms.refundAfter
    /\ t.escrow # None => e.body.id = t.escrow.id

CanEscrow(t, e) ==
    /\ t.state \in {"invoice", "escrow"}
    /\ t.terms # None /\ t.invoice # None
    /\ e.signer = t.terms.receiver
    /\ e.body.hash = t.invoice.hash
    /\ e.body.deal = t.terms.deal
    /\ e.body.refundAfter >= t.terms.refundAfter
    /\ t.escrow # None => /\ e.body.id = t.escrow.id
                          /\ e.body.tx = t.escrow.tx

AfterEscrow(t, e) ==
    [t EXCEPT !.escrow = Keep(@, e.body), !.state = "escrow"]

-----------------------------------------------------------------------------
\* LN_PAID: by the payer, for the hash of both invoice and escrow, stamped
\* no later than the invoice's expiry.
CanLnPaid(t, e) ==
    /\ t.state \in {"escrow", "ln_paid"}
    /\ t.terms # None /\ t.invoice # None /\ t.escrow # None
    /\ e.signer = t.terms.payer
    /\ e.body.hash = t.invoice.hash
    /\ e.body.hash = t.escrow.hash
    /\ t.invoice.expires # None => e.ts <= t.invoice.expires
    /\ t.ln_paid # None => t.ln_paid.hash = e.body.hash

AfterLnPaid(t, e) ==
    [t EXCEPT !.ln_paid = Keep(@, e.body), !.state = "ln_paid"]

-----------------------------------------------------------------------------
\* SOL_CLAIMED / TAO_CLAIMED: by the payer, for the escrow held.
CanClaimed(t, e) ==
    /\ t.state \in {"escrow", "ln_paid", "claimed"}
    /\ t.terms # None /\ t.escrow # None
    /\ e.signer = t.terms.payer
    /\ e.body.hash = t.escrow.hash
    /\ e.body.id = t.escrow.id
    /\ t.claimed # None => e.body.tx = t.claimed.tx

AfterClaimed(t, e) ==
    [t EXCEPT !.claimed = Keep(@, e.body), !.state = "claimed"]

-----------------------------------------------------------------------------
\* SOL_REFUNDED / TAO_REFUNDED: by the receiver, for the escrow held, stamped
\* no earlier than the refund path opens; never once the trade is ln_paid.
\* mutant: a paid trade can be recorded as refunded
MutCanRefunded(t, e) ==
    /\ t.state \in {"escrow", "ln_paid", "refunded"}
    /\ e.signer = t.terms.receiver
    /\ e.body.hash = t.escrow.hash /\ e.body.id = t.escrow.id
    /\ e.ts >= t.escrow.refundAfter

CanRefunded(t, e) ==
    /\ t.state \in {"escrow", "refunded"}
    /\ t.terms # None /\ t.escrow # None
    /\ e.signer = t.terms.receiver
    /\ e.body.hash = t.escrow.hash
    /\ e.body.id = t.escrow.id
    /\ e.ts >= t.escrow.refundAfter
    /\ t.refunded # None => e.body.tx = t.refunded.tx

AfterRefunded(t, e) ==
    [t EXCEPT !.refunded = Keep(@, e.body), !.state = "refunded"]

-----------------------------------------------------------------------------
\* CANCEL: before there is an escrow.  The signer is not looked at.
CanCancel(t) == t.state \notin {"escrow", "ln_paid", "claimed", "refunded"}

AfterCancel(t) == [t EXCEPT !.state = "canceled"]
=============================================================================
