---------------------------- MODULE RecordProofs ----------------------------
(***************************************************************************)
(* The two records a peer has of a trade: the copy in memory that          *)
(* envelopes move (SwapTrade), and the row in the receipts database        *)
(* (Receipts).                                                             *)
(*                                                                         *)
(*  - SwapTrade, for every set of peers, offers, hashes and times.  The    *)
(*    evidence properties are not inductive: that a canceled trade has no  *)
(*    escrow, say, holds because an escrow is only ever held in the states *)
(*    CANCEL refuses.  StateEvidence records, for each piece of evidence,  *)
(*    the states it can be held in; with it every property is one step     *)
(*    away.                                                                *)
(*  - Receipts, for any number of crashes, restarts and failed calls.      *)
(*    That the row is enough for a tool, and that nobody writes over a     *)
(*    payment, rests on what each writer has filed before: RowInv.         *)
(***************************************************************************)
EXTENDS SwapTrade, Receipts, TLAPS

-----------------------------------------------------------------------------
(* The copy of the trade (SwapTrade).                                      *)

\* The states in which each piece of evidence can be held.
StateEvidence ==
    LET t == trade IN
    /\ t.accepted_at # None => t.terms # None
    /\ t.state \in Open => t.accepted_at = None
    /\ t.state \in State \ (Open \cup {"canceled"}) => t.accepted_at # None
    /\ t.invoice # None => t.accepted_at # None
    /\ t.escrow # None =>
          t.invoice # None /\ t.state \in {"escrow", "ln_paid", "claimed", "refunded"}
    /\ t.ln_paid # None => t.escrow # None /\ t.state \in {"ln_paid", "claimed"}
    /\ t.claimed # None => t.escrow # None /\ t.state = "claimed"
    /\ t.refunded # None => t.escrow # None /\ t.state = "refunded"

IInv == TypeOK /\ StateEvidence /\ EvidenceChain

-----------------------------------------------------------------------------
(* What each rule leaves of a well-typed record is well typed.             *)

LEMMA TermsType ==
  ASSUME NEW t \in Trade, NEW e \in TermsEnvelope
  PROVE  AfterTerms(t, e) \in Trade
<1>1. e.ts \in Time /\ e.body \in Offer
  BY DEF Signed, TermsEnvelope
<1>2. HashOf(e) \in TermsHash
  BY <1>1 DEF HashOf, TermsHash
<1>3. QED
  BY <1>1, <1>2 DEF AfterTerms, Trade, State, Open, Final

LEMMA AcceptType ==
  ASSUME NEW t \in Trade, NEW e \in AcceptEnvelope
  PROVE  AfterAccept(t, e) \in Trade
<1>1. e.ts \in Time
  BY DEF AcceptEnvelope, Signed
<1>2. QED
  BY <1>1 DEF AfterAccept, Trade, State, Open, Final

LEMMA InvoiceType ==
  ASSUME NEW t \in Trade, NEW e \in InvoiceEnvelope
  PROVE  AfterInvoice(t, e) \in Trade
<1>1. e.body \in InvoiceBody
  BY DEF Signed, InvoiceEnvelope
<1>2. Keep(t.invoice, e.body) \in InvoiceBody \cup {None}
  BY <1>1 DEF Keep, Trade
<1>3. (IF t.state = "accepted" THEN "invoice" ELSE t.state) \in State
  BY DEF Trade, State
<1> DEFINE k == Keep(t.invoice, e.body)
           s == IF t.state = "accepted" THEN "invoice" ELSE t.state
<1>4. AfterInvoice(t, e) = [t EXCEPT !.invoice = k, !.state = s]
  BY DEF AfterInvoice
<1> HIDE DEF k, s
<1>5. QED
  BY <1>2, <1>3, <1>4 DEF Trade, k, s

LEMMA EscrowType ==
  ASSUME NEW t \in Trade, NEW e \in EscrowEnvelope
  PROVE  AfterEscrow(t, e) \in Trade
<1>1. e.body \in EscrowBody
  BY DEF Signed, EscrowEnvelope
<1>2. Keep(t.escrow, e.body) \in EscrowBody \cup {None}
  BY <1>1 DEF Keep, Trade
<1>3. QED
  BY <1>2 DEF AfterEscrow, Trade, State, Open, Final

LEMMA PaidType ==
  ASSUME NEW t \in Trade, NEW e \in PaidEnvelope
  PROVE  AfterLnPaid(t, e) \in Trade
<1>1. e.body \in PaidBody
  BY DEF Signed, PaidEnvelope
<1>2. Keep(t.ln_paid, e.body) \in PaidBody \cup {None}
  BY <1>1 DEF Keep, Trade
<1>3. QED
  BY <1>2 DEF AfterLnPaid, Trade, State, Open, Final

LEMMA ClaimedType ==
  ASSUME NEW t \in Trade, NEW e \in SettledEnvelope
  PROVE  AfterClaimed(t, e) \in Trade
<1>1. e.body \in SettledBody
  BY DEF Signed, SettledEnvelope
<1>2. Keep(t.claimed, e.body) \in SettledBody \cup {None}
  BY <1>1 DEF Keep, Trade
<1>3. QED
  BY <1>2 DEF AfterClaimed, Trade, State, Open, Final

LEMMA RefundedType ==
  ASSUME NEW t \in Trade, NEW e \in SettledEnvelope
  PROVE  AfterRefunded(t, e) \in Trade
<1>1. e.body \in SettledBody
  BY DEF Signed, SettledEnvelope
<1>2. Keep(t.refunded, e.body) \in SettledBody \cup {None}
  BY <1>1 DEF Keep, Trade
<1>3. QED
  BY <1>2 DEF AfterRefunded, Trade, State, Open, Final

LEMMA CancelType ==
  ASSUME NEW t \in Trade
  PROVE  AfterCancel(t) \in Trade
BY DEF AfterCancel, Trade, State, Open, Final

LEMMA TypeStep == TypeOK /\ [Next]_trade => TypeOK'
<1> SUFFICES ASSUME TypeOK, [Next]_trade PROVE TypeOK'
  OBVIOUS
<1> USE DEF TypeOK
<1>1. CASE TERMS
  BY <1>1, TermsType DEF TERMS
<1>2. CASE ACCEPT
  BY <1>2, AcceptType DEF ACCEPT
<1>3. CASE LN_INVOICE
  BY <1>3, InvoiceType DEF LN_INVOICE
<1>4. CASE ESCROW_CREATED
  BY <1>4, EscrowType DEF ESCROW_CREATED
<1>5. CASE LN_PAID
  BY <1>5, PaidType DEF LN_PAID
<1>6. CASE CLAIMED
  BY <1>6, ClaimedType DEF CLAIMED
<1>7. CASE REFUNDED
  BY <1>7, RefundedType DEF REFUNDED
<1>8. CASE CANCEL
  BY <1>8, CancelType DEF CANCEL
<1>9. CASE UNCHANGED trade
  BY <1>9
<1>10. QED
  BY <1>1, <1>2, <1>3, <1>4, <1>5, <1>6, <1>7, <1>8, <1>9 DEF Next

-----------------------------------------------------------------------------
LEMMA InitInv == Init => IInv
BY NoneAssumption DEF Init, createInitialTrade, IInv, TypeOK, Trade,
   StateEvidence, EvidenceChain, State, Open, Final

(* The evidence a step leaves.  Each case names the record after the step  *)
(* and the fields the rule leaves alone.                                   *)
LEMMA EvidenceStep ==
  IInv /\ [Next]_trade => StateEvidence' /\ EvidenceChain'
<1> SUFFICES ASSUME IInv, [Next]_trade PROVE StateEvidence' /\ EvidenceChain'
  OBVIOUS
<1> DEFINE t == trade
           u == trade'
<1>0. t \in Trade /\ u \in Trade
  BY TypeStep DEF IInv, TypeOK
<1>1. CASE TERMS
  <2>1. PICK e \in TermsEnvelope : CanTerms(t, e) /\ u = AfterTerms(t, e)
    BY <1>1 DEF TERMS
  <2>2. CASE t.state \in Open
    <3>1. /\ u.state = "terms" /\ u.accepted_at = None /\ u.invoice = None
          /\ u.escrow = None /\ u.ln_paid = None /\ u.claimed = None
          /\ u.refunded = None
      BY <2>1, <2>2 DEF AfterTerms
    <3>2. QED
      BY <3>1 DEF StateEvidence, EvidenceChain, State, Open, Final
  <2>3. CASE t.state \notin Open
    BY <2>1, <2>3 DEF AfterTerms, IInv, StateEvidence, EvidenceChain
  <2>4. QED
    BY <2>2, <2>3
<1>2. CASE ACCEPT
  <2>1. PICK e \in AcceptEnvelope : CanAccept(t, e) /\ u = AfterAccept(t, e)
    BY <1>2 DEF ACCEPT
  <2>2. CASE t.state = "terms"
    <3>1. e.ts # None
      BY TimeAssumption, NoneAssumption DEF AcceptEnvelope, Signed
    <3>2. /\ u.state = "accepted" /\ u.accepted_at = e.ts
          /\ u.terms = t.terms /\ u.invoice = t.invoice /\ u.escrow = t.escrow /\ u.ln_paid = t.ln_paid
          /\ u.claimed = t.claimed /\ u.refunded = t.refunded
      BY <1>0, <2>1, <2>2 DEF AfterAccept, Trade
    <3>3. QED
      BY <2>1, <2>2, <3>1, <3>2
      DEF CanAccept, IInv, StateEvidence, EvidenceChain, State, Open, Final
  <2>3. CASE t.state # "terms"
    BY <2>1, <2>3 DEF AfterAccept, IInv, StateEvidence, EvidenceChain
  <2>4. QED
    BY <2>2, <2>3
<1>3. CASE LN_INVOICE
  <2>1. PICK e \in InvoiceEnvelope : CanInvoice(t, e) /\ u = AfterInvoice(t, e)
    BY <1>3 DEF LN_INVOICE
  <2>2. /\ u.invoice = Keep(t.invoice, e.body)
        /\ u.state = (IF t.state = "accepted" THEN "invoice" ELSE t.state)
        /\ u.terms = t.terms /\ u.accepted_at = t.accepted_at
        /\ u.escrow = t.escrow /\ u.ln_paid = t.ln_paid
        /\ u.claimed = t.claimed /\ u.refunded = t.refunded
    BY <1>0, <2>1 DEF AfterInvoice, Trade
  <2>3. StateEvidence'
    BY <2>1, <2>2 DEF CanInvoice, Keep, IInv, StateEvidence, State, Open, Final
  <2>4. EvidenceChain'
    BY <2>1, <2>2 DEF CanInvoice, Keep, IInv, StateEvidence, EvidenceChain, Open
  <2>5. QED
    BY <2>3, <2>4
<1>4. CASE ESCROW_CREATED
  <2>1. PICK e \in EscrowEnvelope : CanEscrow(t, e) /\ u = AfterEscrow(t, e)
    BY <1>4 DEF ESCROW_CREATED
  <2>2. /\ u.escrow = Keep(t.escrow, e.body)
        /\ u.state = "escrow"
        /\ u.terms = t.terms /\ u.accepted_at = t.accepted_at
        /\ u.invoice = t.invoice /\ u.ln_paid = t.ln_paid
        /\ u.claimed = t.claimed /\ u.refunded = t.refunded
    BY <1>0, <2>1 DEF AfterEscrow, Trade
  <2>3. StateEvidence'
    BY <2>1, <2>2 DEF CanEscrow, Keep, IInv, StateEvidence, State, Open, Final
  <2>4. EvidenceChain'
    BY <2>1, <2>2 DEF CanEscrow, Keep, IInv, StateEvidence, EvidenceChain, Open
  <2>5. QED
    BY <2>3, <2>4
<1>5. CASE LN_PAID
  <2>1. PICK e \in PaidEnvelope : CanLnPaid(t, e) /\ u = AfterLnPaid(t, e)
    BY <1>5 DEF LN_PAID
  <2>2. /\ u.ln_paid = Keep(t.ln_paid, e.body)
        /\ u.state = "ln_paid"
        /\ u.terms = t.terms /\ u.accepted_at = t.accepted_at
        /\ u.invoice = t.invoice /\ u.escrow = t.escrow
        /\ u.claimed = t.claimed /\ u.refunded = t.refunded
    BY <1>0, <2>1 DEF AfterLnPaid, Trade
  <2>3. StateEvidence'
    BY <2>1, <2>2 DEF CanLnPaid, Keep, IInv, StateEvidence, State, Open, Final
  <2>4. EvidenceChain'
    <3>1. u.ln_paid.hash = u.escrow.hash /\ u.escrow # None
      BY <2>1, <2>2 DEF CanLnPaid, Keep
    <3>2. u.claimed = None /\ u.refunded = None
      BY <2>1, <2>2 DEF CanLnPaid, IInv, StateEvidence
    <3>3. QED
      BY <2>2, <3>1, <3>2 DEF IInv, EvidenceChain
  <2>5. QED
    BY <2>3, <2>4
<1>6. CASE CLAIMED
  <2>1. PICK e \in SettledEnvelope : CanClaimed(t, e) /\ u = AfterClaimed(t, e)
    BY <1>6 DEF CLAIMED
  <2>2. /\ u.claimed = Keep(t.claimed, e.body)
        /\ u.state = "claimed"
        /\ u.terms = t.terms /\ u.accepted_at = t.accepted_at
        /\ u.invoice = t.invoice /\ u.escrow = t.escrow
        /\ u.ln_paid = t.ln_paid /\ u.refunded = t.refunded
    BY <1>0, <2>1 DEF AfterClaimed, Trade
  <2>3. StateEvidence'
    BY <2>1, <2>2 DEF CanClaimed, Keep, IInv, StateEvidence, State, Open, Final
  <2>4. EvidenceChain'
    BY <2>1, <2>2 DEF CanClaimed, Keep, IInv, StateEvidence, EvidenceChain, Open
  <2>5. QED
    BY <2>3, <2>4
<1>7. CASE REFUNDED
  <2>1. PICK e \in SettledEnvelope : CanRefunded(t, e) /\ u = AfterRefunded(t, e)
    BY <1>7 DEF REFUNDED
  <2>2. /\ u.refunded = Keep(t.refunded, e.body)
        /\ u.state = "refunded"
        /\ u.terms = t.terms /\ u.accepted_at = t.accepted_at
        /\ u.invoice = t.invoice /\ u.escrow = t.escrow
        /\ u.ln_paid = t.ln_paid /\ u.claimed = t.claimed
    BY <1>0, <2>1 DEF AfterRefunded, Trade
  <2>3. StateEvidence'
    BY <2>1, <2>2 DEF CanRefunded, Keep, IInv, StateEvidence, State, Open, Final
  <2>4. EvidenceChain'
    BY <2>1, <2>2 DEF CanRefunded, Keep, IInv, StateEvidence, EvidenceChain, Open
  <2>5. QED
    BY <2>3, <2>4
<1>8. CASE CANCEL
  <2>1. /\ u.state = "canceled"
        /\ u.terms = t.terms /\ u.accepted_at = t.accepted_at
        /\ u.invoice = t.invoice /\ u.escrow = t.escrow
        /\ u.ln_paid = t.ln_paid /\ u.claimed = t.claimed
        /\ u.refunded = t.refunded
    BY <1>0, <1>8 DEF CANCEL, AfterCancel, Trade
  <2>2. QED
    BY <1>0, <1>8, <2>1
    DEF CANCEL, CanCancel, IInv, StateEvidence, EvidenceChain, Trade, State, Open, Final
<1>9. CASE UNCHANGED trade
  BY <1>9 DEF IInv, StateEvidence, EvidenceChain
<1>10. QED
  BY <1>1, <1>2, <1>3, <1>4, <1>5, <1>6, <1>7, <1>8, <1>9 DEF Next

-----------------------------------------------------------------------------
LEMMA Inductive == Spec => []IInv
<1>1. IInv /\ [Next]_trade => IInv'
  BY TypeStep, EvidenceStep DEF IInv
<1>2. QED
  BY InitInv, <1>1, PTL DEF Spec

\* The record always holds values of the declared kinds: stateMachine.js
\* never stores a partial or foreign value in a trade.
THEOREM TypeCorrect == Spec => []TypeOK
BY Inductive, PTL DEF IInv

\* Replacing terms before ACCEPT never discards settlement evidence.
THEOREM NoEarlyEvidence == Spec => []NoEvidenceBeforeAccept
<1>1. IInv => NoEvidenceBeforeAccept
  BY DEF IInv, StateEvidence, NoEvidenceBeforeAccept
<1>2. QED
  BY Inductive, <1>1, PTL

\* Invoice, escrow, payment and settlement evidence always fit together and
\* fit the accepted terms, although each came in a message of its own.
THEOREM EvidenceFits == Spec => []EvidenceChain
BY Inductive, PTL DEF IInv

\* No trade is recorded both refunded and claimed, or both refunded and paid.
THEOREM OneWay == Spec => []SettledOneWay
<1>1. IInv => SettledOneWay
  BY DEF IInv, StateEvidence, SettledOneWay
<1>2. QED
  BY Inductive, <1>1, PTL

\* A canceled trade never had an escrow.
THEOREM CanceledNeverFunded == Spec => []CanceledUnfunded
<1>1. IInv => CanceledUnfunded
  BY DEF IInv, StateEvidence, CanceledUnfunded
<1>2. QED
  BY Inductive, <1>1, PTL

\* Whoever first authored terms remains their author.
THEOREM AuthorNeverChanges == Spec => AuthorLocked
<1>1. IInv /\ [Next]_trade => AuthorLockedStep
  <2> SUFFICES ASSUME IInv, [Next]_trade PROVE AuthorLockedStep
    OBVIOUS
  <2>1. CASE TERMS
    <3>1. PICK e \in TermsEnvelope :
             CanTerms(trade, e) /\ trade' = AfterTerms(trade, e)
      BY <2>1 DEF TERMS
    <3>2. e.body # None
      BY OfferAssumption, NoneAssumption DEF TermsEnvelope, Signed
    <3>3. QED
      BY <3>1, <3>2 DEF CanTerms, AfterTerms, AuthorLockedStep
  <2>2. CASE ~TERMS
    <3>1. trade'.terms = trade.terms
      BY <2>2 DEF Next, ACCEPT, LN_INVOICE, ESCROW_CREATED, LN_PAID, CLAIMED,
           REFUNDED, CANCEL, AfterAccept, AfterInvoice, AfterEscrow,
           AfterLnPaid, AfterClaimed, AfterRefunded, AfterCancel,
           IInv, TypeOK, Trade
    <3>2. QED
      BY <3>1 DEF AuthorLockedStep
  <2>3. QED
    BY <2>1, <2>2
<1>2. QED
  BY Inductive, <1>1, PTL DEF Spec, AuthorLocked

\* The terms both sides accepted, and all evidence, are frozen for good.
THEOREM Frozen == Spec => AcceptedFrozen
<1>1. IInv /\ [Next]_trade => AcceptedFrozenStep
  <2> SUFFICES ASSUME IInv, [Next]_trade, trade.accepted_at # None
               PROVE  AcceptedFrozenStep
    BY DEF AcceptedFrozenStep
  <2> DEFINE t == trade
             u == trade'
  <2>0. t \in Trade /\ t.state \notin Open
    BY DEF IInv, TypeOK, StateEvidence
  <2> SUFFICES
        /\ u.accepted_at = t.accepted_at
        /\ u.terms = t.terms /\ u.terms_hash = t.terms_hash
        /\ t.invoice # None => u.invoice = t.invoice
        /\ t.escrow # None => u.escrow = t.escrow
        /\ t.ln_paid # None => u.ln_paid = t.ln_paid
        /\ t.claimed # None => u.claimed = t.claimed
        /\ t.refunded # None => u.refunded = t.refunded
    BY DEF AcceptedFrozenStep
  <2>1. CASE TERMS
    BY <2>0, <2>1 DEF TERMS, AfterTerms
  <2>2. CASE ACCEPT
    BY <2>0, <2>2 DEF ACCEPT, AfterAccept, Open
  <2>3. CASE LN_INVOICE
    BY <2>0, <2>3 DEF LN_INVOICE, AfterInvoice, Keep, Trade
  <2>4. CASE ESCROW_CREATED
    BY <2>0, <2>4 DEF ESCROW_CREATED, AfterEscrow, Keep, Trade
  <2>5. CASE LN_PAID
    BY <2>0, <2>5 DEF LN_PAID, AfterLnPaid, Keep, Trade
  <2>6. CASE CLAIMED
    BY <2>0, <2>6 DEF CLAIMED, AfterClaimed, Keep, Trade
  <2>7. CASE REFUNDED
    BY <2>0, <2>7 DEF REFUNDED, AfterRefunded, Keep, Trade
  <2>8. CASE CANCEL
    BY <2>0, <2>8 DEF CANCEL, AfterCancel, Trade
  <2>9. CASE UNCHANGED trade
    BY <2>9
  <2>10. QED
    BY <2>1, <2>2, <2>3, <2>4, <2>5, <2>6, <2>7, <2>8, <2>9 DEF Next
<1>2. QED
  BY Inductive, <1>1, PTL DEF Spec, AcceptedFrozen

\* A trade only advances, and a settled or canceled trade never moves again.
THEOREM OnlyForward == Spec => Forward
<1>1. IInv /\ [Next]_trade => ForwardStep
  <2> SUFFICES ASSUME IInv, [Next]_trade PROVE ForwardStep
    OBVIOUS
  <2> USE DEF ForwardStep, Rank, State, Open, Final
  <2>0. trade \in Trade
    BY DEF IInv, TypeOK
  <2>1. CASE TERMS
    BY <2>0, <2>1 DEF TERMS, AfterTerms, Trade
  <2>2. CASE ACCEPT
    BY <2>0, <2>2 DEF ACCEPT, AfterAccept, Trade
  <2>3. CASE LN_INVOICE
    BY <2>0, <2>3 DEF LN_INVOICE, CanInvoice, AfterInvoice, Trade
  <2>4. CASE ESCROW_CREATED
    BY <2>0, <2>4 DEF ESCROW_CREATED, CanEscrow, AfterEscrow, Trade
  <2>5. CASE LN_PAID
    BY <2>0, <2>5 DEF LN_PAID, CanLnPaid, AfterLnPaid, Trade
  <2>6. CASE CLAIMED
    BY <2>0, <2>6 DEF CLAIMED, CanClaimed, AfterClaimed, Trade
  <2>7. CASE REFUNDED
    BY <2>0, <2>7 DEF REFUNDED, CanRefunded, AfterRefunded, Trade
  <2>8. CASE CANCEL
    BY <2>0, <2>8 DEF CANCEL, CanCancel, AfterCancel, Trade
  <2>9. CASE UNCHANGED trade
    BY <2>0, <2>9 DEF Trade
  <2>10. QED
    BY <2>1, <2>2, <2>3, <2>4, <2>5, <2>6, <2>7, <2>8, <2>9 DEF Next
<1>2. QED
  BY Inductive, <1>1, PTL DEF Spec, Forward

-----------------------------------------------------------------------------
(* The row of a trade in the receipts database (Receipts).                 *)

Field == {"hash", "preimage"} \cup SolField \cup TaoField
Ends == {"claimed", "refunded"}
RowState ==
    {"init", "terms", "accepted", "invoice", "locking", "escrow", "ln_paid", "canceled"} \cup Ends
Row == [kind : {"solana", "tao-evm", Null}, state : RowState \cup {Null}, has : SUBSET Field]
Job == [tool : Claimers \cup Refunders, landed : BOOLEAN]
Recon == [row : Row, seen : {"nothing", "missing", "active"} \cup Ends]

Types ==
    /\ side \in [kind : {"solana", "tao-evm"}, role : {"maker", "taker"},
                 via : {"bot", "daemon"}]
    /\ row \in Row
    /\ told \in SUBSET (Ends \cup {"ids"})
    /\ stage \in {"idle", "init", "terms", "accepted", "invoice", "escrow", "ln_paid",
                  "claimed", "refunded", "canceled", "lost"}
    /\ pc \in {"none", "invoicing", "invoiced", "ready", "calling", "announced", "failed",
               "claimed", "sent", "done"}
    /\ lockTx \in BOOLEAN /\ inSwaps \in BOOLEAN /\ heard \in BOOLEAN
    /\ up \in BOOLEAN /\ wiped \in BOOLEAN /\ due \in BOOLEAN
    /\ chain \in {"none", "sent", "locked"} \cup Ends
    /\ job \in Job \cup {Null}
    /\ recon \in Recon \cup {Null}

\* A row has fields of its own settlement kind only, so a bot's patch always
\* fits.  Only a daemon's row can be of the wrong kind, with no field of either,
\* and only a daemon's can lose its id or its hash to an envelope.
Fields ==
    /\ Tao => row.has \cap SolField = {}
    /\ ~Tao => row.has \cap TaoField = {}
    /\ row.has \cap SolField # {} => row.kind = "solana"
    /\ row.has \cap TaoField # {} \/ "ids" \in told => row.kind = "tao-evm"
    /\ side.via = "bot" => row.kind \in {Null, side.kind} /\ told = {}
    /\ side.via = "daemon" /\ IdField \in row.has => "hash" \in row.has \/ "ids" \in told

\* What a writer takes for an end of the lock is the one it has: the tool that
\* has landed, what swapreconcile has read.  A bot that has heard of an end no
\* longer files its state.
Ended ==
    /\ inSwaps => /\ side.via = "bot" /\ side.role = "maker"
                  /\ stage \notin {"idle", "lost"} \cup Ends
    /\ job # Null /\ job.landed => chain = End(job.tool)
    /\ recon # Null =>
          /\ row.kind = "tao-evm"
          /\ "tao_settlement_id" \in recon.row.has => Tao
          /\ recon.seen \in Ends => Tao /\ chain = recon.seen

\* A taker files what identifies the lock, or its payment, once there is a
\* lock; so swapreconcile misses the lock of a taker only when it has ended.
\* An untrue envelope may have brought the id before.
OfTaker ==
    side.role = "taker" =>
    /\ chain # "sent"
    /\ pc \in {"none", "claimed", "sent", "done"}
    /\ pc # "none" => side.via = "bot" /\ chain = "claimed" /\ stage = "ln_paid"
    /\ "preimage" \in row.has => chain # "none"
    /\ IdField \in row.has => chain # "none" \/ told # {}
    /\ recon # Null =>
          /\ (chain # "none" /\ "tao_settlement_id" \in recon.row.has) \/ told # {}
          /\ recon.seen = "missing" => chain \in Ends \/ told # {}
    /\ "preimage" \in row.has =>
          ("hash" \in row.has \/ "ids" \in told) /\ stage \in {"ln_paid", "lost"}
    /\ "sol_terms" \in row.has => "sol_mint" \in row.has
    /\ side.via = "bot" /\ stage \in {"escrow", "ln_paid"} => IdField \in row.has
    /\ side.via = "bot" => stage # "lost"
    /\ heard => side.via = "daemon" /\ stage \in {"accepted", "ln_paid"}

\* A maker sends its lock only when the row has what a refund will need.
OfMaker ==
    side.role = "maker" =>
    /\ stage # "refunded"
    /\ chain # "none" \/ pc \in {"invoiced", "ready", "calling"} =>
          "hash" \in row.has \/ "ids" \in told
    /\ side.via = "daemon" =>
          /\ heard => IdField \in row.has \/ "ids" \in told
          /\ "sol_terms" \in row.has => "sol_mint" \in row.has
    /\ side.via = "bot" =>
          /\ chain # "none" \/ pc \in {"ready", "calling"} => (Tao => IdField \in row.has)
          /\ chain # "none" => pc # "none"
          /\ pc # "none" => stage # "idle"
          /\ stage \in {"escrow", "ln_paid", "claimed"} => pc = "announced"
          /\ ~Tao /\ stage # "idle" /\ ~wiped => "sol_mint" \in row.has
          /\ ~Tao /\ (stage = "terms" \/ pc # "none") => "sol_terms" \in row.has

RowInv == Types /\ Fields /\ Ended /\ OfTaker /\ OfMaker /\ Listed

-----------------------------------------------------------------------------
(* Each action keeps it: the row that is filed first, then one part after  *)
(* the other.                                                              *)

LEMMA HearsRfqStep ==
    ASSUME RowInv, NEW mint \in BOOLEAN, HearsRfq(mint)
    PROVE  RowInv'
<1> USE NullAssumption DEF RowInv
<1>1. row' \in Row
  BY DEF HearsRfq, Bot, Merged, Own, Tao, operator, Kind, Patch, Types, Row, Job, Recon, Ends,
     RowState, Field, Claimers, Refunders, SolField, TaoField
<1>2. Types'
  BY <1>1 DEF HearsRfq, Bot, Tao, operator, Types, Job, Recon
<1>3. Fields'
  BY DEF HearsRfq, Bot, Merged, Own, Tao, operator, Kind, Patch, Fields, SolField, TaoField,
     Types, Row, RowState, Field, Ends
<1>4. Ended'
  BY DEF HearsRfq, Bot, Merged, Own, Tao, operator, Kind, Patch, Ended, End, IdField, Ends,
     Claimers, Fields
<1>5. OfTaker'
  BY DEF HearsRfq, Bot, Merged, Own, Tao, operator, Kind, Patch, OfTaker, IdField, Ends
<1>6. OfMaker'
  BY DEF HearsRfq, Bot, Merged, Own, Tao, operator, Kind, Patch, OfMaker, IdField, Types, Row,
     RowState, Field, Ends
<1>7. Listed'
  BY DEF HearsRfq, Bot, Merged, Own, Tao, operator, Kind, Patch, Listed
<1> QED BY <1>1, <1>2, <1>3, <1>4, <1>5, <1>6, <1>7

LEMMA StartsSwapStep ==
    ASSUME RowInv, StartsSwap
    PROVE  RowInv'
<1> USE NullAssumption DEF RowInv
<1>1. row' \in Row
  BY DEF StartsSwap, Bot, File, Own, TermsFields, operator, Fits, Merged, Patch, Tao, Kind,
     SolField, TaoField, Types, Row, Job, Recon, Ends, RowState, Field, Claimers, Refunders
<1>2. Types'
  BY <1>1 DEF StartsSwap, Bot, operator, Tao, Types, Job, Recon
<1>3. Fields'
  BY DEF StartsSwap, Bot, File, Own, TermsFields, operator, Fits, Merged, Patch, Tao, Kind,
     SolField, TaoField, Fields, Types, Row, RowState, Field, Ends
<1>4. Ended'
  BY DEF StartsSwap, Bot, File, Own, TermsFields, operator, Fits, Merged, Patch, Tao, Kind,
     SolField, TaoField, Ended, End, IdField, Ends, Claimers
<1>5. OfTaker'
  BY DEF StartsSwap, Bot, File, Own, TermsFields, operator, Fits, Merged, Patch, Tao, Kind,
     SolField, TaoField, OfTaker, IdField, Ends
<1>6. OfMaker'
  BY DEF StartsSwap, Bot, File, Own, TermsFields, operator, Fits, Merged, Patch, Tao, Kind,
     SolField, TaoField, OfMaker, IdField, Fields
<1>7. Listed'
  BY DEF StartsSwap, Bot, File, Own, TermsFields, operator, Fits, Merged, Patch, Tao, Kind,
     SolField, TaoField, Listed
<1> QED BY <1>1, <1>2, <1>3, <1>4, <1>5, <1>6, <1>7

LEMMA SendsTermsStep ==
    ASSUME RowInv, SendsTerms
    PROVE  RowInv'
<1> USE NullAssumption DEF RowInv
<1>1. row' \in Row
  BY DEF SendsTerms, Bot, File, Own, TermsFields, operator, Fits, Merged, Patch, Tao, Kind,
     SolField, TaoField, Types, Row, Job, Recon, Ends, RowState, Field, Claimers, Refunders
<1>2. Types'
  BY <1>1 DEF SendsTerms, Bot, operator, Tao, Types, Job, Recon
<1>3. Fields'
  BY DEF SendsTerms, Bot, File, Own, TermsFields, operator, Fits, Merged, Patch, Tao, Kind,
     SolField, TaoField, Fields, Types, Row, RowState, Field, Ends
<1>4. Ended'
  BY DEF SendsTerms, Bot, File, Own, TermsFields, operator, Fits, Merged, Patch, Tao, Kind,
     SolField, TaoField, Ended, End, IdField, Ends, Claimers
<1>5. OfTaker'
  BY DEF SendsTerms, Bot, File, Own, TermsFields, operator, Fits, Merged, Patch, Tao, Kind,
     SolField, TaoField, OfTaker, IdField, Ends
<1>6. OfMaker'
  BY DEF SendsTerms, Bot, File, Own, TermsFields, operator, Fits, Merged, Patch, Tao, Kind,
     SolField, TaoField, OfMaker, IdField, Fields
<1>7. Listed'
  BY DEF SendsTerms, Bot, File, Own, TermsFields, operator, Fits, Merged, Patch, Tao, Kind,
     SolField, TaoField, Listed
<1> QED BY <1>1, <1>2, <1>3, <1>4, <1>5, <1>6, <1>7

LEMMA HearsAcceptStep ==
    ASSUME RowInv, HearsAccept
    PROVE  RowInv'
<1> USE NullAssumption DEF RowInv
<1>1. Types'
  BY DEF HearsAccept, Bot, operator, Types, Ends, Job, Recon
<1>2. Ended'
  BY DEF HearsAccept, Bot, operator, Ended, End, Tao, IdField, Ends, Claimers
<1>3. OfTaker'
  BY DEF HearsAccept, Bot, operator, OfTaker, IdField, Ends, Tao
<1>4. OfMaker'
  BY DEF HearsAccept, Bot, operator, OfMaker, IdField, Tao
<1> QED BY <1>1, <1>2, <1>3, <1>4 DEF HearsAccept, Bot, operator, Fields, Tao, SolField,
       TaoField, Listed

LEMMA InvoicesStep ==
    ASSUME RowInv, Invoices
    PROVE  RowInv'
<1> USE NullAssumption DEF RowInv
<1>1. row' \in Row
  BY DEF Invoices, Bot, File, Own, operator, Fits, Merged, Patch, Kind, SolField, TaoField,
     Types, Row, Job, Recon, Ends, RowState, Field, Claimers, Refunders
<1>2. Types'
  BY <1>1 DEF Invoices, Bot, operator, Types, Job, Recon
<1>3. Fields'
  BY DEF Invoices, Bot, File, Own, operator, Fits, Merged, Patch, Kind, SolField, TaoField,
     Fields, Tao, Types, Row, RowState, Field, Ends
<1>4. Ended'
  BY DEF Invoices, Bot, File, Own, operator, Fits, Merged, Patch, Kind, SolField, TaoField,
     Ended, End, Tao, IdField, Ends, Claimers
<1>5. OfTaker'
  BY DEF Invoices, Bot, File, Own, operator, Fits, Merged, Patch, Kind, SolField, TaoField,
     OfTaker, IdField, Ends, Tao
<1>6. OfMaker'
  BY DEF Invoices, Bot, File, Own, operator, Fits, Merged, Patch, Kind, SolField, TaoField,
     OfMaker, IdField, Tao, Fields
<1>7. Listed'
  BY DEF Invoices, Bot, File, Own, operator, Fits, Merged, Patch, Kind, SolField, TaoField,
     Listed
<1> QED BY <1>1, <1>2, <1>3, <1>4, <1>5, <1>6, <1>7

LEMMA CheckpointsStep ==
    ASSUME RowInv, Checkpoints
    PROVE  RowInv'
<1> USE NullAssumption DEF RowInv
<1>1. row' \in Row
  BY DEF Checkpoints, Bot, Tao, File, Own, IdField, operator, Fits, Merged, Patch, Kind,
     SolField, TaoField, Types, Row, Job, Recon, Ends, RowState, Field, Claimers, Refunders
<1>2. Types'
  BY <1>1 DEF Checkpoints, Bot, Tao, operator, Types, Job, Recon
<1>3. Fields'
  BY DEF Checkpoints, Bot, Tao, File, Own, IdField, operator, Fits, Merged, Patch, Kind,
     SolField, TaoField, Fields
<1>4. Ended'
  BY DEF Checkpoints, Bot, Tao, File, Own, IdField, operator, Fits, Merged, Patch, Kind,
     SolField, TaoField, Ended, End, Ends, Claimers
<1>5. OfTaker'
  BY DEF Checkpoints, Bot, Tao, File, Own, IdField, operator, Fits, Merged, Patch, Kind,
     SolField, TaoField, OfTaker, Ends
<1>6. OfMaker'
  BY DEF Checkpoints, Bot, Tao, File, Own, IdField, operator, Fits, Merged, Patch, Kind,
     SolField, TaoField, OfMaker, Fields
<1>7. Listed'
  BY DEF Checkpoints, Bot, Tao, File, Own, IdField, operator, Fits, Merged, Patch, Kind,
     SolField, TaoField, Listed
<1> QED BY <1>1, <1>2, <1>3, <1>4, <1>5, <1>6, <1>7

LEMMA OnBroadcastStep ==
    ASSUME RowInv, OnBroadcast
    PROVE  RowInv'
<1> USE NullAssumption DEF RowInv
<1>1. row' \in Row
  BY DEF OnBroadcast, Bot, Tao, File, Own, LockFields, operator, Fits, Merged, Patch,
     TermsFields, IdField, Kind, SolField, TaoField, Types, Row, Job, Recon, Ends, RowState,
     Field, Claimers, Refunders
<1>2. Types'
  BY <1>1 DEF OnBroadcast, Bot, Tao, operator, Types, Job, Recon
<1>3. Fields'
  BY DEF OnBroadcast, Bot, Tao, File, Own, LockFields, operator, Fits, Merged, Patch,
     TermsFields, IdField, Kind, SolField, TaoField, Fields
<1>4. Ended'
  BY DEF OnBroadcast, Bot, Tao, File, Own, LockFields, operator, Fits, Merged, Patch,
     TermsFields, IdField, Kind, SolField, TaoField, Ended, End, Ends, Claimers
<1>5. OfTaker'
  BY DEF OnBroadcast, Bot, Tao, File, Own, LockFields, operator, Fits, Merged, Patch,
     TermsFields, IdField, Kind, SolField, TaoField, OfTaker, Ends
<1>6. OfMaker'
  BY DEF OnBroadcast, Bot, Tao, File, Own, LockFields, operator, Fits, Merged, Patch,
     TermsFields, IdField, Kind, SolField, TaoField, OfMaker
<1>7. Listed'
  BY DEF OnBroadcast, Bot, Tao, File, Own, LockFields, operator, Fits, Merged, Patch,
     TermsFields, IdField, Kind, SolField, TaoField, Listed
<1> QED BY <1>1, <1>2, <1>3, <1>4, <1>5, <1>6, <1>7

LEMMA LockReturnsStep ==
    ASSUME RowInv, LockReturns
    PROVE  RowInv'
<1> USE NullAssumption DEF RowInv
<1>1. row' \in Row
  BY DEF LockReturns, Bot, Tao, File, Own, LockFields, operator, Fits, Merged, Patch,
     TermsFields, IdField, Kind, SolField, TaoField, Types, Row, Job, Recon, Ends, RowState,
     Field, Claimers, Refunders
<1>2. Types'
  BY <1>1 DEF LockReturns, Bot, Tao, operator, Types, Job, Recon
<1>3. Fields'
  BY DEF LockReturns, Bot, Tao, File, Own, LockFields, operator, Fits, Merged, Patch,
     TermsFields, IdField, Kind, SolField, TaoField, Fields, Types, Row, RowState, Field, Ends
<1>4. Ended'
  BY DEF LockReturns, Bot, Tao, File, Own, LockFields, operator, Fits, Merged, Patch,
     TermsFields, IdField, Kind, SolField, TaoField, Ended, End, Ends, Claimers
<1>5. OfTaker'
  BY DEF LockReturns, Bot, Tao, File, Own, LockFields, operator, Fits, Merged, Patch,
     TermsFields, IdField, Kind, SolField, TaoField, OfTaker, Ends
<1>6. OfMaker'
  BY DEF LockReturns, Bot, Tao, File, Own, LockFields, operator, Fits, Merged, Patch,
     TermsFields, IdField, Kind, SolField, TaoField, OfMaker
<1>7. Listed'
  BY DEF LockReturns, Bot, Tao, File, Own, LockFields, operator, Fits, Merged, Patch,
     TermsFields, IdField, Kind, SolField, TaoField, Listed
<1> QED BY <1>1, <1>2, <1>3, <1>4, <1>5, <1>6, <1>7

LEMMA LockThrowsStep ==
    ASSUME RowInv, LockThrows
    PROVE  RowInv'
<1> USE NullAssumption DEF RowInv
<1>1. row' \in Row
  BY DEF LockThrows, Bot, Fault, Tao, File, Own, CleanupState, IdField, operator, Fits, Merged,
     Patch, Kind, SolField, TaoField, Types, Row, Job, Recon, Ends, RowState, Field, Claimers,
     Refunders
<1>2. Types'
  BY <1>1 DEF LockThrows, Bot, Fault, Tao, operator, Types, Job, Recon
<1>3. Fields'
  BY DEF LockThrows, Bot, Fault, Tao, File, Own, CleanupState, IdField, operator, Fits, Merged,
     Patch, Kind, SolField, TaoField, Fields
<1>4. Ended'
  BY DEF LockThrows, Bot, Fault, Tao, File, Own, CleanupState, IdField, operator, Fits, Merged,
     Patch, Kind, SolField, TaoField, Ended, End, Ends, Claimers
<1>5. OfTaker'
  BY DEF LockThrows, Bot, Fault, Tao, File, Own, CleanupState, IdField, operator, Fits, Merged,
     Patch, Kind, SolField, TaoField, OfTaker, Ends
<1>6. OfMaker'
  BY DEF LockThrows, Bot, Fault, Tao, File, Own, CleanupState, IdField, operator, Fits, Merged,
     Patch, Kind, SolField, TaoField, OfMaker
<1>7. Listed'
  BY DEF LockThrows, Bot, Fault, Tao, File, Own, CleanupState, IdField, operator, Fits, Merged,
     Patch, Kind, SolField, TaoField, Listed
<1> QED BY <1>1, <1>2, <1>3, <1>4, <1>5, <1>6, <1>7

LEMMA HearsPaidStep ==
    ASSUME RowInv, HearsPaid
    PROVE  RowInv'
<1> USE NullAssumption DEF RowInv
<1>1. Types'
  BY DEF HearsPaid, Bot, operator, Types, Ends, Job, Recon
<1>2. Ended'
  BY DEF HearsPaid, Bot, operator, Ended, End, Tao, IdField, Ends, Claimers
<1>3. OfTaker'
  BY DEF HearsPaid, Bot, operator, OfTaker, IdField, Ends, Tao
<1>4. OfMaker'
  BY DEF HearsPaid, Bot, operator, OfMaker, IdField, Tao
<1> QED BY <1>1, <1>2, <1>3, <1>4 DEF HearsPaid, Bot, operator, Fields, Tao, SolField,
       TaoField, Listed

LEMMA HearsEndStep ==
    ASSUME RowInv, NEW end \in {"claimed", "canceled"}, HearsEnd(end)
    PROVE  RowInv'
<1> USE NullAssumption DEF RowInv
<1>1. row' \in Row
  BY DEF HearsEnd, Bot, File, Own, Tao, EndFields, operator, Fits, Merged, Patch, IdField,
     Kind, SolField, TaoField, Types, Row, Job, Recon, Ends, RowState, Field, Claimers,
     Refunders, TaoEndFields
<1>2. inSwaps' \in BOOLEAN
  BY Zenon DEF HearsEnd
<1>3. Types'
  BY <1>1, <1>2 DEF HearsEnd, Bot, Tao, operator, Types, Job, Recon
<1>4. Fields'
  BY DEF HearsEnd, Bot, File, Own, Tao, EndFields, operator, Fits, Merged, Patch, IdField,
     Kind, SolField, TaoField, Fields, Types, Row, RowState, Field, Ends
<1>5. Ended'
  BY DEF HearsEnd, Bot, File, Own, Tao, EndFields, operator, Fits, Merged, Patch, IdField,
     Kind, SolField, TaoField, Ended, End, Ends, Claimers
<1>6. OfTaker'
  BY DEF HearsEnd, Bot, File, Own, Tao, EndFields, operator, Fits, Merged, Patch, IdField,
     Kind, SolField, TaoField, OfTaker, Ends
<1>7. OfMaker'
  BY DEF HearsEnd, Bot, File, Own, Tao, EndFields, operator, Fits, Merged, Patch, IdField,
     Kind, SolField, TaoField, OfMaker
<1>8. Listed'
  BY DEF HearsEnd, Bot, File, Own, Tao, EndFields, operator, Fits, Merged, Patch, IdField,
     Kind, SolField, TaoField, Listed
<1> QED BY <1>1, <1>2, <1>3, <1>4, <1>5, <1>6, <1>7, <1>8

LEMMA TimesOutStep ==
    ASSUME RowInv, TimesOut
    PROVE  RowInv'
<1> USE NullAssumption DEF RowInv
<1>1. row' \in Row
  BY DEF TimesOut, Bot, File, Own, CleanupState, operator, Fits, Merged, Patch, Tao, Kind,
     SolField, TaoField, Types, Row, Job, Recon, Ends, RowState, Field, Claimers, Refunders,
     Ended, End, IdField
<1>2. inSwaps' \in BOOLEAN
  BY Zenon DEF TimesOut
<1>3. Types'
  BY <1>1, <1>2 DEF TimesOut, Bot, operator, Tao, Types, Job, Recon
<1>4. Fields'
  BY DEF TimesOut, Bot, File, Own, CleanupState, operator, Fits, Merged, Patch, Tao, Kind,
     SolField, TaoField, Fields, Types, Row, RowState, Field, Ends
<1>5. Ended'
  BY DEF TimesOut, Bot, File, Own, CleanupState, operator, Fits, Merged, Patch, Tao, Kind,
     SolField, TaoField, Ended, End, IdField, Ends, Claimers
<1>6. OfTaker'
  BY DEF TimesOut, Bot, File, Own, CleanupState, operator, Fits, Merged, Patch, Tao, Kind,
     SolField, TaoField, OfTaker, IdField, Ends
<1>7. OfMaker'
  BY DEF TimesOut, Bot, File, Own, CleanupState, operator, Fits, Merged, Patch, Tao, Kind,
     SolField, TaoField, OfMaker, IdField
<1>8. Listed'
  BY DEF TimesOut, Bot, File, Own, CleanupState, operator, Fits, Merged, Patch, Tao, Kind,
     SolField, TaoField, Listed
<1> QED BY <1>1, <1>2, <1>3, <1>4, <1>5, <1>6, <1>7, <1>8

LEMMA ShutdownStep ==
    ASSUME RowInv, Shutdown
    PROVE  RowInv'
<1> USE NullAssumption DEF RowInv
<1>1. row' \in Row
  BY DEF Shutdown, Bot, File, Own, operator, Fits, Merged, Patch, Kind, SolField, TaoField,
     Types, Row, Job, Recon, Ends, RowState, Field, Claimers, Refunders, Ended, End, Tao,
     IdField
<1>2. up' \in BOOLEAN
  BY Zenon DEF Shutdown
<1>3. Types'
  BY <1>1, <1>2 DEF Shutdown, Bot, operator, Types, Job, Recon
<1>4. Fields'
  BY DEF Shutdown, Bot, File, Own, operator, Fits, Merged, Patch, Kind, SolField, TaoField,
     Fields, Tao, Types, Row, RowState, Field, Ends
<1>5. Ended'
  BY DEF Shutdown, Bot, File, Own, operator, Fits, Merged, Patch, Kind, SolField, TaoField,
     Ended, End, Tao, IdField, Ends, Claimers
<1>6. OfTaker'
  BY DEF Shutdown, Bot, File, Own, operator, Fits, Merged, Patch, Kind, SolField, TaoField,
     OfTaker, IdField, Ends, Tao
<1>7. OfMaker'
  BY DEF Shutdown, Bot, File, Own, operator, Fits, Merged, Patch, Kind, SolField, TaoField,
     OfMaker, IdField, Tao
<1>8. Listed'
  BY DEF Shutdown, Bot, File, Own, operator, Fits, Merged, Patch, Kind, SolField, TaoField,
     Listed
<1> QED BY <1>1, <1>2, <1>3, <1>4, <1>5, <1>6, <1>7, <1>8

LEMMA SendsLockStep ==
    ASSUME RowInv, SendsLock
    PROVE  RowInv'
<1> USE NullAssumption DEF RowInv
<1>1. Types'
  BY DEF SendsLock, Bot, Daemon, operator, Types, Ends, Job, Recon
<1>2. Ended'
  BY DEF SendsLock, Bot, Daemon, operator, Ended, End, Tao, IdField, Ends, Claimers
<1>3. OfTaker'
  BY DEF SendsLock, Bot, Daemon, operator, OfTaker, IdField, Ends, Tao
<1>4. OfMaker'
  BY DEF SendsLock, Bot, Daemon, operator, OfMaker, IdField, Tao
<1>5. Listed'
  BY DEF SendsLock, Bot, Daemon, operator, Listed
<1> QED BY <1>1, <1>2, <1>3, <1>4, <1>5 DEF SendsLock, Bot, Daemon, operator, Fields, Tao,
       SolField, TaoField, IdField

LEMMA TakerProgressStep ==
    ASSUME RowInv, TakerProgress
    PROVE  RowInv'
<1> USE NullAssumption DEF RowInv
<1>1. row' \in Row
  BY DEF TakerProgress, Bot, Progress, File, Own, operator, Fits, Merged, Patch, Kind,
     SolField, TaoField, Types, Row, Job, Recon, Ends, RowState, Field, Claimers, Refunders
<1>2. Types'
  BY <1>1 DEF TakerProgress, Bot, Progress, operator, Types, Job, Recon
<1>3. Fields'
  BY DEF TakerProgress, Bot, Progress, File, Own, operator, Fits, Merged, Patch, Kind,
     SolField, TaoField, Fields, Tao, Types, Row, RowState, Field, Ends
<1>4. Ended'
  BY DEF TakerProgress, Bot, Progress, File, Own, operator, Fits, Merged, Patch, Kind,
     SolField, TaoField, Ended, End, Tao, IdField, Ends, Claimers
<1>5. OfTaker'
  BY DEF TakerProgress, Bot, Progress, File, Own, operator, Fits, Merged, Patch, Kind,
     SolField, TaoField, OfTaker, IdField, Ends, Tao
<1>6. OfMaker'
  BY DEF TakerProgress, Bot, Progress, File, Own, operator, Fits, Merged, Patch, Kind,
     SolField, TaoField, OfMaker, IdField, Tao
<1>7. Listed'
  BY DEF TakerProgress, Bot, Progress, File, Own, operator, Fits, Merged, Patch, Kind,
     SolField, TaoField, Listed, OfTaker, IdField, Ends, Tao
<1> QED BY <1>1, <1>2, <1>3, <1>4, <1>5, <1>6, <1>7

LEMMA HearsEscrowStep ==
    ASSUME RowInv, HearsEscrow
    PROVE  RowInv'
<1> USE NullAssumption DEF RowInv
<1>1. row' \in Row
  BY DEF HearsEscrow, Bot, File, Own, LockFields, operator, Fits, Merged, Patch, TermsFields,
     IdField, Tao, Kind, SolField, TaoField, Types, Row, Job, Recon, Ends, RowState, Field,
     Claimers, Refunders
<1>2. Types'
  BY <1>1 DEF HearsEscrow, Bot, operator, Tao, Types, Job, Recon
<1>3. Fields'
  BY DEF HearsEscrow, Bot, File, Own, LockFields, operator, Fits, Merged, Patch, TermsFields,
     IdField, Tao, Kind, SolField, TaoField, Fields, Types, Row, RowState, Field, Ends
<1>4. Ended'
  BY DEF HearsEscrow, Bot, File, Own, LockFields, operator, Fits, Merged, Patch, TermsFields,
     IdField, Tao, Kind, SolField, TaoField, Ended, End, Ends, Claimers
<1>5. OfTaker'
  BY DEF HearsEscrow, Bot, File, Own, LockFields, operator, Fits, Merged, Patch, TermsFields,
     IdField, Tao, Kind, SolField, TaoField, OfTaker, Ends, Fields
<1>6. OfMaker'
  BY DEF HearsEscrow, Bot, File, Own, LockFields, operator, Fits, Merged, Patch, TermsFields,
     IdField, Tao, Kind, SolField, TaoField, OfMaker
<1>7. Listed'
  BY DEF HearsEscrow, Bot, File, Own, LockFields, operator, Fits, Merged, Patch, TermsFields,
     IdField, Tao, Kind, SolField, TaoField, Listed, OfTaker, Ends
<1> QED BY <1>1, <1>2, <1>3, <1>4, <1>5, <1>6, <1>7

LEMMA TakerHearsEndStep ==
    ASSUME RowInv, NEW end \in {"canceled", "refunded"}, TakerHearsEnd(end)
    PROVE  RowInv'
<1> USE NullAssumption DEF RowInv
<1>1. Types'
  BY DEF TakerHearsEnd, Bot, operator, Types, Ends, Job, Recon
<1>2. Ended'
  BY DEF TakerHearsEnd, Bot, operator, Ended, End, Ends, Claimers, Tao
<1>3. OfTaker'
  BY DEF TakerHearsEnd, Bot, operator, OfTaker, IdField, Ends, Tao
<1>4. OfMaker'
  BY DEF TakerHearsEnd, Bot, OfMaker
<1> QED BY <1>1, <1>2, <1>3, <1>4 DEF TakerHearsEnd, Bot, operator, Fields, Tao, IdField,
       SolField, TaoField, Listed

LEMMA PaysStep ==
    ASSUME RowInv, Pays
    PROVE  RowInv'
<1> USE NullAssumption DEF RowInv
<1>1. row' \in Row
  BY DEF Pays, Bot, File, Own, operator, Fits, Merged, Patch, Kind, SolField, TaoField, Types,
     Row, Job, Recon, Ends, RowState, Field, Claimers, Refunders
<1>2. Types'
  BY <1>1 DEF Pays, Bot, operator, Types, Job, Recon
<1>3. Fields'
  BY DEF Pays, Bot, File, Own, operator, Fits, Merged, Patch, Kind, SolField, TaoField, Fields,
     Tao, Types, Row, RowState, Field, Ends
<1>4. Ended'
  BY DEF Pays, Bot, File, Own, operator, Fits, Merged, Patch, Kind, SolField, TaoField, Ended,
     End, Tao, IdField, Ends, Claimers
<1>5. OfTaker'
  BY DEF Pays, Bot, File, Own, operator, Fits, Merged, Patch, Kind, SolField, TaoField,
     OfTaker, IdField, Ends, Tao
<1>6. OfMaker'
  BY DEF Pays, Bot, File, Own, operator, Fits, Merged, Patch, Kind, SolField, TaoField,
     OfMaker, IdField, Tao
<1>7. Listed'
  BY DEF Pays, Bot, File, Own, operator, Fits, Merged, Patch, Kind, SolField, TaoField, Listed
<1> QED BY <1>1, <1>2, <1>3, <1>4, <1>5, <1>6, <1>7

LEMMA ClaimsStep ==
    ASSUME RowInv, Claims
    PROVE  RowInv'
<1> USE NullAssumption DEF RowInv
<1>1. Types'
  BY DEF Claims, Bot, operator, Types, Ends, Job, Recon
<1>2. Ended'
  BY DEF Claims, Bot, operator, Ended, End, Tao, IdField, Ends, Claimers
<1>3. OfTaker'
  BY DEF Claims, Bot, operator, OfTaker, IdField, Ends, Tao
<1>4. OfMaker'
  BY DEF Claims, Bot, operator, OfMaker, IdField, Tao
<1>5. Listed'
  BY DEF Claims, Bot, operator, Listed
<1> QED BY <1>1, <1>2, <1>3, <1>4, <1>5 DEF Claims, Bot, operator, Fields, Tao, SolField,
       TaoField

LEMMA FilesClaimStep ==
    ASSUME RowInv, FilesClaim
    PROVE  RowInv'
<1> USE NullAssumption DEF RowInv
<1>1. row' \in Row
  BY DEF FilesClaim, Bot, File, Own, EndFields, operator, Fits, Merged, Patch, Tao, IdField,
     Kind, SolField, TaoField, Types, Row, Job, Recon, Ends, RowState, Field, Claimers,
     Refunders, OfTaker, TaoEndFields
<1>2. Types'
  BY <1>1 DEF FilesClaim, Bot, operator, Tao, Types, Job, Recon
<1>3. Fields'
  BY DEF FilesClaim, Bot, File, Own, EndFields, operator, Fits, Merged, Patch, Tao, IdField,
     Kind, SolField, TaoField, Fields, Types, Row, RowState, Field, Ends
<1>4. Ended'
  BY DEF FilesClaim, Bot, File, Own, EndFields, operator, Fits, Merged, Patch, Tao, IdField,
     Kind, SolField, TaoField, Ended, End, Ends, Claimers
<1>5. OfTaker'
  BY DEF FilesClaim, Bot, File, Own, EndFields, operator, Fits, Merged, Patch, Tao, IdField,
     Kind, SolField, TaoField, OfTaker, Ends, TaoEndFields, Fields
<1>6. OfMaker'
  BY DEF FilesClaim, Bot, File, Own, EndFields, operator, Fits, Merged, Patch, Tao, IdField,
     Kind, SolField, TaoField, OfMaker
<1>7. Listed'
  BY DEF FilesClaim, Bot, File, Own, EndFields, operator, Fits, Merged, Patch, Tao, IdField,
     Kind, SolField, TaoField, Listed, OfTaker, Ends
<1> QED BY <1>1, <1>2, <1>3, <1>4, <1>5, <1>6, <1>7

LEMMA CrashStep ==
    ASSUME RowInv, Crash
    PROVE  RowInv'
<1> USE NullAssumption DEF RowInv
<1>1. up' \in BOOLEAN
  BY Zenon DEF Crash
<1>2. Types'
  BY <1>1 DEF Crash, Bot, Fault, operator, Types, Ends, Job, Recon
<1> QED BY <1>1, <1>2 DEF Crash, Bot, Fault, operator, Fields, Tao, SolField, TaoField, Ended,
       End, IdField, Ends, Claimers, OfTaker, OfMaker, Listed

LEMMA TermsPostStep ==
    ASSUME RowInv, TermsPost
    PROVE  RowInv'
<1> USE NullAssumption DEF RowInv
<1>1. row' \in Row
  BY DEF TermsPost, Daemon, File, Own, operator, Fits, Merged, Patch, Kind, SolField, TaoField,
     Types, Row, Job, Recon, Ends, RowState, Field, Claimers, Refunders
<1>2. Types'
  BY <1>1 DEF TermsPost, Daemon, operator, Types, Job, Recon
<1>3. Fields'
  BY DEF TermsPost, Daemon, File, Own, operator, Fits, Merged, Patch, Kind, SolField, TaoField,
     Fields, Tao, Types, Row, RowState, Field, Ends, IdField
<1>4. Ended'
  BY DEF TermsPost, Daemon, File, Own, operator, Fits, Merged, Patch, Kind, SolField, TaoField,
     Ended, End, Tao, IdField, Ends, Claimers
<1>5. OfTaker'
  BY DEF TermsPost, Daemon, File, Own, operator, Fits, Merged, Patch, Kind, SolField, TaoField,
     OfTaker, IdField, Ends, Tao
<1>6. OfMaker'
  BY DEF TermsPost, Daemon, File, Own, operator, Fits, Merged, Patch, Kind, SolField, TaoField,
     OfMaker, IdField, Tao
<1>7. Listed'
  BY DEF TermsPost, Daemon, File, Own, operator, Fits, Merged, Patch, Kind, SolField, TaoField,
     Listed
<1> QED BY <1>1, <1>2, <1>3, <1>4, <1>5, <1>6, <1>7

LEMMA InvoicePostStep ==
    ASSUME RowInv, InvoicePost
    PROVE  RowInv'
<1> USE NullAssumption DEF RowInv
<1>1. row' \in Row
  BY DEF InvoicePost, Daemon, File, Patch, operator, Fits, Merged, Kind, SolField, TaoField,
     Types, Row, Job, Recon, Ends, RowState, Field, Claimers, Refunders
<1>2. Types'
  BY <1>1 DEF InvoicePost, Daemon, operator, Types, Job, Recon
<1>3. Fields'
  BY DEF InvoicePost, Daemon, File, Patch, operator, Fits, Merged, Kind, SolField, TaoField,
     Fields, Tao
<1>4. Ended'
  BY DEF InvoicePost, Daemon, File, Patch, operator, Fits, Merged, Kind, SolField, TaoField,
     Ended, End, Tao, IdField, Ends, Claimers
<1>5. OfTaker'
  BY DEF InvoicePost, Daemon, File, Patch, operator, Fits, Merged, Kind, SolField, TaoField,
     OfTaker, IdField, Ends, Tao
<1>6. OfMaker'
  BY DEF InvoicePost, Daemon, File, Patch, operator, Fits, Merged, Kind, SolField, TaoField,
     OfMaker, IdField, Tao
<1>7. Listed'
  BY DEF InvoicePost, Daemon, File, Patch, operator, Fits, Merged, Kind, SolField, TaoField,
     Listed
<1> QED BY <1>1, <1>2, <1>3, <1>4, <1>5, <1>6, <1>7

LEMMA EscrowPostStep ==
    ASSUME RowInv, EscrowPost
    PROVE  RowInv'
<1> USE NullAssumption DEF RowInv
<1>1. row' \in Row
  BY DEF EscrowPost, Daemon, File, Own, LockFields, Fits, operator, Merged, Patch, TermsFields,
     IdField, Tao, Kind, SolField, TaoField, Types, Row, Job, Recon, Ends, RowState, Field,
     Claimers, Refunders
<1>2. heard' \in BOOLEAN
  BY Zenon DEF EscrowPost, Types
<1>3. Types'
  BY <1>1, <1>2 DEF EscrowPost, Daemon, operator, Tao, Types, Job, Recon
<1>4. Fields'
  BY DEF EscrowPost, Daemon, File, Own, LockFields, Fits, operator, Merged, Patch, TermsFields,
     IdField, Tao, Kind, SolField, TaoField, Fields, Types, Row, RowState, Field, Ends
<1>5. Ended'
  BY DEF EscrowPost, Daemon, File, Own, LockFields, Fits, operator, Merged, Patch, TermsFields,
     IdField, Tao, Kind, SolField, TaoField, Ended, End, Ends, Claimers
<1>6. OfTaker'
  BY DEF EscrowPost, Daemon, File, Own, LockFields, Fits, operator, Merged, Patch, TermsFields,
     IdField, Tao, Kind, SolField, TaoField, OfTaker, Ends
<1>7. OfMaker'
  BY DEF EscrowPost, Daemon, File, Own, LockFields, Fits, operator, Merged, Patch, TermsFields,
     IdField, Tao, Kind, SolField, TaoField, OfMaker
<1>8. Listed'
  BY DEF EscrowPost, Daemon, File, Own, LockFields, Fits, operator, Merged, Patch, TermsFields,
     IdField, Tao, Kind, SolField, TaoField, Listed
<1> QED BY <1>1, <1>2, <1>3, <1>4, <1>5, <1>6, <1>7, <1>8

LEMMA EscrowPostThrowsStep ==
    ASSUME RowInv, EscrowPostThrows
    PROVE  RowInv'
<1> USE NullAssumption DEF RowInv
<1>1. Types'
  BY DEF EscrowPostThrows, Daemon, Fault, operator, Types, Ends, Job, Recon
<1>2. OfTaker'
  BY DEF EscrowPostThrows, Daemon, Fault, operator, OfTaker, IdField, Ends, Tao
<1>3. OfMaker'
  BY DEF EscrowPostThrows, Daemon, Fault, operator, OfMaker, IdField, Tao
<1> QED BY <1>1, <1>2, <1>3 DEF EscrowPostThrows, Daemon, Fault, operator, Fields, Tao,
       SolField, TaoField, Ended, End, IdField, Ends, Claimers, Listed

LEMMA TermsAcceptStep ==
    ASSUME RowInv, NEW whole \in BOOLEAN, TermsAccept(whole)
    PROVE  RowInv'
<1> USE NullAssumption DEF RowInv
<1>1. row' \in Row
  BY DEF TermsAccept, Daemon, File, Own, Patch, operator, Fits, Merged, Kind, SolField,
     TaoField, Types, Row, Job, Recon, Ends, RowState, Field, Claimers, Refunders
<1>2. Types'
  BY <1>1 DEF TermsAccept, Daemon, operator, Types, Job, Recon
<1>3. Fields'
  BY DEF TermsAccept, Daemon, File, Own, Patch, operator, Fits, Merged, Kind, SolField,
     TaoField, Fields, Tao, Types, Row, RowState, Field, Ends, IdField
<1>4. Ended'
  BY DEF TermsAccept, Daemon, File, Own, Patch, operator, Fits, Merged, Kind, SolField,
     TaoField, Ended, End, Tao, IdField, Ends, Claimers
<1>5. OfTaker'
  BY DEF TermsAccept, Daemon, File, Own, Patch, operator, Fits, Merged, Kind, SolField,
     TaoField, OfTaker, IdField, Ends, Tao
<1>6. OfMaker'
  BY DEF TermsAccept, Daemon, File, Own, Patch, operator, Fits, Merged, Kind, SolField,
     TaoField, OfMaker, IdField, Tao
<1>7. Listed'
  BY DEF TermsAccept, Daemon, File, Own, Patch, operator, Fits, Merged, Kind, SolField,
     TaoField, Listed, OfTaker, IdField, Ends, Tao
<1> QED BY <1>1, <1>2, <1>3, <1>4, <1>5, <1>6, <1>7

LEMMA LogsEscrowStep ==
    ASSUME RowInv, LogsEscrow
    PROVE  RowInv'
<1> USE NullAssumption DEF RowInv
<1>1. Types'
  BY DEF LogsEscrow, Daemon, operator, Types, Ends, Job, Recon
<1>2. OfTaker'
  BY DEF LogsEscrow, Daemon, operator, OfTaker, IdField, Ends, Tao
<1>3. OfMaker'
  BY DEF LogsEscrow, Daemon, operator, OfMaker, IdField, Tao
<1> QED BY <1>1, <1>2, <1>3 DEF LogsEscrow, Daemon, operator, Fields, Tao, SolField, TaoField,
       Ended, End, IdField, Ends, Claimers, Listed

LEMMA LnPayStep ==
    ASSUME RowInv, LnPay
    PROVE  RowInv'
<1> USE NullAssumption DEF RowInv
<1>1. row' \in Row
  BY DEF LnPay, Daemon, File, Patch, operator, Fits, Merged, Kind, SolField, TaoField, Types,
     Row, Job, Recon, Ends, RowState, Field, Claimers, Refunders
<1>2. Types'
  BY <1>1 DEF LnPay, Daemon, operator, Types, Job, Recon
<1>3. Fields'
  BY DEF LnPay, Daemon, File, Patch, operator, Fits, Merged, Kind, SolField, TaoField, Fields,
     Tao
<1>4. Ended'
  BY DEF LnPay, Daemon, File, Patch, operator, Fits, Merged, Kind, SolField, TaoField, Ended,
     End, Tao, IdField, Ends, Claimers
<1>5. OfTaker'
  BY DEF LnPay, Daemon, File, Patch, operator, Fits, Merged, Kind, SolField, TaoField, OfTaker,
     IdField, Ends, Tao
<1>6. OfMaker'
  BY DEF LnPay, Daemon, File, Patch, operator, Fits, Merged, Kind, SolField, TaoField, OfMaker,
     IdField, Tao
<1>7. Listed'
  BY DEF LnPay, Daemon, File, Patch, operator, Fits, Merged, Kind, SolField, TaoField, Listed
<1> QED BY <1>1, <1>2, <1>3, <1>4, <1>5, <1>6, <1>7

LEMMA CancelPostStep ==
    ASSUME RowInv, CancelPost
    PROVE  RowInv'
<1> USE NullAssumption DEF RowInv
<1>1. row' \in Row
  BY DEF CancelPost, MayCancel, File, Patch, process, operator, Fits, Merged, Kind, SolField,
     TaoField, Types, Row, Job, Recon, Ends, RowState, Field, Claimers, Refunders
<1>2. Types'
  BY <1>1 DEF CancelPost, MayCancel, process, operator, Types, Job, Recon
<1>3. Fields'
  BY DEF CancelPost, MayCancel, File, Patch, process, operator, Fits, Merged, Kind, SolField,
     TaoField, Fields, Tao, IdField
<1>4. Ended'
  BY DEF CancelPost, MayCancel, File, Patch, process, operator, Fits, Merged, Kind, SolField,
     TaoField, Ended, End, Tao, IdField, Ends, Claimers
<1>5. OfTaker'
  BY DEF CancelPost, MayCancel, File, Patch, process, operator, Fits, Merged, Kind, SolField,
     TaoField, OfTaker, IdField, Ends, Tao
<1>6. OfMaker'
  BY DEF CancelPost, MayCancel, File, Patch, process, operator, Fits, Merged, Kind, SolField,
     TaoField, OfMaker, IdField, Tao
<1>7. Listed'
  BY DEF CancelPost, MayCancel, File, Patch, process, operator, Fits, Merged, Kind, SolField,
     TaoField, Listed
<1> QED BY <1>1, <1>2, <1>3, <1>4, <1>5, <1>6, <1>7

LEMMA RecordsStep ==
    ASSUME RowInv, NEW end \in {"claimed", "refunded", "canceled"},
           NEW kind \in {"solana", "tao-evm"},
           NEW lost \in Losses(end), Records(end, kind, lost)
    PROVE  RowInv'
<1> USE NullAssumption DEF RowInv
<1> DEFINE p == Patch(kind, end, IF kind = "solana" THEN {} ELSE TaoEndFields(end))
<1>0. /\ side.via = "daemon" /\ row.kind \in {Null, kind}
      /\ lost \subseteq p.has /\ (~Tao => p.has \ {"hash"} \subseteq lost)
      /\ p.has \subseteq {"hash"} \cup TaoField /\ (kind = "solana" => p.has = {})
      /\ (kind = "tao-evm" => {"hash", "tao_settlement_id"} \subseteq p.has)
      /\ (end = "canceled" => kind = "solana")
      /\ row' = [kind |-> kind, state |-> end, has |-> (row.has \cup p.has) \ lost]
      /\ told \subseteq told' /\ told' \subseteq told \cup ({end, "ids"} \ {"canceled"})
      /\ (end # chain /\ end # "canceled" => end \in told')
      /\ ("ids" \in told' <=> "ids" \in told \/ lost # {})
      /\ UNCHANGED <<side, process, chain, due, operator, faults>>
  BY DEF Records, Fits, Merged, Kind, Patch, TaoEndFields, TaoField, Types, Row, Ends
<1>1. row' \in Row
  BY <1>0 DEF TaoField, Types, Row, RowState, Field, Ends
<1>2. Types'
  BY <1>0, <1>1 DEF process, operator, Types, Ends
<1>3. Fields'
  <2> HIDE DEF p
  <2> QED BY <1>0 DEF Tao, IdField, SolField, TaoField, Fields
<1>4. Ended'
  BY <1>0 DEF process, operator, Tao, IdField, Ended, End
<1>5. OfTaker'
  <2> HIDE DEF p
  <2>1. /\ \A f \in {"preimage", "sol_terms", "sol_mint"} : f \in row'.has <=> f \in row.has
        /\ "hash" \in row.has => "hash" \in row'.has \/ "ids" \in told'
    BY <1>0 DEF TaoField
  <2>2. side.role = "taker" /\ IdField \in row'.has => chain # "none" \/ told' # {}
    BY <1>0 DEF IdField, TaoField, OfTaker
  <2> QED BY <1>0, <2>1, <2>2 DEF process, operator, Tao, IdField, OfTaker, Ends
<1>6. OfMaker'
  BY <1>0 DEF process, operator, Tao, IdField, SolField, TaoField, OfMaker, Fields
<1>7. Listed'
  BY <1>0 DEF process, operator, Listed
<1> QED BY <1>1, <1>2, <1>3, <1>4, <1>5, <1>6, <1>7

LEMMA RestartStep ==
    ASSUME RowInv, Restart
    PROVE  RowInv'
<1> USE NullAssumption DEF RowInv
<1>1. job' \in Job \cup {Null}
  BY DEF Restart, Types, Job
<1>2. pc' \in {"failed", pc} /\ heard' \in BOOLEAN
  BY DEF Restart
<1>3. Types'
  BY <1>1, <1>2 DEF Restart, Fault, Types, Ends, Job, Recon
<1>4. Ended'
  BY DEF Restart, Fault, Ended, End, Tao, IdField, Ends, Claimers
<1>5. OfTaker'
  BY DEF Restart, Fault, OfTaker, IdField, Ends, Tao, Types, Fields, Ended, OfMaker, Listed,
     Row, Job, Recon, SolField, TaoField, End, RowState, Field, Claimers, Refunders
<1>6. OfMaker'
  BY DEF Restart, Fault, OfMaker, IdField, Tao
<1> QED BY <1>1, <1>2, <1>3, <1>4, <1>5, <1>6 DEF Restart, Fault, Fields, Tao, SolField,
       TaoField, Listed, IdField

LEMMA StartsToolStep ==
    ASSUME RowInv, NEW tool \in Claimers \cup Refunders, StartsTool(tool)
    PROVE  RowInv'
<1> USE NullAssumption DEF RowInv
<1>1. Types'
  BY DEF StartsTool, CanStart, process, Claimers, IdField, Tao, Actionable, InferKind,
     TaoField, Types, Ends, Job, Recon
<1>2. Ended'
  BY DEF StartsTool, CanStart, process, Claimers, IdField, Tao, Actionable, InferKind,
     TaoField, Ended, End, Ends
<1> QED BY <1>1, <1>2 DEF StartsTool, CanStart, process, Claimers, IdField, Tao, Actionable,
       InferKind, TaoField, Fields, SolField, OfTaker, Ends, OfMaker, Listed

LEMMA ToolLandsStep ==
    ASSUME RowInv, ToolLands
    PROVE  RowInv'
<1> USE NullAssumption DEF RowInv
<1>1. job' \in Job \cup {Null}
  BY DEF ToolLands, Types, Job
<1>2. Types'
  BY <1>1 DEF ToolLands, Works, End, process, Refunders, Claimers, Types, Ends, Job, Recon
<1>3. Ended'
  BY DEF ToolLands, Works, End, process, Refunders, Claimers, Ended, Tao, IdField, Ends, Types,
     Row, Job, Recon, RowState, Field, SolField, TaoField
<1>4. OfTaker'
  BY DEF ToolLands, Works, End, process, Refunders, Claimers, OfTaker, IdField, Ends, Tao
<1>5. OfMaker'
  BY DEF ToolLands, Works, End, process, Refunders, Claimers, OfMaker, IdField, Tao
<1>6. Listed'
  BY DEF ToolLands, Works, End, process, Refunders, Claimers, Listed
<1> QED BY <1>1, <1>2, <1>3, <1>4, <1>5, <1>6 DEF ToolLands, Works, End, process, Refunders,
       Claimers, Fields, Tao, SolField, TaoField, IdField

LEMMA ToolFilesStep ==
    ASSUME RowInv, ToolFiles
    PROVE  RowInv'
<1> USE NullAssumption DEF RowInv
<1>1. row' \in Row
  BY DEF ToolFiles, End, Tao, File, Patch, Own, EndFields, TermsFields, process, Claimers,
     Fits, Merged, IdField, Kind, SolField, TaoField, Types, Row, Job, Recon, Ends, RowState,
     Field, Refunders, TaoEndFields
<1>2. Types'
  BY <1>1 DEF ToolFiles, End, Tao, process, Claimers, Types, Job, Recon
<1>3. Fields'
  BY DEF ToolFiles, End, Tao, File, Patch, Own, EndFields, TermsFields, process, Claimers,
     Fits, Merged, IdField, Kind, SolField, TaoField, Fields, Types, Row, RowState, Field, Ends,
     TaoEndFields
<1>4. Ended'
  BY DEF ToolFiles, End, Tao, File, Patch, Own, EndFields, TermsFields, process, Claimers,
     Fits, Merged, IdField, Kind, SolField, TaoField, Ended, Ends
<1>5. OfTaker'
  BY DEF ToolFiles, End, Tao, File, Patch, Own, EndFields, TermsFields, process, Claimers,
     Fits, Merged, IdField, Kind, SolField, TaoField, OfTaker, Ends, Ended, TaoEndFields, Fields
<1>6. OfMaker'
  BY DEF ToolFiles, End, Tao, File, Patch, Own, EndFields, TermsFields, process, Claimers,
     Fits, Merged, IdField, Kind, SolField, TaoField, OfMaker
<1>7. Listed'
  BY DEF ToolFiles, End, Tao, File, Patch, Own, EndFields, TermsFields, process, Claimers,
     Fits, Merged, IdField, Kind, SolField, TaoField, Listed, Ended, Ends
<1> QED BY <1>1, <1>2, <1>3, <1>4, <1>5, <1>6, <1>7

LEMMA ToolDiesStep ==
    ASSUME RowInv, ToolDies
    PROVE  RowInv'
<1> USE NullAssumption DEF RowInv
<1>1. Types'
  BY DEF ToolDies, Fault, process, Types, Ends, Job, Recon
<1>2. Ended'
  BY DEF ToolDies, Fault, process, Ended, End, Tao, IdField, Ends, Claimers
<1> QED BY <1>1, <1>2 DEF ToolDies, Fault, process, Fields, Tao, SolField, TaoField, OfTaker,
       IdField, Ends, OfMaker, Listed

LEMMA ReconcileStartsStep ==
    ASSUME RowInv, ReconcileStarts
    PROVE  RowInv'
<1> USE NullAssumption DEF RowInv
<1> DEFINE r == [row EXCEPT !.has = @ \cap {"preimage", "tao_settlement_id"}]
<1>0. /\ recon = Null /\ recon' = [row |-> r, seen |-> "nothing"]
      /\ r \in Row /\ r.has \subseteq row.has
      /\ "tao_settlement_id" \in row.has <=> "tao_settlement_id" \in r.has
      /\ "tao_settlement_id" \in row.has \/ "ids" \in told
      /\ UNCHANGED <<side, told, row, process, chain, due, job, faults>>
  BY DEF ReconcileStarts, Types, Row
<1> HIDE DEF r
<1>1. Types'
  BY <1>0 DEF process, Types, Ends, Job, Recon
<1>2. row.kind = "tao-evm" /\ ("tao_settlement_id" \in row.has => Tao)
  BY <1>0 DEF Fields, TaoField
<1>3. Ended'
  BY <1>0, <1>2 DEF Tao, process, Ended, End, Ends, Claimers
<1>4. side.role = "taker" =>
          (chain # "none" /\ "tao_settlement_id" \in row.has) \/ told # {}
  BY <1>0, <1>2 DEF OfTaker, IdField
<1>5. OfTaker'
  BY <1>0, <1>4 DEF Tao, IdField, process, OfTaker, Ends
<1> QED BY <1>0, <1>1, <1>3, <1>5 DEF Tao, IdField, process, Fields, SolField, TaoField,
       OfMaker, Listed

LEMMA ReconcileReadsStep ==
    ASSUME RowInv, ReconcileReads
    PROVE  RowInv'
<1> USE NullAssumption DEF RowInv
<1>1. Types'
  BY DEF ReconcileReads, OnChain, process, Types, Ends, Job, Recon
<1>2. Ended'
  BY DEF ReconcileReads, OnChain, process, Ended, End, Tao, IdField, Ends, Claimers
<1>3. OfTaker'
  BY DEF ReconcileReads, OnChain, process, OfTaker, IdField, Ends, Tao, Types, Ended, Row, Job,
     Recon, End, RowState, Field, Claimers, Refunders, SolField, TaoField, Fields
<1> QED BY <1>1, <1>2, <1>3 DEF ReconcileReads, OnChain, process, Fields, Tao, SolField,
       TaoField, OfMaker, IdField, Listed

LEMMA ReconcileReadsNoLogsStep ==
    ASSUME RowInv, ReconcileReadsNoLogs
    PROVE  RowInv'
<1> USE NullAssumption DEF RowInv
<1>1. Types'
  BY DEF ReconcileReadsNoLogs, Fault, process, Types, Ends, Job, Recon
<1>2. Ended'
  BY DEF ReconcileReadsNoLogs, Fault, process, Ended, End, Tao, IdField, Ends, Claimers
<1>3. OfTaker'
  BY DEF ReconcileReadsNoLogs, Fault, process, OfTaker, IdField, Ends, Tao, OnChain, Fields, Ended
<1> QED BY <1>1, <1>2, <1>3 DEF ReconcileReadsNoLogs, Fault, process, Fields, Tao, SolField,
       TaoField, OfMaker, IdField, Listed

LEMMA ReconcileFilesStep ==
    ASSUME RowInv, ReconcileFiles
    PROVE  RowInv'
<1> USE NullAssumption DEF RowInv
<1>1. row' \in Row
  BY DEF ReconcileFiles, Decision, File, Patch, EndFields, IdField, process, Fits, Merged, Tao,
     Kind, SolField, TaoField, Types, Row, Job, Recon, Ends, RowState, Field, Claimers,
     Refunders, TaoEndFields, Ended
<1>2. Types'
  BY <1>1 DEF ReconcileFiles, process, Tao, Types, Job, Recon
<1>3. Fields'
  BY DEF ReconcileFiles, Decision, File, Patch, EndFields, IdField, process, Fits, Merged, Tao,
     Kind, SolField, TaoField, Fields, Ended, End, Ends, Claimers
<1>4. Ended'
  BY DEF ReconcileFiles, Decision, File, Patch, EndFields, IdField, process, Fits, Merged, Tao,
     Kind, SolField, TaoField, Ended, End, Ends, Claimers
<1>5. OfTaker'
  BY DEF ReconcileFiles, Decision, File, Patch, EndFields, IdField, process, Fits, Merged, Tao,
     Kind, SolField, TaoField, OfTaker, Ends, TaoEndFields, Fields, Ended
<1>6. OfMaker'
  BY DEF ReconcileFiles, Decision, File, Patch, EndFields, IdField, process, Fits, Merged, Tao,
     Kind, SolField, TaoField, OfMaker, TaoEndFields, Fields, Ended
<1>7. Listed'
  <2> DEFINE end == Decision(recon.row, recon.seen)
             p == Patch(Null, end,
                        IF recon.seen = "missing" THEN {} ELSE EndFields(end) \ {"hash", IdField})
  <2>1. "preimage" \notin p.has /\ UNCHANGED <<side, told, chain>>
    BY DEF EndFields, TaoEndFields, Patch, ReconcileFiles, process
  <2>2. \/ row' = row
        \/ end # Null /\ row'.state = end /\ row'.has = row.has \cup p.has
    BY DEF ReconcileFiles, File, Merged, Patch
  <2>3. end # Null => \/ end = "claimed" /\ recon.seen = "claimed"
                      \/ end = "refunded" /\ recon.seen \in {"refunded", "missing"}
    BY DEF Decision
  <2> HIDE DEF end, p
  <2>4. CASE row' = row
    BY <2>1, <2>4 DEF Listed
  <2>5. CASE end # Null /\ row'.state = end /\ row'.has = row.has \cup p.has
    <3>1. recon # Null
      BY DEF ReconcileFiles
    <3>2. chain = "locked" /\ side.role = "taker" => told # {} /\ side.via = "daemon"
      BY <2>3, <2>5, <3>1 DEF Ended, OfTaker, Fields, Types, Ends
    <3> QED BY <2>1, <2>3, <2>5, <3>2 DEF Listed
  <2> QED BY <2>2, <2>4, <2>5
<1> QED BY <1>1, <1>2, <1>3, <1>4, <1>5, <1>6, <1>7

LEMMA ReconcileDiesStep ==
    ASSUME RowInv, ReconcileDies
    PROVE  RowInv'
<1> USE NullAssumption DEF RowInv
<1>1. Types'
  BY DEF ReconcileDies, Fault, process, Types, Ends, Job, Recon
<1>2. Ended'
  BY DEF ReconcileDies, Fault, process, Ended, End, Tao, IdField, Ends, Claimers
<1>3. OfTaker'
  BY DEF ReconcileDies, Fault, process, OfTaker, IdField, Ends, Tao
<1> QED BY <1>1, <1>2, <1>3 DEF ReconcileDies, Fault, process, Fields, Tao, SolField, TaoField,
       OfMaker, IdField, Listed

LEMMA MinedStep ==
    ASSUME RowInv, Mined
    PROVE  RowInv'
<1> USE NullAssumption DEF RowInv
<1>1. Types'
  BY DEF Mined, process, operator, Types, Ends, Job, Recon
<1>2. Ended'
  BY DEF Mined, process, operator, Ended, End, Tao, IdField, Ends, Claimers
<1>3. OfTaker'
  BY DEF Mined, process, operator, OfTaker, IdField, Ends, Tao
<1>4. OfMaker'
  BY DEF Mined, process, operator, OfMaker, IdField, Tao
<1>5. Listed'
  BY DEF Mined, process, operator, Listed, OfTaker, IdField, Ends, Tao
<1> QED BY <1>1, <1>2, <1>3, <1>4, <1>5 DEF Mined, process, operator, Fields, Tao, SolField,
       TaoField, IdField

LEMMA DroppedStep ==
    ASSUME RowInv, Dropped
    PROVE  RowInv'
<1> USE NullAssumption DEF RowInv
<1>1. Types'
  BY DEF Dropped, Fault, process, operator, Types, Ends, Job, Recon
<1>2. Ended'
  BY DEF Dropped, Fault, process, operator, Ended, End, Tao, IdField, Ends, Claimers
<1>3. OfTaker'
  BY DEF Dropped, Fault, process, operator, OfTaker, IdField, Ends, Tao
<1>4. OfMaker'
  BY DEF Dropped, Fault, process, operator, OfMaker, IdField, Tao
<1>5. Listed'
  BY DEF Dropped, Fault, process, operator, Listed
<1> QED BY <1>1, <1>2, <1>3, <1>4, <1>5 DEF Dropped, Fault, process, operator, Fields, Tao,
       SolField, TaoField, IdField

LEMMA PeerMakerStep ==
    ASSUME RowInv, PeerMaker
    PROVE  RowInv'
<1> USE NullAssumption DEF RowInv
<1>1. Types'
  BY DEF PeerMaker, process, operator, Types, Ends, Job, Recon
<1>2. Ended'
  BY DEF PeerMaker, process, operator, Ended, End, Tao, IdField, Ends, Claimers
<1>3. OfTaker'
  BY DEF PeerMaker, process, operator, OfTaker, IdField, Ends, Tao
<1>4. OfMaker'
  BY DEF PeerMaker, process, operator, OfMaker, IdField, Tao
<1>5. Listed'
  BY DEF PeerMaker, process, operator, Listed, OfTaker, IdField, Ends, Tao
<1> QED BY <1>1, <1>2, <1>3, <1>4, <1>5 DEF PeerMaker, process, operator, Fields, Tao,
       SolField, TaoField, IdField

LEMMA PeerTakerStep ==
    ASSUME RowInv, PeerTaker
    PROVE  RowInv'
<1> USE NullAssumption DEF RowInv
<1>1. Types'
  BY DEF PeerTaker, process, operator, Types, Ends, Job, Recon
<1>2. Ended'
  BY DEF PeerTaker, process, operator, Ended, End, Tao, IdField, Ends, Claimers
<1>3. OfTaker'
  BY DEF PeerTaker, process, operator, OfTaker, IdField, Ends, Tao
<1>4. OfMaker'
  BY DEF PeerTaker, process, operator, OfMaker, IdField, Tao
<1>5. Listed'
  BY DEF PeerTaker, process, operator, Listed
<1> QED BY <1>1, <1>2, <1>3, <1>4, <1>5 DEF PeerTaker, process, operator, Fields, Tao,
       SolField, TaoField, IdField

LEMMA RefundTimeStep ==
    ASSUME RowInv, RefundTime
    PROVE  RowInv'
<1> USE NullAssumption DEF RowInv
<1>1. Types'
  BY DEF RefundTime, process, operator, Types, Ends, Job, Recon
<1> QED BY <1>1 DEF RefundTime, process, operator, Fields, Tao, SolField, TaoField, Ended, End,
       IdField, Ends, Claimers, OfTaker, OfMaker, Listed

-----------------------------------------------------------------------------
(* The invariant, and what follows from it.                                *)

LEMMA RowInvInit == RowInit => RowInv
<1> SUFFICES ASSUME RowInit PROVE RowInv
  OBVIOUS
<1>1. Types
  BY NullAssumption DEF RowInit, Types, Row, Ends
<1> QED BY <1>1 DEF RowInit, RowInv, Fields, Ended, OfTaker, OfMaker, Listed, Tao

LEMMA RowInvStep == RowInv /\ [RowNext]_vars => RowInv'
<1> SUFFICES ASSUME RowInv, [RowNext]_vars PROVE RowInv'
  OBVIOUS
<1>1. CASE MakerBot
  BY <1>1, HearsRfqStep, StartsSwapStep, SendsTermsStep, HearsAcceptStep, InvoicesStep,
     CheckpointsStep, OnBroadcastStep, LockReturnsStep, LockThrowsStep, HearsPaidStep,
     HearsEndStep, TimesOutStep, ShutdownStep DEF MakerBot
<1>2. CASE TakerBot
  BY <1>2, TakerProgressStep, TakerHearsEndStep, HearsEscrowStep, PaysStep, ClaimsStep, FilesClaimStep DEF TakerBot
<1>3. CASE SendsLock \/ Crash
  BY <1>3, SendsLockStep, CrashStep
<1>4. CASE DaemonStep
  BY <1>4, TermsPostStep, InvoicePostStep, EscrowPostStep, EscrowPostThrowsStep, TermsAcceptStep,
     LogsEscrowStep, LnPayStep, CancelPostStep, RestartStep, RecordsStep DEF DaemonStep
<1>5. CASE Reconcile
  BY <1>5, ReconcileStartsStep, ReconcileReadsStep, ReconcileReadsNoLogsStep,
     ReconcileFilesStep, ReconcileDiesStep DEF Reconcile
<1>6. CASE Tools
  BY <1>6, StartsToolStep, ToolLandsStep, ToolFilesStep, ToolDiesStep DEF Tools
<1>7. CASE Outside
  BY <1>7, MinedStep, DroppedStep, PeerMakerStep, PeerTakerStep, RefundTimeStep DEF Outside
<1>8. CASE UNCHANGED vars
  BY <1>8 DEF vars, process, operator, RowInv, Types, Fields, Ended, OfTaker, OfMaker, Listed,
     Tao, IdField
<1> QED BY <1>1, <1>2, <1>3, <1>4, <1>5, <1>6, <1>7, <1>8 DEF RowNext

\* RowInv always holds: what each writer of the row has filed before.
THEOREM RowInvariant == RowSpec => []RowInv
  BY RowInvInit, RowInvStep, PTL DEF RowSpec

\* A taker that has paid and not claimed is among the open claims, whichever
\* writer came last, unless a daemon heard a CANCEL or an untrue end.
THEOREM PaidIsListed == RowSpec => []Listed
<1>1. RowInv => Listed
  BY DEF RowInv
<1> QED BY <1>1, RowInvariant, PTL

\* The row is enough for one of the tools to claim, or to refund.
THEOREM RowSuffices == RowSpec => []Recoverable
<1>1. RowInv => Recoverable
  <2> SUFFICES ASSUME RowInv PROVE Recoverable
    OBVIOUS
  <2> USE NullAssumption DEF RowInv
  <2>1. ASSUME IdField \in row.has
        PROVE  row.kind = side.kind
    BY <2>1 DEF Types, Fields, IdField, Tao, SolField, TaoField
  <2>2. ASSUME "hash" \in row.has \/ "ids" \in told, ~Misnamed,
               \/ IdField \in row.has
               \/ "sol_terms" \in row.has
        PROVE  "hash" \in row.has
    BY <2>2 DEF Types, Fields, SolField, Misnamed
  <2>3. ASSUME side.role = "taker", "preimage" \in row.has, chain = "locked", ~OnlyLogged, ~Misnamed
        PROVE  \E tool \in Claimers : CanStart(tool)
    <3>1. "hash" \in row.has \/ "ids" \in told
      BY <2>3 DEF OfTaker
    <3>2. CASE IdField \in row.has
      <4>1. CanStart("cli_claim")
        BY <2>1, <2>2, <2>3, <3>1, <3>2 DEF CanStart, Claimers
      <4> QED BY <4>1 DEF Claimers
    <3>3. CASE ~Tao /\ "sol_terms" \in row.has
      <4>1. CanStart("sol_claim")
        BY <2>2, <2>3, <3>1, <3>3 DEF OfTaker, CanStart, Claimers
      <4> QED BY <4>1 DEF Claimers
    <3>4. CASE heard
      <4>1. CanStart("claim")
        BY <2>3, <3>4 DEF OfTaker, CanStart, Claimers
      <4> QED BY <4>1 DEF Claimers
    <3>5. side.via = "bot" => IdField \in row.has
      BY <2>3 DEF OfTaker
    <3> QED BY <2>3, <3>2, <3>3, <3>4, <3>5 DEF OnlyLogged, Types
  <2>4. ASSUME side.role = "maker", chain = "locked", ~OnlyLogged, ~MintLost, ~Misnamed
        PROVE  \E tool \in Refunders : CanStart(tool)
    <3>1. /\ "hash" \in row.has \/ "ids" \in told
          /\ "sol_refund" \notin Claimers /\ "cli_refund" \notin Claimers
      BY <2>4 DEF OfMaker, Claimers
    <3>2. CASE IdField \in row.has
      <4>1. CanStart("cli_refund")
        BY <2>1, <2>2, <2>4, <3>1, <3>2 DEF CanStart
      <4> QED BY <4>1 DEF Refunders
    <3>3. CASE ~Tao /\ {"sol_mint", "sol_terms"} \subseteq row.has
      <4>1. CanStart("sol_refund")
        BY <2>2, <2>4, <3>1, <3>3 DEF CanStart
      <4> QED BY <4>1 DEF Refunders
    <3>4. IdField \in row.has \/ (~Tao /\ {"sol_mint", "sol_terms"} \subseteq row.has)
      <4>1. CASE side.via = "bot"
        BY <2>4, <4>1 DEF OfMaker, MintLost
      <4>2. CASE side.via = "daemon"
        BY <2>4, <4>2 DEF OfMaker, OnlyLogged, Misnamed
      <4> QED BY <4>1, <4>2 DEF Types
    <3> QED BY <3>2, <3>3, <3>4
  <2> QED BY <2>3, <2>4 DEF Recoverable
<1> QED BY <1>1, RowInvariant, PTL

-----------------------------------------------------------------------------
(* Who writes "claimed" or "refunded", and from what.                      *)

LEMMA FiledState ==
    ASSUME NEW p, File(p)
    PROVE  row'.state \in {row.state, p.state}
  BY DEF File, Merged

LEMMA SettledTrulyStep == RowInv /\ [RowNext]_vars => SettledStep
<1> SUFFICES ASSUME RowInv, [RowNext]_vars, row'.state # row.state, row'.state \in Ends
             PROVE  \/ row'.state = chain
                    \/ HearsItEnded(row'.state)
                    \/ row'.state = "refunded" /\ recon # Null /\ recon.seen = "missing"
  BY DEF SettledStep, Ends
<1> USE NullAssumption DEF RowInv
<1>1. CASE MakerBot
  <2>1. ASSUME NEW mint \in BOOLEAN, HearsRfq(mint) PROVE FALSE
    BY <2>1 DEF HearsRfq, Merged, Own, Patch, Ends
  <2>2. ASSUME StartsSwap \/ SendsTerms \/ HearsAccept \/ Invoices \/ Checkpoints
                 \/ OnBroadcast \/ LockReturns \/ HearsPaid
        PROVE  FALSE
    BY <2>2, FiledState DEF StartsSwap, SendsTerms, HearsAccept, Invoices, Checkpoints,
       OnBroadcast, LockReturns, HearsPaid, Own, Patch, Ends
  <2>3. CASE LockThrows \/ TimesOut \/ Shutdown
    <3>1. row'.state \in {stage, "escrow", "locking"}
      BY <2>3, FiledState DEF LockThrows, TimesOut, Shutdown, Own, Patch, CleanupState
    <3>2. inSwaps \/ (pc \in {"ready", "calling"} /\ Bot("maker"))
      BY <2>3 DEF LockThrows, TimesOut, Shutdown
    <3>3. CASE inSwaps
      BY <3>1, <3>3 DEF Ended, Ends
    <3>4. CASE pc \in {"ready", "calling"} /\ Bot("maker")
      BY <3>1, <3>4 DEF OfMaker, Bot, Ends
    <3> QED BY <3>2, <3>3, <3>4
  <2>4. ASSUME NEW end \in {"claimed", "canceled"}, HearsEnd(end) PROVE HearsItEnded(row'.state)
    <3>1. row'.state = end
      BY <2>4, FiledState DEF HearsEnd, Own, Patch, Ends
    <3> QED BY <2>4, <3>1 DEF HearsItEnded
  <2> QED BY <1>1, <2>1, <2>2, <2>3, <2>4 DEF MakerBot
<1>2. CASE TakerBot
  <2>1. CASE \/ TakerProgress \/ HearsEscrow \/ Pays \/ Claims
             \/ \E end \in {"canceled", "refunded"} : TakerHearsEnd(end)
    BY <2>1, FiledState DEF TakerHearsEnd, TakerProgress, Progress, HearsEscrow, Pays, Claims, Own, Patch, Ends
  <2>2. CASE FilesClaim
    BY <2>2, FiledState DEF FilesClaim, Bot, Own, Patch, Ends, OfTaker
  <2> QED BY <1>2, <2>1, <2>2 DEF TakerBot
<1>3. CASE SendsLock \/ Crash
  BY <1>3 DEF SendsLock, Crash
<1>4. CASE DaemonStep
  <2>1. ASSUME NEW end \in {"claimed", "refunded", "canceled"},
               NEW kind \in {"solana", "tao-evm"},
               NEW lost \in Losses(end), Records(end, kind, lost)
        PROVE  HearsItEnded(row'.state)
    <3>1. row'.state = end
      BY <2>1 DEF Records, Merged, Patch
    <3> QED BY <2>1, <3>1 DEF HearsItEnded
  <2>2. ASSUME NEW whole \in BOOLEAN, TermsAccept(whole) PROVE FALSE
    BY <2>2, FiledState DEF TermsAccept, Own, Patch, Ends
  <2>3. CASE TermsPost \/ InvoicePost \/ EscrowPost \/ EscrowPostThrows \/ LogsEscrow
               \/ LnPay \/ CancelPost \/ Restart
    BY <2>3, FiledState DEF TermsPost, InvoicePost, EscrowPost, EscrowPostThrows, LogsEscrow,
       LnPay, CancelPost, Restart, Own, Patch, Ends
  <2> QED BY <1>4, <2>1, <2>2, <2>3 DEF DaemonStep
<1>5. CASE Reconcile
  <2>1. CASE ReconcileFiles
    <3> DEFINE end == Decision(recon.row, recon.seen)
    <3>1. recon # Null /\ end # Null /\ row'.state \in {row.state, end}
      BY <2>1, FiledState DEF ReconcileFiles, Patch
    <3>2. \/ end = "claimed" /\ recon.seen = "claimed"
          \/ end = "refunded" /\ recon.seen \in {"refunded", "missing"}
      BY <3>1 DEF Decision
    <3> QED BY <3>1, <3>2 DEF Ended, Ends
  <2>2. CASE ReconcileStarts \/ ReconcileReads \/ ReconcileReadsNoLogs \/ ReconcileDies
    BY <2>2 DEF ReconcileStarts, ReconcileReads, ReconcileReadsNoLogs, ReconcileDies
  <2> QED BY <1>5, <2>1, <2>2 DEF Reconcile
<1>6. CASE Tools
  <2>1. CASE ToolFiles
    <3>1. row'.state \in {row.state, End(job.tool)} /\ job # Null /\ job.landed
      BY <2>1, FiledState DEF ToolFiles, Own, Patch
    <3> QED BY <3>1 DEF Ended
  <2>2. CASE (\E tool \in Claimers \cup Refunders : StartsTool(tool)) \/ ToolLands \/ ToolDies
    BY <2>2 DEF StartsTool, ToolLands, ToolDies
  <2> QED BY <1>6, <2>1, <2>2 DEF Tools
<1>7. CASE Outside \/ UNCHANGED vars
  BY <1>7 DEF Outside, Mined, Dropped, PeerMaker, PeerTaker, RefundTime, vars
<1> QED BY <1>1, <1>2, <1>3, <1>4, <1>5, <1>6, <1>7 DEF RowNext

\* A row becomes claimed or refunded only when the lock has ended that way,
\* however stale what it is filed from; the exceptions are an envelope that says
\* so and the guess of swapreconcile about a lock it does not find.
THEOREM SettlesTruly == RowSpec => SettledIsTrue
  BY SettledTrulyStep, RowInvariant, PTL DEF RowSpec, SettledIsTrue
=============================================================================
