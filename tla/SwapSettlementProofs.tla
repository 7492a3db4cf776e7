------------------------ MODULE SwapSettlementProofs ------------------------
(***************************************************************************)
(* The swap between the two bots, for every setting of the deadlines and   *)
(* every combination of faults.                                            *)
(*                                                                         *)
(* Two copies of a trade agree although each is moved by messages that are *)
(* lost, repeated and reordered, because every message in the channel is   *)
(* what its sender still holds: the ACCEPTs carry the hash the taker       *)
(* accepted, the invoices and escrows are the maker's only ones (Channel). *)
(* What the taker does with money rests on what it read on the chain two   *)
(* awaits earlier (Checked); MakerProgress, TakerProgress and Evidence     *)
(* relate the program counters to the chain, the payment and the receipts. *)
(***************************************************************************)
EXTENDS SwapSettlement, TLAPS

Offers == {OfferOf(t) : t \in 0..LastReady}
Hashes == [body : Offers, ts : Nat]
Invoices == [hash : {"hash"}, bolt11 : {"bolt11"}, amount : {1000}, expires : Nat]
Escrows == [hash : {"hash"}, deal : {"deal"}, id : {"id"}, tx : {"lock"}, refundAfter : Nat]
Claims == [hash : {"hash"}, id : {"id"}, tx : {"claim"}]

Is(m, kind, who, bodies) == m.kind = kind /\ m.signer = who /\ m.body \in bodies

\* The messages of this swap: who sends which kind, and what it carries.
WellFormed(m) ==
    /\ m.ts \in Nat
    /\ \/ Is(m, "STATUS", "taker", {"ready"})
       \/ Is(m, "TERMS", "maker", Offers)
       \/ Is(m, "ACCEPT", "taker", [terms_hash : Hashes])
       \/ Is(m, "LN_INVOICE", "maker", Invoices)
       \/ Is(m, "ESCROW", "maker", Escrows)
       \/ Is(m, "LN_PAID", "taker", [hash : {"hash"}])
       \/ Is(m, "CLAIMED", "taker", Claims)
       \/ Is(m, "CANCEL", "maker", {"timeout"})
       \/ Is(m, "CANCEL", "taker", {"operator"})

\* A copy of the trade in this swap.
Copy ==
    [state : State, terms : Offers \cup {None}, terms_hash : Hashes \cup {None},
     accepted_at : Nat \cup {None}, invoice : Invoices \cup {None},
     escrow : Escrows \cup {None}, ln_paid : [hash : {"hash"}] \cup {None},
     claimed : Claims \cup {None}, refunded : {None}]

\* Before ACCEPT a copy holds no evidence, after it the terms stand.
Sound(t) ==
    /\ t \in Copy
    /\ t.state = "init" => t.terms = None
    /\ t.state \in Open => /\ t.accepted_at = None /\ t.invoice = None /\ t.escrow = None
                           /\ t.ln_paid = None /\ t.claimed = None
    /\ t.state \in State \ (Open \cup {"canceled"}) => t.accepted_at # None
    /\ t.accepted_at # None => t.terms # None

MakerPoint == {"idle", "invoice", "lock", "prove", "shown", "stopped"}
Early == {"ready", "terms", "sending", "invoice", "escrow", "verify", "check"}
TakerPoint == Early \cup {"paying", "record", "claim", "tell", "done", "dead"}

WorldType ==
    /\ now \in Nat
    /\ chain \in [status : {"none", "locked", "claimed", "refunded"}, after : Nat]
    /\ ln \in [status : {"none", "inflight", "paid", "failed"}, since : Nat]
    /\ makerPc \in MakerPoint /\ takerPc \in TakerPoint
    /\ fetching \in 0..LastReady \cup {None}
    /\ makerIn \in {"swap", "left", "down"}

RecordType ==
    /\ \A m \in net : WellFormed(m)
    /\ Sound(makerTrade) /\ Sound(takerTrade)
    /\ receipts \in [maker : SUBSET {"hash", "id"}, taker : SUBSET {"hash", "id", "preimage"}]

TypeOK == WorldType /\ RecordType

\* Each message is what its sender still holds.
Channel ==
    /\ \A m \in net : m.kind = "ACCEPT" =>
          takerTrade.accepted_at # None /\ m.body.terms_hash = takerTrade.terms_hash
    /\ \A m \in net : m.kind = "LN_INVOICE" => m.body = makerTrade.invoice
    /\ \A m \in net : m.kind = "ESCROW" => m.body = makerTrade.escrow
    /\ \A m \in net : m.kind = "LN_PAID" => ln.status = "paid"
    /\ \A m \in net : m.kind = "CLAIMED" => chain.status = "claimed"

\* What a side took over from the other one was sent to it.
Heard ==
    /\ makerTrade.accepted_at # None =>
          /\ takerTrade.accepted_at # None
          /\ makerTrade.terms_hash = takerTrade.terms_hash
    /\ takerTrade.invoice # None =>
          takerTrade.invoice = makerTrade.invoice /\ "hash" \in receipts.taker
    /\ takerTrade.escrow # None =>
          takerTrade.escrow = makerTrade.escrow /\ "id" \in receipts.taker
    /\ makerTrade.ln_paid # None => ln.status = "paid"
    /\ makerTrade.claimed # None => chain.status = "claimed"

\* How far each bot is, and what is then on the chain and paid.
MakerProgress ==
    /\ makerPc = "idle" <=> makerTrade.accepted_at = None
    /\ makerPc \in {"idle", "invoice"} =>
          makerTrade.invoice = None /\ \A m \in net : m.kind # "LN_INVOICE"
    /\ makerPc \in {"idle", "invoice", "lock", "prove"} =>
          makerTrade.escrow = None /\ \A m \in net : m.kind # "ESCROW"
    /\ makerPc \in {"idle", "invoice", "lock"} => chain.status = "none"

TakerProgress ==
    /\ takerPc \in {"ready", "terms"} => takerTrade.accepted_at = None
    /\ takerPc \notin {"ready", "terms", "dead"} => takerTrade.accepted_at # None
    /\ takerPc \in Early => ln.status = "none"
    /\ takerPc \in {"record", "claim", "tell", "done"} => ln.status = "paid"
    /\ takerPc \in {"tell", "done"} => chain.status = "claimed"

\* What the money has done, and what is then on record.
Evidence ==
    /\ ln.status # "none" => takerTrade.invoice # None /\ takerTrade.escrow # None
    /\ "preimage" \in receipts.taker => ln.status = "paid"
    /\ chain.status = "claimed" => ln.status = "paid"
    /\ chain.status = "refunded" => now >= chain.after

\* The contract the taker read is still the one on the chain when it pays.
Checked ==
    takerPc \in {"check", "paying", "record", "claim"} =>
        /\ takerTrade.invoice # None /\ takerTrade.escrow # None
        /\ chain.status # "none"
        /\ chain.after = takerTrade.escrow.refundAfter
        /\ chain.after = takerTrade.terms.refundAfter

IInv == TypeOK /\ Channel /\ Heard /\ MakerProgress /\ TakerProgress /\ Evidence /\ Checked

-----------------------------------------------------------------------------
(* What applySwapEnvelope may do to a copy of the trade.                     *)

\* u is t after the message m: acceptance, invoice and escrow are written once,
\* each from the message of its kind.
Written(t, m, u) ==
    /\ t.accepted_at # None => /\ u.accepted_at = t.accepted_at /\ u.terms = t.terms
                               /\ u.terms_hash = t.terms_hash
    /\ t.accepted_at = None /\ u.accepted_at # None =>
          m.kind = "ACCEPT" /\ u.terms_hash = m.body.terms_hash
    /\ u.invoice # t.invoice => m.kind = "LN_INVOICE" /\ t.invoice = None
    /\ m.kind = "LN_INVOICE" /\ t.invoice = None => u.invoice = m.body
    /\ u.escrow # t.escrow => m.kind = "ESCROW" /\ t.escrow = None
    /\ m.kind = "ESCROW" /\ t.escrow = None => u.escrow = m.body
    /\ u.ln_paid # t.ln_paid => m.kind = "LN_PAID"
    /\ u.claimed # t.claimed => m.kind = "CLAIMED"

LEMMA CopyFields ==
    ASSUME NEW t, Sound(t)
    PROVE  /\ t = [state |-> t.state, terms |-> t.terms, terms_hash |-> t.terms_hash,
                   accepted_at |-> t.accepted_at, invoice |-> t.invoice,
                   escrow |-> t.escrow, ln_paid |-> t.ln_paid,
                   claimed |-> t.claimed, refunded |-> t.refunded]
           /\ t.state \in State /\ t.terms \in Offers \cup {None}
           /\ t.terms_hash \in Hashes \cup {None} /\ t.accepted_at \in Nat \cup {None}
           /\ t.invoice \in Invoices \cup {None} /\ t.escrow \in Escrows \cup {None}
           /\ t.ln_paid \in [hash : {"hash"}] \cup {None}
           /\ t.claimed \in Claims \cup {None} /\ t.refunded = None
  BY DEF Sound, Copy

LEMMA WellFormedParts ==
    ASSUME NEW m, WellFormed(m)
    PROVE  /\ m.ts \in Nat
           /\ m.kind = "TERMS" => m.signer = "maker" /\ m.body \in Offers
           /\ m.kind = "ACCEPT" => m.signer = "taker" /\ m.body.terms_hash \in Hashes
           /\ m.kind = "LN_INVOICE" => m.signer = "maker" /\ m.body \in Invoices
           /\ m.kind = "ESCROW" => m.signer = "maker" /\ m.body \in Escrows
           /\ m.kind = "LN_PAID" => m.signer = "taker" /\ m.body \in [hash : {"hash"}]
           /\ m.kind = "CLAIMED" => m.signer = "taker" /\ m.body \in Claims
           /\ m.kind \in {"STATUS", "TERMS", "ACCEPT", "LN_INVOICE", "ESCROW", "LN_PAID",
                          "CLAIMED", "CANCEL"}
  BY DEF WellFormed, Is

LEMMA AfterWritten ==
    ASSUME NEW t, Sound(t), NEW m, WellFormed(m), Accepts(t, m)
    PROVE  Sound(After(t, m)) /\ Written(t, m, After(t, m))
<1> DEFINE u == After(t, m)
<1>f. None \notin Nat
  BY SettlementAssumption
<1>1. CASE m.kind = "TERMS"
  <2>1. m.body \in Offers /\ HashOf(m) \in Hashes
    BY <1>1, WellFormedParts DEF HashOf, Hashes
  <2>2. u = AfterTerms(t, m) /\ CanTerms(t, m)
    BY <1>1 DEF After, Accepts
  <2>3. CASE t.state \in Open
    BY <1>1, <2>1, <2>2, <2>3, CopyFields DEF AfterTerms, Sound, Written, Copy, State, Open, Final
  <2>4. CASE t.state \notin Open
    BY <1>1, <2>2, <2>4 DEF AfterTerms, Written
  <2> QED BY <2>3, <2>4
<1>2. CASE m.kind = "ACCEPT"
  <2>1. u = AfterAccept(t, m) /\ CanAccept(t, m) /\ m.ts \in Nat
    BY <1>2, WellFormedParts DEF After, Accepts
  <2>2. CASE t.state = "terms"
    <3>1. t.terms # None /\ m.body.terms_hash = t.terms_hash
      BY <2>1 DEF CanAccept
    <3>2. u = [t EXCEPT !.state = "accepted", !.accepted_at = m.ts]
      BY <2>1, <2>2 DEF AfterAccept
    <3>3. Sound(u)
      BY <1>f, <2>1, <2>2, <3>1, <3>2 DEF Sound, Copy, State, Open, Final
    <3> QED BY <1>2, <2>2, <3>1, <3>2, <3>3 DEF Written, Sound, Copy, Open
  <2>3. CASE t.state # "terms"
    BY <1>2, <2>1, <2>3 DEF AfterAccept, Written
  <2> QED BY <2>2, <2>3
<1>3. CASE m.kind = "LN_INVOICE"
  <2> DEFINE k == IF t.invoice = None THEN m.body ELSE t.invoice
             s == IF t.state = "accepted" THEN "invoice" ELSE t.state
  <2>1. /\ u = [t EXCEPT !.invoice = k, !.state = s]
        /\ t.state \in {"accepted", "invoice", "escrow"} /\ m.body \in Invoices
    BY <1>3, WellFormedParts DEF After, Accepts, CanInvoice, AfterInvoice, Keep
  <2>2. k \in Invoices \cup {None} /\ s \in {"invoice", "escrow"}
    BY <2>1, CopyFields
  <2> HIDE DEF k, s
  <2>3. Sound(u)
    BY <2>1, <2>2 DEF Sound, Copy, State, Open, Final
  <2>4. u.invoice = k /\ u.escrow = t.escrow /\ u.ln_paid = t.ln_paid /\ u.claimed = t.claimed
        /\ u.accepted_at = t.accepted_at /\ u.terms = t.terms /\ u.terms_hash = t.terms_hash
    BY <2>1 DEF Sound, Copy
  <2> HIDE DEF u
  <2> QED BY <1>3, <2>3, <2>4 DEF Written, k, u
<1>4. CASE m.kind = "ESCROW"
  <2> DEFINE k == IF t.escrow = None THEN m.body ELSE t.escrow
  <2>1. /\ u = [t EXCEPT !.escrow = k, !.state = "escrow"]
        /\ t.state \in {"invoice", "escrow"} /\ m.body \in Escrows
    BY <1>4, WellFormedParts DEF After, Accepts, CanEscrow, AfterEscrow, Keep
  <2>2. k \in Escrows \cup {None}
    BY <2>1, CopyFields
  <2> HIDE DEF k
  <2>3. Sound(u)
    BY <2>1, <2>2 DEF Sound, Copy, State, Open, Final
  <2>4. u.escrow = k /\ u.invoice = t.invoice /\ u.ln_paid = t.ln_paid /\ u.claimed = t.claimed
        /\ u.accepted_at = t.accepted_at /\ u.terms = t.terms /\ u.terms_hash = t.terms_hash
    BY <2>1 DEF Sound, Copy
  <2> HIDE DEF u
  <2> QED BY <1>4, <2>3, <2>4 DEF Written, k, u
<1>5. CASE m.kind = "LN_PAID"
  <2> DEFINE k == IF t.ln_paid = None THEN m.body ELSE t.ln_paid
  <2>1. /\ u = [t EXCEPT !.ln_paid = k, !.state = "ln_paid"]
        /\ t.state \in {"escrow", "ln_paid"} /\ m.body \in [hash : {"hash"}]
    BY <1>5, WellFormedParts DEF After, Accepts, CanLnPaid, AfterLnPaid, Keep
  <2>2. k \in [hash : {"hash"}] \cup {None}
    BY <2>1, CopyFields
  <2> HIDE DEF k
  <2>3. Sound(u)
    BY <2>1, <2>2 DEF Sound, Copy, State, Open, Final
  <2>4. u.escrow = t.escrow /\ u.invoice = t.invoice /\ u.claimed = t.claimed
        /\ u.accepted_at = t.accepted_at /\ u.terms = t.terms /\ u.terms_hash = t.terms_hash
    BY <2>1 DEF Sound, Copy
  <2> HIDE DEF u
  <2> QED BY <1>5, <2>3, <2>4 DEF Written, u
<1>6. CASE m.kind = "CLAIMED"
  <2> DEFINE k == IF t.claimed = None THEN m.body ELSE t.claimed
  <2>1. /\ u = [t EXCEPT !.claimed = k, !.state = "claimed"]
        /\ t.state \in {"escrow", "ln_paid", "claimed"} /\ m.body \in Claims
    BY <1>6, WellFormedParts DEF After, Accepts, CanClaimed, AfterClaimed, Keep
  <2>2. k \in Claims \cup {None}
    BY <2>1, CopyFields
  <2> HIDE DEF k
  <2>3. Sound(u)
    BY <2>1, <2>2 DEF Sound, Copy, State, Open, Final
  <2>4. u.escrow = t.escrow /\ u.invoice = t.invoice /\ u.ln_paid = t.ln_paid
        /\ u.accepted_at = t.accepted_at /\ u.terms = t.terms /\ u.terms_hash = t.terms_hash
    BY <2>1 DEF Sound, Copy
  <2> HIDE DEF u
  <2> QED BY <1>6, <2>3, <2>4 DEF Written, u
<1>7. CASE m.kind = "CANCEL"
  <2>1. u = [t EXCEPT !.state = "canceled"]
    BY <1>7 DEF After, AfterCancel
  <2>2. Sound(u)
    BY <2>1 DEF Sound, Copy, State, Open, Final
  <2>3. u.escrow = t.escrow /\ u.invoice = t.invoice /\ u.ln_paid = t.ln_paid
        /\ u.claimed = t.claimed
        /\ u.accepted_at = t.accepted_at /\ u.terms = t.terms /\ u.terms_hash = t.terms_hash
    BY <2>1 DEF Sound, Copy
  <2> HIDE DEF u
  <2> QED BY <1>7, <2>2, <2>3 DEF Written, u
<1>8. CASE m.kind = "STATUS"
  BY <1>8 DEF After, Written
<1> QED BY <1>1, <1>2, <1>3, <1>4, <1>5, <1>6, <1>7, <1>8, WellFormedParts

LEMMA ApplyWritten ==
    ASSUME NEW t, Sound(t), NEW m, WellFormed(m)
    PROVE  /\ Sound(Apply(t, m))
           /\ Apply(t, m) = t \/ (Accepts(t, m) /\ Written(t, m, Apply(t, m)))
  BY AfterWritten DEF Apply

LEMMA MsgParts ==
    ASSUME NEW kind, NEW who, NEW body, now \in Nat
    PROVE  /\ Msg(kind, who, body).kind = kind
           /\ Msg(kind, who, body).signer = who
           /\ Msg(kind, who, body).body = body
           /\ Msg(kind, who, body).ts \in Nat
  BY DEF Msg

-----------------------------------------------------------------------------
LEMMA InvInit == Init => IInv
<1> SUFFICES ASSUME Init PROVE IInv
  OBVIOUS
<1>1. Sound(makerTrade) /\ Sound(takerTrade)
  BY DEF Init, Sound, Copy, createInitialTrade, State, Open, Final
<1>2. TypeOK
  BY <1>1 DEF Init, TypeOK, WorldType, RecordType, WellFormed, Is, MakerPoint, TakerPoint, Early
<1>3. Channel /\ Heard /\ MakerProgress /\ TakerProgress /\ Evidence /\ Checked
  BY DEF Init, createInitialTrade, Channel, Heard, MakerProgress, TakerProgress, Evidence,
         Checked, Early
<1> QED BY <1>2, <1>3 DEF IInv

\* Steps of the world, and of a bot that neither sends nor moves its copy.
LEMMA InvWorld ==
    ASSUME IInv, UNCHANGED <<net, makerTrade, takerTrade, receipts>>,
           \/ MakerReady \/ MakerTermsFail \/ MakerLock \/ MakerFails \/ MakerCrash
           \/ MakerRefund \/ TakerReadySent \/ TakerAcceptSent \/ TakerVerifies
           \/ TakerPays \/ TakerClaims \/ TakerFails \/ TakerTimeout
           \/ TakerCrash \/ TakerRecover \/ PaymentSettles \/ PaymentFails \/ Tick
    PROVE  IInv'
<1> USE DEF IInv, TypeOK, world, makerVars, takerVars
<1>r. RecordType'
  BY DEF RecordType
<1>1. CASE MakerReady \/ MakerTermsFail \/ MakerFails \/ MakerCrash
  <2>1. /\ UNCHANGED <<now, chain, ln, takerPc>>
        /\ makerPc' # makerPc => makerPc' = "stopped" /\ makerPc \in {"invoice", "lock", "prove"}
        /\ fetching' \in 0..LastReady \cup {None}
        /\ makerIn' \in {makerIn, "down"}
    <3>1. CASE MakerReady
      BY <3>1, SettlementAssumption DEF WorldType, MakerReady
    <3>2. CASE MakerTermsFail
      BY <3>2 DEF WorldType, MakerTermsFail
    <3>3. CASE MakerFails
      BY <3>3 DEF WorldType, MakerFails
    <3>4. CASE MakerCrash
      BY <3>4 DEF WorldType, MakerCrash
    <3> QED BY <1>1, <3>1, <3>2, <3>3, <3>4
  <2>2. WorldType'
    BY <2>1 DEF WorldType, MakerPoint
  <2>3. Channel' /\ Heard'
    BY <2>1 DEF Channel, Heard
  <2>4. MakerProgress'
    BY <2>1 DEF MakerProgress
  <2>5. TakerProgress' /\ Evidence' /\ Checked'
    BY <2>1 DEF TakerProgress, Evidence, Checked
  <2> QED BY <1>r, <2>2, <2>3, <2>4, <2>5
<1>2. CASE TakerReadySent \/ TakerAcceptSent \/ TakerVerifies \/ TakerFails
            \/ TakerTimeout \/ TakerCrash
  <2>1. /\ UNCHANGED <<now, chain, ln, makerPc, fetching, makerIn>>
        /\ \/ takerPc' = "dead"
           \/ takerPc = "ready" /\ takerPc' = "terms"
           \/ takerPc = "sending" /\ takerPc' = "invoice"
           \/ takerPc = "verify" /\ takerPc' = "check" /\ OnChainOK
    BY <1>2 DEF TakerReadySent, TakerAcceptSent, TakerVerifies, TakerFails, TakerTimeout,
                TakerCrash
  <2>2. WorldType'
    BY <2>1 DEF WorldType, TakerPoint, Early
  <2>3. Channel' /\ Heard' /\ MakerProgress' /\ Evidence'
    BY <2>1 DEF Channel, Heard, MakerProgress, Evidence
  <2>4. TakerProgress'
    BY <2>1 DEF TakerProgress, Early
  <2>5. Checked'
    BY <2>1 DEF Checked, OnChainOK
  <2> QED BY <1>r, <2>2, <2>3, <2>4, <2>5
<1>3. CASE MakerLock
  <2>1. makerTrade.terms.refundAfter \in Nat
    <3>1. makerTrade.terms \in Offers
      BY <1>3 DEF RecordType, Sound, Copy, MakerProgress, MakerLock
    <3> QED BY <3>1, SettlementAssumption DEF Offers, OfferOf
  <2>2. /\ UNCHANGED <<now, ln, takerPc, fetching, makerIn>>
        /\ makerPc = "lock" /\ makerPc' = "prove" /\ chain.status = "none"
        /\ chain' = [status |-> "locked", after |-> makerTrade.terms.refundAfter]
    BY <1>3 DEF MakerLock, MakerProgress
  <2>3. WorldType'
    BY <2>1, <2>2 DEF WorldType, MakerPoint
  <2>4. Channel' /\ Heard'
    BY <2>2 DEF Channel, Heard
  <2>5. MakerProgress' /\ TakerProgress'
    BY <2>2 DEF MakerProgress, TakerProgress
  <2>6. Evidence' /\ Checked'
    BY <2>2 DEF Evidence, Checked
  <2> QED BY <1>r, <2>3, <2>4, <2>5, <2>6
<1>4. CASE MakerRefund
  <2>1. /\ UNCHANGED <<now, ln, makerPc, fetching, makerIn, takerPc>>
        /\ chain.status = "locked" /\ now >= chain.after
        /\ chain' = [chain EXCEPT !.status = "refunded"]
    BY <1>4 DEF MakerRefund
  <2>2. chain'.status = "refunded" /\ chain'.after = chain.after
    BY <2>1 DEF WorldType
  <2>3. WorldType'
    BY <2>1 DEF WorldType
  <2>4. Channel' /\ Heard'
    BY <2>1, <2>2 DEF Channel, Heard
  <2>5. MakerProgress' /\ TakerProgress'
    BY <2>1, <2>2 DEF MakerProgress, TakerProgress
  <2>6. Evidence' /\ Checked'
    BY <2>1, <2>2 DEF Evidence, Checked
  <2> QED BY <1>r, <2>3, <2>4, <2>5, <2>6
<1>5. CASE TakerPays
  <2>1. /\ UNCHANGED <<now, chain, makerPc, fetching, makerIn>>
        /\ takerPc = "check"
        /\ \/ takerPc' = "dead" /\ UNCHANGED ln
           \/ takerPc' = "paying" /\ ln' = [status |-> "inflight", since |-> now]
    BY <1>5 DEF TakerPays
  <2>2. ln.status = "none"
    BY <2>1 DEF TakerProgress, Early
  <2>3. WorldType'
    BY <2>1 DEF WorldType, TakerPoint
  <2>4. Channel' /\ Heard'
    BY <2>1, <2>2 DEF Channel, Heard
  <2>5. MakerProgress' /\ TakerProgress'
    BY <2>1 DEF MakerProgress, TakerProgress, Early
  <2>6. Evidence' /\ Checked'
    BY <2>1, <2>2 DEF Evidence, Checked
  <2> QED BY <1>r, <2>3, <2>4, <2>5, <2>6
<1>6. CASE TakerClaims \/ TakerRecover
  <2>1. /\ UNCHANGED <<now, ln, makerPc, fetching, makerIn>>
        /\ chain.status = "locked" /\ chain' = [chain EXCEPT !.status = "claimed"]
        /\ \/ takerPc = "claim" /\ takerPc' = "tell"
           \/ takerPc = "dead" /\ takerPc' = "dead" /\ "preimage" \in receipts.taker
    BY <1>6 DEF TakerClaims, TakerRecover, Recoverable
  <2>2. /\ chain'.status = "claimed" /\ chain'.after = chain.after
        /\ ln.status = "paid"
    BY <2>1 DEF WorldType, TakerProgress, Evidence
  <2>3. WorldType'
    BY <2>1 DEF WorldType, TakerPoint
  <2>4. Channel' /\ Heard'
    BY <2>1, <2>2 DEF Channel, Heard
  <2>5. MakerProgress' /\ TakerProgress'
    BY <2>1, <2>2 DEF MakerProgress, TakerProgress, Early
  <2>6. Evidence' /\ Checked'
    BY <2>1, <2>2 DEF Evidence, Checked
  <2> QED BY <1>r, <2>3, <2>4, <2>5, <2>6
<1>7. CASE PaymentSettles \/ PaymentFails
  <2>1. /\ UNCHANGED <<now, chain, makerPc, fetching, makerIn, takerPc>>
        /\ ln.status = "inflight"
        /\ ln' \in {[ln EXCEPT !.status = "paid"], [ln EXCEPT !.status = "failed"]}
    BY <1>7 DEF PaymentSettles, PaymentFails
  <2>2. ln'.status \in {"paid", "failed"}
    BY <2>1 DEF WorldType
  <2>3. WorldType'
    BY <2>1 DEF WorldType
  <2>4. Channel' /\ Heard'
    BY <2>1 DEF Channel, Heard
  <2>5. MakerProgress' /\ TakerProgress'
    BY <2>1, <2>2 DEF MakerProgress, TakerProgress
  <2>6. Evidence' /\ Checked'
    BY <2>1, <2>2 DEF Evidence, Checked
  <2> QED BY <1>r, <2>3, <2>4, <2>5, <2>6
<1>8. CASE Tick
  <2>1. now' = now + 1 /\ UNCHANGED <<chain, ln, makerPc, fetching, makerIn, takerPc>>
    BY <1>8 DEF Tick
  <2>2. WorldType'
    BY <2>1 DEF WorldType
  <2>3. Channel' /\ Heard' /\ MakerProgress'
    BY <2>1 DEF Channel, Heard, MakerProgress
  <2>4. TakerProgress' /\ Checked'
    BY <2>1 DEF TakerProgress, Checked
  <2>5. Evidence'
    BY <2>1 DEF Evidence, WorldType
  <2> QED BY <1>r, <2>2, <2>3, <2>4, <2>5
<1> QED BY <1>1, <1>2, <1>3, <1>4, <1>5, <1>6, <1>7, <1>8

\* A bot or an operator speaks and its copy stays, or a receipt is written.
LEMMA InvSpeaks ==
    ASSUME IInv, UNCHANGED <<makerTrade, takerTrade>>,
           MakerTimeout \/ TakerTells \/ OperatorCancels \/ TakerRecords
    PROVE  IInv'
<1> USE DEF IInv, world, makerVars, takerVars
<1>0. now \in Nat
  BY DEF TypeOK, WorldType, RecordType
<1>1. CASE TakerRecords
  <2>1. TypeOK' /\ Channel' /\ MakerProgress' /\ Checked'
    BY <1>1 DEF TypeOK, WorldType, RecordType, TakerPoint, Early, Record, Channel,
                MakerProgress, Checked, TakerRecords
  <2>2. Heard' /\ TakerProgress' /\ Evidence'
    BY <1>1 DEF TypeOK, WorldType, RecordType, Record, Heard, TakerProgress, Early,
                Evidence, TakerRecords
  <2> QED BY <2>1, <2>2
<1>2. CASE MakerTimeout \/ TakerTells \/ OperatorCancels
  <2>1. PICK m : /\ net' = net \cup {m} /\ WellFormed(m)
                 /\ \/ m.kind = "CANCEL"
                    \/ m.kind = "CLAIMED" /\ chain.status = "claimed"
    <3>1. CASE MakerTimeout
      <4> DEFINE a == Msg("CANCEL", "maker", "timeout")
      <4>1. a.kind = "CANCEL" /\ a.signer = "maker" /\ a.body = "timeout" /\ a.ts \in Nat
        BY <1>0, MsgParts
      <4>2. net' = net \cup {a}
        BY <3>1 DEF MakerTimeout, Send
      <4> HIDE DEF a
      <4> QED BY <4>1, <4>2 DEF WellFormed, Is
    <3>2. CASE TakerTells
      <4> DEFINE a == Msg("CLAIMED", "taker", [hash |-> "hash", id |-> "id", tx |-> "claim"])
      <4>1. a.kind = "CLAIMED" /\ a.signer = "taker" /\ a.body \in Claims /\ a.ts \in Nat
        BY <1>0, MsgParts DEF Claims
      <4>2. net' = net \cup {a} /\ chain.status = "claimed"
        BY <3>2 DEF TakerTells, Send, TakerProgress
      <4> HIDE DEF a
      <4> QED BY <4>1, <4>2 DEF WellFormed, Is
    <3>3. CASE OperatorCancels
      <4> DEFINE a == Msg("CANCEL", "taker", "operator")
      <4>1. a.kind = "CANCEL" /\ a.signer = "taker" /\ a.body = "operator" /\ a.ts \in Nat
        BY <1>0, MsgParts
      <4>2. net' = net \cup {a}
        BY <3>3 DEF OperatorCancels, Send
      <4> HIDE DEF a
      <4> QED BY <4>1, <4>2 DEF WellFormed, Is
    <3> QED BY <1>2, <3>1, <3>2, <3>3
  <2>2. /\ UNCHANGED <<now, chain, ln, makerTrade, makerPc, fetching, takerTrade, receipts>>
        /\ makerIn' \in {"swap", "left", "down"}
        /\ takerPc' # takerPc => takerPc = "tell" /\ takerPc' = "done"
    BY <1>2 DEF MakerTimeout, TakerTells, OperatorCancels, TypeOK, WorldType, RecordType
  <2>3. TypeOK'
    BY <2>1, <2>2 DEF TypeOK, WorldType, RecordType, TakerPoint, Early
  <2>4. Channel' /\ Heard' /\ MakerProgress'
    BY <2>1, <2>2 DEF Channel, Heard, MakerProgress
  <2>5. TakerProgress' /\ Evidence' /\ Checked'
    BY <2>2 DEF TakerProgress, Early, Evidence, Checked
  <2> QED BY <2>3, <2>4, <2>5
<1> QED BY <1>1, <1>2

\* The maker's copy moves.
LEMMA InvMaker ==
    ASSUME IInv, MakerTerms \/ MakerAccept \/ MakerHears \/ MakerInvoice \/ MakerProves
    PROVE  IInv'
<1> USE DEF IInv, world, makerVars, takerVars
<1>0. now \in Nat /\ Sound(makerTrade) /\ None \notin Nat
  BY SettlementAssumption DEF TypeOK, WorldType, RecordType
<1>u. UNCHANGED <<now, chain, ln, takerTrade, takerPc>>
  BY DEF MakerTerms, MakerAccept, MakerHears, MakerInvoice, MakerProves
<1>1. CASE MakerTerms
  <2> DEFINE m == Msg("TERMS", "maker", OfferOf(fetching))
  <2>0. OfferOf(fetching) \in Offers
    <3>1. fetching \in 0..LastReady
      BY <1>1 DEF MakerTerms, TypeOK, WorldType, RecordType
    <3> QED BY <3>1 DEF Offers
  <2>1. m.kind = "TERMS" /\ m.signer = "maker" /\ m.body \in Offers /\ m.ts \in Nat
    BY <1>0, <2>0, MsgParts
  <2>2. WellFormed(m)
    BY <2>1 DEF WellFormed, Is
  <2>3. /\ UNCHANGED <<makerPc, makerIn, receipts>> /\ fetching' = None
        /\ \/ UNCHANGED <<makerTrade, net>>
           \/ /\ Accepts(makerTrade, m) /\ makerTrade' = After(makerTrade, m)
              /\ net' = net \cup {m}
    BY <1>1 DEF MakerTerms, Send
  <2> HIDE DEF m
  <2>4. Sound(makerTrade') /\ \A x \in net' : WellFormed(x)
    BY <1>0, <2>2, <2>3, AfterWritten DEF TypeOK, WorldType, RecordType
  <2>5. TypeOK'
    BY <1>u, <2>3, <2>4 DEF TypeOK, WorldType, RecordType
  <2>6. makerTrade' = makerTrade \/ Written(makerTrade, m, makerTrade')
    BY <1>0, <2>2, <2>3, AfterWritten
  <2>7. /\ makerTrade'.accepted_at = makerTrade.accepted_at
        /\ makerTrade.accepted_at # None => makerTrade'.terms_hash = makerTrade.terms_hash
        /\ makerTrade'.invoice = makerTrade.invoice /\ makerTrade'.escrow = makerTrade.escrow
        /\ makerTrade'.ln_paid = makerTrade.ln_paid /\ makerTrade'.claimed = makerTrade.claimed
    BY <2>1, <2>6 DEF Written
  <2>8. Channel' /\ Heard' /\ MakerProgress'
    BY <1>u, <2>1, <2>3, <2>7 DEF Channel, Heard, MakerProgress
  <2>9. TakerProgress' /\ Evidence' /\ Checked'
    BY <1>u, <2>3 DEF TakerProgress, Evidence, Checked
  <2> QED BY <2>5, <2>8, <2>9
<1>2. CASE MakerAccept
  <2>1. PICK m \in net : /\ m.kind = "ACCEPT" /\ Accepts(makerTrade, m)
                         /\ ~(makerTrade.state = "accepted" /\ makerPc # "idle")
                         /\ makerTrade' = After(makerTrade, m)
    BY <1>2 DEF MakerAccept, Sent
  <2>2. /\ UNCHANGED <<net, fetching, makerIn, receipts>>
        /\ makerPc' = IF makerTrade'.state = "accepted" THEN "invoice" ELSE makerPc
    BY <1>2 DEF MakerAccept
  <2>3. WellFormed(m)
    BY <2>1 DEF TypeOK, WorldType, RecordType
  <2>4. Sound(makerTrade') /\ Written(makerTrade, m, makerTrade')
    BY <1>0, <2>1, <2>3, AfterWritten
  <2>5. TypeOK'
    BY <1>u, <2>2, <2>4 DEF TypeOK, WorldType, RecordType, MakerPoint
  <2>6. Channel' /\ Heard'
    BY <1>u, <2>1, <2>2, <2>4 DEF Channel, Heard, Written
  <2>7. MakerProgress'
    <3>1. CASE makerTrade.state = "terms"
      <4>1. makerTrade' = [makerTrade EXCEPT !.state = "accepted", !.accepted_at = m.ts]
        BY <2>1, <3>1 DEF After, AfterAccept
      <4>2. makerTrade'.state = "accepted" /\ makerTrade'.accepted_at = m.ts /\ m.ts \in Nat
        BY <1>0, <2>3, <4>1, WellFormedParts DEF Sound, Copy
      <4>3. makerPc = "idle"
        BY <1>0, <3>1 DEF Sound, Open, MakerProgress
      <4> QED BY <1>0, <1>u, <2>1, <2>2, <2>4, <4>2, <4>3 DEF MakerProgress, Written
    <3>2. CASE makerTrade.state # "terms"
      <4>1. makerTrade' = makerTrade
        BY <2>1, <3>2 DEF After, AfterAccept
      <4>2. makerTrade.state # "accepted"
        BY <1>0, <2>1 DEF Sound, State, Open, Final, MakerProgress
      <4> QED BY <1>u, <2>2, <4>1, <4>2 DEF MakerProgress
    <3> QED BY <3>1, <3>2
  <2>9. TakerProgress' /\ Evidence' /\ Checked'
    BY <1>u, <2>2 DEF TakerProgress, Evidence, Checked
  <2> QED BY <2>5, <2>6, <2>7, <2>9
<1>3. CASE MakerHears
  <2>1. PICK m \in net : /\ m.kind \in {"LN_PAID", "CLAIMED", "CANCEL"}
                         /\ Accepts(makerTrade, m) /\ makerTrade' = After(makerTrade, m)
    BY <1>3 DEF MakerHears, Sent
  <2>2. UNCHANGED <<net, makerPc, fetching, receipts>> /\ makerIn' \in {"left", makerIn}
    BY <1>3 DEF MakerHears
  <2>3. Sound(makerTrade') /\ Written(makerTrade, m, makerTrade')
    BY <1>0, <2>1, AfterWritten DEF TypeOK, WorldType, RecordType
  <2>4. TypeOK'
    BY <1>u, <2>2, <2>3 DEF TypeOK, WorldType, RecordType
  <2>5. /\ makerTrade'.accepted_at = makerTrade.accepted_at
        /\ makerTrade.accepted_at # None => makerTrade'.terms_hash = makerTrade.terms_hash
        /\ makerTrade'.invoice = makerTrade.invoice /\ makerTrade'.escrow = makerTrade.escrow
        /\ makerTrade'.ln_paid = makerTrade.ln_paid \/ m.kind = "LN_PAID"
        /\ makerTrade'.claimed = makerTrade.claimed \/ m.kind = "CLAIMED"
    BY <2>1, <2>3 DEF Written
  <2>6. Channel' /\ Heard' /\ MakerProgress'
    BY <1>u, <2>1, <2>2, <2>5 DEF Channel, Heard, MakerProgress
  <2>7. TakerProgress' /\ Evidence' /\ Checked'
    BY <1>u, <2>2 DEF TakerProgress, Evidence, Checked
  <2> QED BY <2>4, <2>6, <2>7
<1>4. CASE MakerInvoice
  <2> DEFINE m == Msg("LN_INVOICE", "maker",
                      [hash |-> "hash", bolt11 |-> "bolt11", amount |-> 1000,
                       expires |-> now + InvoiceExpiry])
  <2>1. m.kind = "LN_INVOICE" /\ m.signer = "maker" /\ m.body \in Invoices /\ m.ts \in Nat
    BY <1>0, MsgParts, SettlementAssumption DEF Invoices
  <2>2. WellFormed(m)
    BY <2>1 DEF WellFormed, Is
  <2>3. /\ makerPc = "invoice" /\ UNCHANGED <<makerIn, fetching>>
        /\ \/ /\ makerPc' = "stopped" /\ UNCHANGED <<makerTrade, receipts, net>>
           \/ /\ Accepts(makerTrade, m) /\ makerTrade' = After(makerTrade, m)
              /\ net' = net \cup {m} /\ makerPc' = "lock"
              /\ receipts' = [receipts EXCEPT !.maker = @ \cup BeforeLock]
    BY <1>4 DEF MakerInvoice, Send, Record
  <2>4. /\ receipts' \in [maker : SUBSET {"hash", "id"},
                         taker : SUBSET {"hash", "id", "preimage"}]
        /\ receipts'.taker = receipts.taker
    BY <2>3 DEF TypeOK, WorldType, RecordType, BeforeLock
  <2> HIDE DEF m
  <2>5. CASE UNCHANGED <<makerTrade, net>> /\ makerPc' = "stopped"
    <3>1. TypeOK'
      BY <1>0, <1>u, <2>3, <2>4, <2>5 DEF TypeOK, WorldType, RecordType, MakerPoint
    <3>2. Channel' /\ Heard' /\ MakerProgress'
      BY <1>u, <2>3, <2>4, <2>5 DEF Channel, Heard, MakerProgress
    <3>3. TakerProgress' /\ Evidence' /\ Checked'
      BY <1>u, <2>4 DEF TakerProgress, Evidence, Checked
    <3> QED BY <3>1, <3>2, <3>3
  <2>6. CASE /\ Accepts(makerTrade, m) /\ makerTrade' = After(makerTrade, m)
             /\ net' = net \cup {m} /\ makerPc' = "lock"
    <3>1. Sound(makerTrade') /\ Written(makerTrade, m, makerTrade')
      BY <1>0, <2>2, <2>6, AfterWritten
    <3>2. makerTrade.invoice = None /\ takerTrade.invoice = None /\ makerTrade.escrow = None
      BY <2>3 DEF MakerProgress, Heard
    <3>3. TypeOK'
      BY <1>u, <2>2, <2>3, <2>4, <2>6, <3>1 DEF TypeOK, WorldType, RecordType, MakerPoint
    <3>4. /\ makerTrade'.accepted_at = makerTrade.accepted_at
          /\ makerTrade.accepted_at # None => makerTrade'.terms_hash = makerTrade.terms_hash
          /\ makerTrade'.invoice = m.body /\ makerTrade'.escrow = makerTrade.escrow
          /\ makerTrade'.ln_paid = makerTrade.ln_paid /\ makerTrade'.claimed = makerTrade.claimed
      BY <2>1, <3>1, <3>2 DEF Written
    <3>5. Channel'
      BY <1>u, <2>1, <2>3, <2>6, <3>4 DEF Channel, MakerProgress
    <3>6. Heard'
      BY <1>u, <2>4, <3>2, <3>4 DEF Heard
    <3>7. MakerProgress'
      BY <1>u, <2>1, <2>3, <2>6, <3>4 DEF MakerProgress
    <3>8. TakerProgress' /\ Evidence' /\ Checked'
      BY <1>u, <2>4 DEF TakerProgress, Evidence, Checked
    <3> QED BY <3>3, <3>5, <3>6, <3>7, <3>8
  <2> QED BY <2>3, <2>5, <2>6
<1>5. CASE MakerProves
  <2> DEFINE m == Msg("ESCROW", "maker",
                      [hash |-> "hash", deal |-> "deal", id |-> "id", tx |-> "lock",
                       refundAfter |-> makerTrade.terms.refundAfter])
  <2>1. m.kind = "ESCROW" /\ m.signer = "maker" /\ m.body \in Escrows /\ m.ts \in Nat
    <3>1. makerTrade.terms \in Offers
      BY <1>0, <1>5 DEF Sound, Copy, MakerProgress, MakerProves
    <3>2. makerTrade.terms.refundAfter \in Nat
      BY <3>1, SettlementAssumption DEF Offers, OfferOf
    <3> QED BY <1>0, <3>2, MsgParts DEF Escrows
  <2>2. WellFormed(m)
    BY <2>1 DEF WellFormed, Is
  <2>3. /\ makerPc = "prove" /\ UNCHANGED <<makerIn, fetching>>
        /\ \/ /\ makerPc' = "stopped" /\ UNCHANGED <<makerTrade, receipts, net>>
           \/ /\ Accepts(makerTrade, m) /\ makerTrade' = After(makerTrade, m)
              /\ net' = net \cup {m} /\ makerPc' = "shown"
              /\ receipts' = [receipts EXCEPT !.maker = @ \cup {"hash", "id"}]
    BY <1>5 DEF MakerProves, Send, Record
  <2>4. /\ receipts' \in [maker : SUBSET {"hash", "id"},
                         taker : SUBSET {"hash", "id", "preimage"}]
        /\ receipts'.taker = receipts.taker
    BY <2>3 DEF TypeOK, WorldType, RecordType
  <2> HIDE DEF m
  <2>5. CASE UNCHANGED <<makerTrade, net>> /\ makerPc' = "stopped"
    <3>1. TypeOK'
      BY <1>0, <1>u, <2>3, <2>4, <2>5 DEF TypeOK, WorldType, RecordType, MakerPoint
    <3>2. Channel' /\ Heard' /\ MakerProgress'
      BY <1>u, <2>3, <2>4, <2>5 DEF Channel, Heard, MakerProgress
    <3>3. TakerProgress' /\ Evidence' /\ Checked'
      BY <1>u, <2>4 DEF TakerProgress, Evidence, Checked
    <3> QED BY <3>1, <3>2, <3>3
  <2>6. CASE /\ Accepts(makerTrade, m) /\ makerTrade' = After(makerTrade, m)
             /\ net' = net \cup {m} /\ makerPc' = "shown"
    <3>1. Sound(makerTrade') /\ Written(makerTrade, m, makerTrade')
      BY <1>0, <2>2, <2>6, AfterWritten
    <3>2. makerTrade.escrow = None /\ takerTrade.escrow = None
      BY <2>3 DEF MakerProgress, Heard
    <3>3. TypeOK'
      BY <1>u, <2>2, <2>3, <2>4, <2>6, <3>1 DEF TypeOK, WorldType, RecordType, MakerPoint
    <3>4. /\ makerTrade'.accepted_at = makerTrade.accepted_at
          /\ makerTrade.accepted_at # None => makerTrade'.terms_hash = makerTrade.terms_hash
          /\ makerTrade'.escrow = m.body /\ makerTrade'.invoice = makerTrade.invoice
          /\ makerTrade'.ln_paid = makerTrade.ln_paid /\ makerTrade'.claimed = makerTrade.claimed
      BY <2>1, <3>1, <3>2 DEF Written, MakerProgress
    <3>5. Channel'
      BY <1>u, <2>1, <2>3, <2>6, <3>4 DEF Channel, MakerProgress
    <3>6. Heard'
      BY <1>u, <2>4, <3>2, <3>4 DEF Heard
    <3>7. MakerProgress'
      BY <1>u, <2>1, <2>3, <2>6, <3>4 DEF MakerProgress
    <3>8. TakerProgress' /\ Evidence' /\ Checked'
      BY <1>u, <2>4 DEF TakerProgress, Evidence, Checked
    <3> QED BY <3>3, <3>5, <3>6, <3>7, <3>8
  <2> QED BY <2>3, <2>5, <2>6
<1> QED BY <1>1, <1>2, <1>3, <1>4, <1>5

\* The taker's copy moves.
LEMMA InvTaker ==
    ASSUME IInv, TakerTerms \/ TakerHears \/ TakerPaid
    PROVE  IInv'
<1> USE DEF IInv, world, makerVars, takerVars
<1>0. now \in Nat /\ Sound(takerTrade) /\ None \notin Nat
  BY SettlementAssumption DEF TypeOK, WorldType, RecordType
<1>u. UNCHANGED <<now, chain, ln, makerTrade, makerPc, fetching, makerIn>>
  BY DEF TakerTerms, TakerHears, TakerReceives, TakerPaid
<1>1. CASE TakerTerms
  <2>1. takerPc = "terms" /\ takerTrade.accepted_at = None /\ UNCHANGED receipts
    BY <1>1 DEF TakerTerms, TakerProgress
  <2>2. /\ makerTrade.accepted_at = None /\ ln.status = "none"
        /\ \A x \in net : x.kind # "ACCEPT"
    BY <2>1 DEF Heard, TakerProgress, Early, Channel
  <2> DEFINE t(m) == Apply(takerTrade, m)
             a(m) == Msg("ACCEPT", "taker", [terms_hash |-> HashOf(m)])
  <2>3. PICK m \in net :
            /\ m.kind = "TERMS"
            /\ IF Accepts(t(m), a(m))
               THEN /\ takerTrade' = After(t(m), a(m)) /\ net' = net \cup {a(m)}
                    /\ takerPc' = "sending"
               ELSE takerTrade' = t(m) /\ takerPc' = "dead" /\ UNCHANGED net
    BY <1>1 DEF TakerTerms, Sent, Send
  <2>4. WellFormed(m) /\ m.kind = "TERMS"
    BY <2>3 DEF TypeOK, WorldType, RecordType
  <2>5. HashOf(m) \in Hashes
    BY <2>4, WellFormedParts DEF HashOf, Hashes
  <2>6. /\ a(m).kind = "ACCEPT" /\ a(m).signer = "taker" /\ a(m).ts \in Nat
        /\ a(m).body = [terms_hash |-> HashOf(m)]
    BY <1>0, MsgParts
  <2>7. Sound(t(m)) /\ (t(m) = takerTrade \/ Written(takerTrade, m, t(m)))
    BY <1>0, <2>4, ApplyWritten
  <2>8. /\ t(m).accepted_at = None
        /\ t(m).invoice = takerTrade.invoice /\ t(m).escrow = takerTrade.escrow
    BY <2>1, <2>4, <2>7 DEF Written
  <2> HIDE DEF a, t
  <2>9. WellFormed(a(m)) /\ a(m).body.terms_hash = HashOf(m)
    BY <2>5, <2>6 DEF WellFormed, Is
  <2>10. CASE Accepts(t(m), a(m))
    <3>1. Sound(takerTrade') /\ Written(t(m), a(m), takerTrade')
      BY <2>3, <2>7, <2>9, <2>10, AfterWritten
    <3>2. takerTrade'.accepted_at # None
      <4>1. t(m).terms # None /\ t(m).state # "canceled"
        BY <2>6, <2>10 DEF Accepts, CanAccept
      <4>2. t(m).state = "terms"
        BY <2>7, <2>8, <4>1 DEF Sound, Copy, State, Open, Final
      <4>3. takerTrade' = [t(m) EXCEPT !.state = "accepted", !.accepted_at = a(m).ts]
        BY <2>3, <2>6, <2>10, <4>2 DEF After, AfterAccept
      <4>4. takerTrade'.accepted_at = a(m).ts
        BY <2>7, <4>3 DEF Sound, Copy
      <4> QED BY <1>0, <2>6, <4>4
    <3>3. /\ takerTrade'.terms_hash = a(m).body.terms_hash
          /\ takerTrade'.invoice = takerTrade.invoice /\ takerTrade'.escrow = takerTrade.escrow
      BY <2>6, <2>8, <3>1, <3>2 DEF Written
    <3>4. net' = net \cup {a(m)} /\ takerPc' = "sending"
      BY <2>3, <2>10
    <3>5. TypeOK'
      BY <1>u, <2>1, <2>9, <3>1, <3>4 DEF TypeOK, WorldType, RecordType, TakerPoint, Early
    <3>6. Channel' /\ Heard' /\ MakerProgress'
      BY <1>u, <2>1, <2>2, <2>6, <3>2, <3>3, <3>4 DEF Channel, Heard, MakerProgress
    <3>7. TakerProgress' /\ Evidence' /\ Checked'
      BY <1>u, <2>1, <2>2, <3>2, <3>3, <3>4 DEF TakerProgress, Evidence, Checked
    <3> QED BY <3>5, <3>6, <3>7
  <2>11. CASE ~Accepts(t(m), a(m))
    <3>1. takerTrade' = t(m) /\ takerPc' = "dead" /\ UNCHANGED net
      BY <2>3, <2>11
    <3>2. TypeOK'
      BY <1>u, <2>1, <2>7, <3>1 DEF TypeOK, WorldType, RecordType, TakerPoint
    <3>3. Channel' /\ Heard' /\ MakerProgress'
      BY <1>u, <2>1, <2>2, <2>8, <3>1 DEF Channel, Heard, MakerProgress
    <3>4. TakerProgress' /\ Evidence' /\ Checked'
      BY <1>u, <2>1, <2>2, <2>8, <3>1 DEF TakerProgress, Early, Evidence, Checked
    <3> QED BY <3>2, <3>3, <3>4
  <2> QED BY <2>10, <2>11
<1>2. CASE TakerHears
  <2>1. PICK m \in net : m.signer = "maker" /\ TakerReceives(m)
    BY <1>2 DEF TakerHears, Sent
  <2>2. WellFormed(m) /\ m.kind # "ACCEPT" /\ m.kind # "LN_PAID"
    <3>1. WellFormed(m)
      BY DEF TypeOK, WorldType, RecordType
    <3> QED BY <2>1, <3>1, WellFormedParts
  <2>3. /\ takerTrade' = Apply(takerTrade, m) /\ UNCHANGED net
        /\ Accepts(takerTrade, m) =>
              receipts' = [receipts EXCEPT !.taker = @ \cup Checkpoint(m.kind)]
        /\ receipts' = receipts
              \/ receipts' = [receipts EXCEPT !.taker = @ \cup Checkpoint(m.kind)]
        /\ \/ takerPc' = takerPc
           \/ takerPc = "invoice" /\ takerPc' = "escrow"
           \/ takerPc = "escrow" /\ takerPc' = "verify"
    BY <2>1 DEF TakerReceives, Record
  <2>4. /\ receipts' \in [maker : SUBSET {"hash", "id"},
                         taker : SUBSET {"hash", "id", "preimage"}]
        /\ receipts.taker \subseteq receipts'.taker
        /\ "preimage" \in receipts'.taker => "preimage" \in receipts.taker
        /\ Accepts(takerTrade, m) /\ m.kind = "LN_INVOICE" => "hash" \in receipts'.taker
        /\ Accepts(takerTrade, m) /\ m.kind = "ESCROW" => "id" \in receipts'.taker
    BY <2>3 DEF TypeOK, WorldType, RecordType, Checkpoint
  <2>5. /\ Sound(takerTrade')
        /\ takerTrade' = takerTrade
              \/ (Accepts(takerTrade, m) /\ Written(takerTrade, m, takerTrade'))
    BY <1>0, <2>2, <2>3, ApplyWritten
  <2>6. TypeOK'
    BY <1>u, <2>3, <2>4, <2>5 DEF TypeOK, WorldType, RecordType, TakerPoint, Early
  <2>7. /\ takerTrade'.accepted_at = takerTrade.accepted_at
        /\ takerTrade.accepted_at # None => /\ takerTrade'.terms_hash = takerTrade.terms_hash
                                            /\ takerTrade'.terms = takerTrade.terms
        /\ takerTrade.invoice # None => takerTrade'.invoice = takerTrade.invoice
        /\ takerTrade.escrow # None => takerTrade'.escrow = takerTrade.escrow
    BY <2>2, <2>5 DEF Written
  <2>8. Channel' /\ MakerProgress'
    BY <1>u, <2>3, <2>7 DEF Channel, MakerProgress
  <2>9. Heard'
    <3>1. takerTrade'.invoice # None =>
             takerTrade'.invoice = makerTrade.invoice /\ "hash" \in receipts'.taker
      BY <2>4, <2>5, <2>7 DEF Heard, Channel, Written
    <3>2. takerTrade'.escrow # None =>
             takerTrade'.escrow = makerTrade.escrow /\ "id" \in receipts'.taker
      BY <2>4, <2>5, <2>7 DEF Heard, Channel, Written
    <3> QED BY <1>u, <2>7, <3>1, <3>2 DEF Heard
  <2>10. TakerProgress'
    BY <1>u, <2>3, <2>7 DEF TakerProgress, Early
  <2>11. Evidence'
    BY <1>u, <2>4, <2>7 DEF Evidence
  <2>12. Checked'
    BY <1>u, <2>3, <2>7 DEF Checked, TakerProgress
  <2> QED BY <2>6, <2>8, <2>9, <2>10, <2>11, <2>12
<1>3. CASE TakerPaid
  <2> DEFINE m == Msg("LN_PAID", "taker", [hash |-> "hash"])
  <2>1. /\ m.kind = "LN_PAID" /\ m.signer = "taker" /\ m.ts \in Nat
        /\ m.body = [hash |-> "hash"]
    BY <1>0, MsgParts
  <2>2. /\ takerPc = "paying" /\ ln.status = "paid" /\ UNCHANGED receipts
        /\ \/ /\ Accepts(takerTrade, m) /\ takerTrade' = After(takerTrade, m)
              /\ net' = net \cup {m} /\ takerPc' = "record"
           \/ takerTrade' = takerTrade /\ net' = net /\ takerPc' = "dead"
    BY <1>3 DEF TakerPaid, Send
  <2> HIDE DEF m
  <2>3. WellFormed(m)
    BY <2>1 DEF WellFormed, Is
  <2>4. Sound(takerTrade') /\ (takerTrade' = takerTrade \/ Written(takerTrade, m, takerTrade'))
    BY <1>0, <2>2, <2>3, AfterWritten
  <2>5. TypeOK'
    BY <1>u, <2>2, <2>3, <2>4 DEF TypeOK, WorldType, RecordType, TakerPoint
  <2>6. /\ takerTrade.accepted_at # None /\ takerTrade'.accepted_at = takerTrade.accepted_at
        /\ takerTrade'.terms_hash = takerTrade.terms_hash
        /\ takerTrade'.terms = takerTrade.terms
        /\ takerTrade'.invoice = takerTrade.invoice /\ takerTrade'.escrow = takerTrade.escrow
    BY <2>1, <2>2, <2>4 DEF Written, TakerProgress
  <2>7. Channel' /\ Heard' /\ MakerProgress'
    BY <1>u, <2>1, <2>2, <2>6 DEF Channel, Heard, MakerProgress
  <2>8. TakerProgress' /\ Evidence' /\ Checked'
    BY <1>u, <2>2, <2>6 DEF TakerProgress, Early, Evidence, Checked
  <2> QED BY <2>5, <2>7, <2>8
<1> QED BY <1>1, <1>2, <1>3

-----------------------------------------------------------------------------
LEMMA InvStep == IInv /\ [Next]_vars => IInv'
<1> SUFFICES ASSUME IInv, [Next]_vars PROVE IInv'
  OBVIOUS
<1>1. CASE \/ MakerReady \/ MakerTermsFail \/ MakerLock \/ MakerFails \/ MakerCrash
            \/ MakerRefund \/ TakerReadySent \/ TakerAcceptSent \/ TakerVerifies
            \/ TakerPays \/ TakerClaims \/ TakerFails \/ TakerTimeout
            \/ TakerCrash \/ TakerRecover \/ PaymentSettles \/ PaymentFails \/ Tick
  <2>1. UNCHANGED <<net, makerTrade, takerTrade, receipts>>
    BY <1>1 DEF MakerReady, MakerTermsFail, MakerLock, MakerFails, MakerCrash, MakerRefund,
                TakerReadySent, TakerAcceptSent, TakerVerifies, TakerPays, TakerClaims,
                TakerFails, TakerTimeout, TakerCrash, TakerRecover, PaymentSettles,
                PaymentFails, Tick, makerVars, takerVars
  <2> QED BY <1>1, <2>1, InvWorld
<1>2. CASE MakerTimeout \/ TakerTells \/ OperatorCancels \/ TakerRecords
  <2>1. UNCHANGED <<makerTrade, takerTrade>>
    BY <1>2 DEF MakerTimeout, TakerTells, OperatorCancels, TakerRecords, makerVars, takerVars
  <2> QED BY <1>2, <2>1, InvSpeaks
<1>3. CASE MakerTerms \/ MakerAccept \/ MakerHears \/ MakerInvoice \/ MakerProves
  BY <1>3, InvMaker
<1>4. CASE TakerTerms \/ TakerHears \/ TakerPaid
  BY <1>4, InvTaker
<1>5. CASE UNCHANGED vars
  BY <1>5 DEF vars, world, makerVars, takerVars, IInv, TypeOK, WorldType, RecordType, Channel, Heard,
              MakerProgress, TakerProgress, Evidence, Checked
<1> QED BY <1>1, <1>2, <1>3, <1>4, <1>5 DEF Next, MakerNext, TakerNext

\* Whatever is lost, late, repeated or fails, the invariant holds.
THEOREM TypeCorrect == Spec => []TypeOK
<1>1. IInv => TypeOK
  BY DEF IInv
<1> QED BY <1>1, InvInit, InvStep, PTL DEF Spec

\* Two bots that both accepted accepted the same terms, and they never hold
\* different invoices or escrows, in whatever order the messages arrive.
THEOREM TheSameDeal == Spec => []SameDeal
<1>1. IInv => SameDeal
  BY DEF IInv, Heard, SameDeal
<1> QED BY <1>1, InvInit, InvStep, PTL DEF Spec

\* The escrow is claimed only against the payment, and the maker's record of
\* the payment and of the claim is true.
THEOREM TheMakerRecordsTrue == Spec => []MakerRecordsTrue
<1>1. IInv => MakerRecordsTrue
  BY DEF IInv, Heard, Evidence, MakerRecordsTrue
<1> QED BY <1>1, InvInit, InvStep, PTL DEF Spec

\* From the moment the payment is started the taker's receipts identify the
\* payment and the escrow.
THEOREM ThePayerKnowsEscrow == Spec => []PayerKnowsEscrow
<1>1. IInv => PayerKnowsEscrow
  BY DEF IInv, Heard, Evidence, PayerKnowsEscrow
<1> QED BY <1>1, InvInit, InvStep, PTL DEF Spec

LEMMA OnlyTakerPays ==
    ASSUME Next, ln.status = "none", ln'.status = "inflight"
    PROVE  TakerPays
<1>1. CASE MakerNext
  BY <1>1 DEF MakerNext, world, MakerReady, MakerTerms, MakerTermsFail, MakerAccept,
              MakerHears, MakerInvoice, MakerLock, MakerProves, MakerFails, MakerTimeout,
              MakerCrash, MakerRefund
<1>2. CASE TakerNext
  BY <1>2 DEF TakerNext, world, TakerReadySent, TakerTerms, TakerAcceptSent, TakerHears,
              TakerReceives, TakerVerifies, TakerPaid, TakerRecords, TakerClaims, TakerTells,
              TakerFails, TakerTimeout, TakerCrash, TakerRecover, OperatorCancels
<1>3. CASE PaymentSettles \/ PaymentFails \/ Tick
  BY <1>3 DEF PaymentSettles, PaymentFails, Tick
<1> QED BY <1>1, <1>2, <1>3 DEF Next

\* "Hard rule: no escrow, no pay": although the contract was read in an
\* earlier step, it is locked, as agreed, and open long enough when the
\* payment leaves.
THEOREM NoEscrowNoPay == Spec => PaysAgainstEscrow
<1>1. IInv /\ [Next]_vars => [PaysAgainstEscrowStep]_vars
  <2> SUFFICES ASSUME IInv, Next, ln.status = "none", ln'.status = "inflight"
               PROVE  PaysAgainstEscrowStep
    BY DEF PaysAgainstEscrowStep, vars, world
  <2>1. TakerPays
    BY OnlyTakerPays
  <2>2. /\ takerPc = "check" /\ TimelockSafe /\ now <= takerTrade.invoice.expires
    BY <2>1 DEF TakerPays
  <2>3. /\ chain.status \in {"locked", "claimed", "refunded"}
        /\ chain.after = takerTrade.escrow.refundAfter
        /\ chain.after = takerTrade.terms.refundAfter
    BY <2>2 DEF IInv, TypeOK, WorldType, RecordType, Checked
  <2>4. chain.status # "claimed"
    BY DEF IInv, Evidence
  <2>5. chain.after >= now + MinRemaining
    BY <2>2, <2>3 DEF TimelockSafe
  <2>6. chain.status # "refunded"
    <3>1. /\ now \in Nat /\ MinRemaining \in Nat /\ chain.after \in Nat
          /\ takerTrade.invoice.expires \in Nat
      BY <2>2, SettlementAssumption DEF IInv, TypeOK, WorldType, RecordType, Sound, Copy,
                                        Invoices, Checked
    <3>2. chain.after > takerTrade.invoice.expires + MinRemaining
      BY <2>2, <2>3 DEF TimelockSafe
    <3> QED BY <2>2, <3>1, <3>2 DEF IInv, Evidence
  <2> QED BY <2>3, <2>4, <2>5, <2>6 DEF PaysAgainstEscrowStep
<1> QED BY <1>1, InvInit, InvStep, PTL DEF Spec, PaysAgainstEscrow

-----------------------------------------------------------------------------
\* The payment the taker waits for was started in time, and is not late.
Margin ==
    takerPc \in {"paying", "record", "claim"} =>
        /\ now <= ln.since + PayBound
        /\ chain.after > ln.since + MinRemaining

LEMMA MarginStep == IInv /\ Margin /\ [Next]_vars => Margin'
<1> SUFFICES ASSUME IInv, Margin, [Next]_vars PROVE Margin'
  OBVIOUS
<1>0. /\ now \in Nat /\ ln.since \in Nat /\ chain.after \in Nat
      /\ PayBound \in Nat /\ MinRemaining \in Nat
  BY SettlementAssumption DEF IInv, TypeOK, WorldType, RecordType
<1>1. CASE Tick
  <2>1. ln.status = "inflight" \/ takerPc \notin {"paying", "record", "claim"}
    BY <1>1 DEF Tick
  <2>2. now' = now + 1 /\ UNCHANGED <<takerPc, ln, chain>>
        /\ (ln.status = "inflight" => now < ln.since + PayBound)
    BY <1>1 DEF Tick, takerVars
  <2> QED BY <1>0, <2>1, <2>2 DEF Margin
<1>2. CASE TakerPays
  <2>1. CASE takerPc' = "paying"
    <3>1. /\ takerPc = "check" /\ TimelockSafe /\ now <= takerTrade.invoice.expires
          /\ ln' = [status |-> "inflight", since |-> now] /\ UNCHANGED <<now, chain>>
      BY <1>2, <2>1 DEF TakerPays
    <3>2. chain.after = takerTrade.escrow.refundAfter /\ takerTrade.invoice.expires \in Nat
      BY <3>1 DEF IInv, TypeOK, WorldType, RecordType, Sound, Copy, Invoices, Checked
    <3>3. chain.after > takerTrade.invoice.expires + MinRemaining
      BY <3>1, <3>2 DEF TimelockSafe
    <3>4. ln'.since = now
      BY <3>1
    <3> QED BY <1>0, <3>1, <3>2, <3>3, <3>4 DEF Margin
  <2>2. CASE takerPc' # "paying"
    BY <1>2, <2>2 DEF TakerPays, Margin
  <2> QED BY <2>1, <2>2
<1>3. CASE MakerLock
  <2>1. chain.status = "none" /\ UNCHANGED takerPc
    BY <1>3 DEF MakerLock, IInv, MakerProgress, takerVars
  <2> QED BY <2>1 DEF IInv, Checked, Margin
<1>4. CASE MakerRefund \/ TakerClaims \/ TakerRecover
  BY <1>4 DEF MakerRefund, TakerClaims, TakerRecover, Margin, makerVars, takerVars, IInv,
              TypeOK, WorldType, RecordType
<1>5. CASE PaymentSettles \/ PaymentFails
  BY <1>5 DEF PaymentSettles, PaymentFails, Margin, takerVars, IInv, TypeOK, WorldType, RecordType
<1>6. CASE /\ UNCHANGED <<now, chain, ln>>
           /\ takerPc' \in {"paying", "record", "claim"} =>
                 takerPc \in {"paying", "record", "claim"}
  BY <1>6 DEF Margin
<1>7. ASSUME MakerNext, ~MakerLock, ~MakerRefund
      PROVE  UNCHANGED <<now, chain, ln, takerPc>>
  BY <1>7 DEF MakerNext, world, takerVars, MakerReady, MakerTerms, MakerTermsFail, MakerAccept,
              MakerHears, MakerInvoice, MakerProves, MakerFails, MakerTimeout, MakerCrash
<1>8. ASSUME TakerNext, ~TakerPays, ~TakerClaims, ~TakerRecover
      PROVE  /\ UNCHANGED <<now, chain, ln>>
             /\ takerPc' \in {"paying", "record", "claim"} =>
                   takerPc \in {"paying", "record", "claim"}
  BY <1>8 DEF TakerNext, world, takerVars, TakerReadySent, TakerTerms, TakerAcceptSent,
              TakerHears, TakerReceives, TakerVerifies, TakerPaid, TakerRecords, TakerTells,
              TakerFails, TakerTimeout, TakerCrash, OperatorCancels
<1> QED BY <1>1, <1>2, <1>3, <1>4, <1>5, <1>6, <1>7, <1>8 DEF Next, vars, world, takerVars

\* A taker that is still running never finds its payment settled and the
\* escrow refunded, if a payment is resolved within the margin.
THEOREM TheRunningTakerIsSafe ==
    ASSUME PayBound <= MinRemaining
    PROVE  Spec => []RunningTakerIsSafe
<1>1. Init => Margin
  BY DEF Init, Margin
<1>2. IInv /\ Margin => RunningTakerIsSafe
  <2> SUFFICES ASSUME IInv, Margin, ln.status = "paid", chain.status = "refunded"
               PROVE  takerPc = "dead"
    BY DEF RunningTakerIsSafe
  <2>1. takerPc \in TakerPoint /\ takerPc \notin Early /\ takerPc \notin {"tell", "done"}
    BY DEF IInv, TypeOK, WorldType, RecordType, TakerProgress
  <2>2. takerPc \notin {"paying", "record", "claim"}
    <3>1. /\ now \in Nat /\ ln.since \in Nat /\ chain.after \in Nat
          /\ PayBound \in Nat /\ MinRemaining \in Nat /\ now >= chain.after
      BY SettlementAssumption DEF IInv, TypeOK, WorldType, RecordType, Evidence
    <3> QED BY <3>1 DEF Margin
  <2> QED BY <2>1, <2>2 DEF TakerPoint
<1> QED BY <1>1, <1>2, InvInit, InvStep, MarginStep, PTL DEF Spec
=============================================================================
