------------------------------ MODULE Receipts ------------------------------
(***************************************************************************)
(* One trade in one peer's receipts database: who writes its row and when, *)
(* and what the operator's tools can still do with it once the process     *)
(* that ran the trade has gone.                                            *)
(*                                                                         *)
(*  - The row is written by rfq-maker.mjs or rfq-taker.mjs (via "bot") or  *)
(*    by the tools and the recorder of the prompt executor ("daemon"), and *)
(*    beside them by swaprecover, by the recovery tools and, over TAO, by  *)
(*    swapreconcile.                                                       *)
(*  - Columns that are always filed together are one field: "sol_terms" is *)
(*    program, refund time and amount, "tao_settlement_id" comes with      *)
(*    contract, refund time and amount.                                    *)
(*  - The other peer and the chain are what this peer can see of them: the *)
(*    lock that appears, the claim or refund that ends it, the envelopes.  *)
(*    SwapSettlement has both sides of a swap.                             *)
(*  - An envelope that ends the trade may say what is not so.  The maker   *)
(*    bot takes it from the taker for the escrow it announced; the recorder*)
(*    of a daemon takes it from anybody, and over TAO files the ids and    *)
(*    the hash in it: the trade's own, or none, or ones of no lock.        *)
(*  - due says that refund_after has passed: the chain's clock and the     *)
(*    operator's are the same.                                             *)
(*  - The operator runs one recovery tool at a time, beside swapreconcile. *)
(***************************************************************************)
EXTENDS Naturals

CONSTANTS
    MaxFaults,  \* bound on crashes, restarts and failed calls
    Null

ASSUME FaultsAssumption == MaxFaults \in Nat
\* null is no settlement kind and no state of a trade.
ASSUME NullAssumption ==
    Null \notin {"solana", "tao-evm", "init", "terms", "accepted", "invoice", "locking",
                 "escrow", "ln_paid", "claimed", "refunded", "canceled"}

VARIABLES
    side,     \* which peer and program this is: [kind, role, via]
    row,      \* the trade's row: [kind, state, has]; has are the fields that hold
              \* what belongs to the trade
    told,     \* history: the ends that a daemon's recorder filed and the lock did
              \* not have, and "ids" when it filed an id or a hash not the trade's
    stage,    \* ctx.trade.state of a bot, where a daemon's trade stands
    pc,       \* where createInvoiceAndEscrow, or the taker's claim, is
    lockTx,   \* ctx.taoLockTxId is known
    inSwaps,  \* the maker bot's ctx is in swaps
    heard,    \* the proof of the lock is in the daemon's sidechannel log
    up,       \* the bot is running
    wiped,    \* an RFQ without sol_mint came after the swap began
    chain,    \* the lock: none, sent, locked, claimed or refunded
    due,      \* refund_after_unix has passed
    job,      \* the recovery tool that runs: [tool, landed]
    recon,    \* the swapreconcile that runs: [row, seen]
    faults

process == <<stage, pc, lockTx, inSwaps, heard, up, wiped>>
operator == <<job, recon>>
vars == <<side, row, told, process, chain, due, operator, faults>>

SolField == {"sol_mint", "sol_terms", "sol_escrow_pda"}
TaoField == {"tao_settlement_id", "tao_lock_tx_id", "tao_claim_tx_id", "tao_refund_tx_id"}

Tao == side.kind = "tao-evm"
Bot(role) == side.via = "bot" /\ side.role = role /\ up
Daemon(role) == side.via = "daemon" /\ side.role = role

RowInit ==
    /\ side \in [kind: {"solana", "tao-evm"}, role: {"maker", "taker"}, via: {"bot", "daemon"}]
    /\ row = [kind |-> Null, state |-> Null, has |-> {}] /\ told = {}
    /\ stage = "idle" /\ pc = "none" /\ chain = "none"
    /\ lockTx = FALSE /\ inSwaps = FALSE /\ heard = FALSE /\ wiped = FALSE /\ due = FALSE
    /\ up = TRUE
    /\ job = Null /\ recon = Null /\ faults = 0

Fault == faults < MaxFaults /\ faults' = faults + 1

-----------------------------------------------------------------------------
\* upsertTrade: a row keeps its settlement kind and takes no new field of the other kind.

Kind(r, p) == IF p.kind # Null THEN p.kind ELSE r.kind

Fits(r, p) ==
    /\ r.kind \in {Null, Kind(r, p)}
    /\ Kind(r, p) = "tao-evm" => p.has \cap SolField \subseteq r.has
    /\ Kind(r, p) = "solana" => p.has \cap TaoField \subseteq r.has

Merged(r, p) ==
    [kind |-> Kind(r, p),
     state |-> IF p.state # Null THEN p.state ELSE r.state,
     has |-> r.has \cup p.has]

\* A refused patch files nothing: a bot notes last_error, a tool throws.
File(p) == row' = IF Fits(row, p) THEN Merged(row, p) ELSE row

Patch(kind, state, fields) == [kind |-> kind, state |-> state, has |-> fields]
Own(state, fields) == Patch(side.kind, state, fields)

IdField == IF Tao THEN "tao_settlement_id" ELSE "sol_escrow_pda"
TermsFields == IF Tao THEN {} ELSE {"sol_mint", "sol_terms"}
LockFields == TermsFields \cup {IdField} \cup (IF Tao THEN {"tao_lock_tx_id"} ELSE {})
TaoEndFields(end) ==
    {"hash", "tao_settlement_id", IF end = "claimed" THEN "tao_claim_tx_id" ELSE "tao_refund_tx_id"}
EndFields(end) == IF Tao THEN TaoEndFields(end) ELSE {"hash"}

-----------------------------------------------------------------------------
\* rfq-maker.mjs

\* Any RFQ with this trade_id, whatever became of the trade it opened.
HearsRfq(mint) ==
    /\ Bot("maker")
    /\ row' = Merged([row EXCEPT !.has = IF mint THEN @ ELSE @ \ {"sol_mint"}],
                     Own("init", IF mint /\ ~Tao THEN {"sol_mint"} ELSE {}))
    /\ wiped' = (wiped \/ (~mint /\ stage # "idle"))
    /\ UNCHANGED <<side, told, stage, pc, lockTx, inSwaps, heard, up, chain, due, operator, faults>>

StartsSwap ==
    /\ Bot("maker") /\ stage = "idle"
    /\ stage' = "init" /\ inSwaps' = TRUE
    /\ File(Own("init", TermsFields \ {"sol_terms"}))
    /\ UNCHANGED <<side, told, pc, lockTx, heard, up, wiped, chain, due, operator, faults>>

SendsTerms ==
    /\ Bot("maker") /\ inSwaps /\ stage = "init"
    /\ stage' = "terms"
    /\ File(Own("terms", TermsFields))
    /\ UNCHANGED <<side, told, pc, lockTx, inSwaps, heard, up, wiped, chain, due, operator, faults>>

\* ACCEPT is applied and createInvoiceAndEscrow begins: nothing is filed.
HearsAccept ==
    /\ Bot("maker") /\ inSwaps /\ stage = "terms"
    /\ stage' = "accepted" /\ pc' = "invoicing"
    /\ UNCHANGED <<side, told, row, lockTx, inSwaps, heard, up, wiped, chain, due, operator, faults>>

\* The invoice is back.  When the trade was canceled meanwhile the routine throws.
Invoices ==
    /\ Bot("maker") /\ pc = "invoicing"
    /\ IF stage = "accepted"
       THEN pc' = "invoiced" /\ stage' = "invoice" /\ File(Own("invoice", {"hash"}))
       ELSE pc' = "failed" /\ UNCHANGED <<row, stage>>
    /\ UNCHANGED <<side, told, lockTx, inSwaps, heard, up, wiped, chain, due, operator, faults>>

\* Mutation: it is filed with the acknowledgement only.
MutCheckpoints ==
    /\ Bot("maker") /\ pc = "invoiced"
    /\ pc' = "ready"
    /\ IF Tao THEN File(Own("locking", {"hash"})) ELSE UNCHANGED row
    /\ UNCHANGED <<side, told, stage, lockTx, inSwaps, heard, up, wiped, chain, due, operator, faults>>

\* Over TAO the settlement id is filed before the lock is sent.
Checkpoints ==
    /\ Bot("maker") /\ pc = "invoiced"
    /\ pc' = "ready"
    /\ IF Tao THEN File(Own("locking", {"hash", IdField})) ELSE UNCHANGED row
    /\ UNCHANGED <<side, told, stage, lockTx, inSwaps, heard, up, wiped, chain, due, operator, faults>>

SendsLock ==
    /\ Bot("maker") \/ Daemon("maker")
    /\ pc = "ready" /\ chain = "none" /\ ~due
    /\ pc' = "calling" /\ chain' = "sent"
    /\ UNCHANGED <<side, told, row, stage, lockTx, inSwaps, heard, up, wiped, due, operator, faults>>

OnBroadcast ==
    /\ Bot("maker") /\ Tao /\ pc = "calling" /\ ~lockTx
    /\ lockTx' = TRUE
    /\ File(Own("escrow", LockFields))
    /\ UNCHANGED <<side, told, stage, pc, inSwaps, heard, up, wiped, chain, due, operator, faults>>

\* The lock is confirmed.  A canceled trade takes no escrow: over TAO the
\* acknowledgement is filed first, over Solana there is none.
LockReturns ==
    /\ Bot("maker") /\ pc = "calling" /\ chain \in {"locked", "refunded"} /\ lockTx = Tao
    /\ IF stage = "invoice"
       THEN pc' = "announced" /\ stage' = "escrow" /\ File(Own("escrow", LockFields))
       ELSE /\ pc' = "failed" /\ UNCHANGED stage
            /\ IF Tao THEN File(Own("escrow", LockFields)) ELSE UNCHANGED row
    /\ UNCHANGED <<side, told, lockTx, inSwaps, heard, up, wiped, chain, due, operator, faults>>

\* resolveMakerCleanupPersistence
CleanupState ==
    CASE stage \in {"claimed", "canceled"} -> stage
      [] Tao /\ lockTx -> "escrow"
      [] Tao /\ ~lockTx /\ pc \in {"ready", "calling", "failed"} -> "locking"
      [] OTHER -> stage

\* lock throws, whether or not it has landed, and is called again at most
\* while no transaction is known.
LockThrows ==
    /\ Bot("maker") /\ pc \in {"ready", "calling"} /\ Fault
    /\ pc' \in IF lockTx THEN {"failed"} ELSE {"failed", "ready"}
    /\ IF Tao
       THEN File(Own(CleanupState, {IdField} \cup (IF lockTx THEN {"tao_lock_tx_id"} ELSE {})))
       ELSE UNCHANGED row
    /\ UNCHANGED <<side, told, stage, lockTx, inSwaps, heard, up, wiped, chain, due, operator>>

HearsPaid ==
    /\ Bot("maker") /\ inSwaps /\ stage = "escrow"
    /\ stage' = "ln_paid"
    /\ UNCHANGED <<side, told, row, pc, lockTx, inSwaps, heard, up, wiped, chain, due, operator, faults>>

\* CLAIMED and CANCEL end the swap, are filed and take it out of swaps.  That
\* the lock was claimed is the taker's word.
HearsEnd(end) ==
    /\ Bot("maker") /\ inSwaps
    /\ \/ end = "claimed" /\ stage \in {"escrow", "ln_paid"}
       \/ end = "canceled" /\ stage \in {"init", "terms", "accepted", "invoice"}
    /\ stage' = end /\ inSwaps' = FALSE
    /\ File(Own(end, IF end = "claimed" /\ Tao THEN EndFields(end) ELSE {}))
    /\ UNCHANGED <<side, told, pc, lockTx, heard, up, wiped, chain, due, operator, faults>>

\* cleanupSwap at the swap deadline: a lock in flight goes on.
TimesOut ==
    /\ Bot("maker") /\ inSwaps
    /\ inSwaps' = FALSE
    /\ File(Own(CleanupState, {}))
    /\ UNCHANGED <<side, told, stage, pc, lockTx, heard, up, wiped, chain, due, operator, faults>>

\* safeShutdown files the state as it stands.
Shutdown ==
    /\ Bot("maker")
    /\ up' = FALSE
    /\ IF inSwaps THEN File(Own(stage, {})) ELSE UNCHANGED row
    /\ UNCHANGED <<side, told, stage, pc, lockTx, inSwaps, heard, wiped, chain, due, operator, faults>>

-----------------------------------------------------------------------------
\* rfq-taker.mjs.  pc follows the claim, the rest is in trade.

\* The swap's messages up to the invoice, each filed with the state it leads to.
Progress == {<<"idle", "init">>, <<"init", "terms">>, <<"terms", "accepted">>, <<"accepted", "invoice">>}

TakerProgress ==
    /\ Bot("taker")
    /\ \E step \in Progress :
          /\ stage = step[1] /\ stage' = step[2]
          /\ File(Own(step[2], IF step[2] = "invoice" THEN {"hash"} ELSE {}))
    /\ UNCHANGED <<side, told, pc, lockTx, inSwaps, heard, up, wiped, chain, due, operator, faults>>

HearsEscrow ==
    /\ Bot("taker") /\ stage = "invoice" /\ chain # "none"
    /\ stage' = "escrow"
    /\ File(Own("escrow", LockFields))
    /\ UNCHANGED <<side, told, pc, lockTx, inSwaps, heard, up, wiped, chain, due, operator, faults>>

\* Before the escrow CANCEL, and before the payment the maker's REFUNDED, end
\* the trade in memory.  Neither is filed.
TakerHearsEnd(end) ==
    /\ Bot("taker")
    /\ \/ end = "canceled" /\ stage \in {"init", "terms", "accepted", "invoice"}
       \/ end = "refunded" /\ stage = "escrow"
    /\ stage' = end
    /\ UNCHANGED <<side, told, row, pc, lockTx, inSwaps, heard, up, wiped, chain, due, operator, faults>>

\* Mutation: the payment is filed with the state before it.
MutPays ==
    /\ Bot("taker") /\ stage = "escrow" /\ chain = "locked" /\ ~due
    /\ stage' = "ln_paid"
    /\ File(Own(stage, {"hash", "preimage"}))
    /\ UNCHANGED <<side, told, pc, lockTx, inSwaps, heard, up, wiped, chain, due, operator, faults>>

\* The lock is verified, the invoice paid and the preimage filed.
Pays ==
    /\ Bot("taker") /\ stage = "escrow" /\ chain = "locked" /\ ~due
    /\ stage' = "ln_paid"
    /\ File(Own("ln_paid", {"hash", "preimage"}))
    /\ UNCHANGED <<side, told, pc, lockTx, inSwaps, heard, up, wiped, chain, due, operator, faults>>

Claims ==
    /\ Bot("taker") /\ stage = "ln_paid" /\ pc = "none" /\ chain = "locked"
    /\ pc' = "claimed" /\ chain' = "claimed"
    /\ UNCHANGED <<side, told, row, stage, lockTx, inSwaps, heard, up, wiped, due, operator, faults>>

\* The taker does not apply its own CLAIMED: the state filed with the claim
\* is ln_paid, and "claimed" follows when the resends are over.
FilesClaim ==
    /\ Bot("taker")
    /\ \/ pc = "claimed" /\ pc' = "sent" /\ File(Own(stage, EndFields("claimed") \ {"hash"}))
       \/ pc = "sent" /\ pc' = "done" /\ File(Own("claimed", {}))
    /\ UNCHANGED <<side, told, stage, lockTx, inSwaps, heard, up, wiped, chain, due, operator, faults>>

\* A bot never resumes a trade.
Crash ==
    /\ Bot("maker") \/ Bot("taker")
    /\ Fault /\ up' = FALSE
    /\ UNCHANGED <<side, told, row, stage, pc, lockTx, inSwaps, heard, wiped, chain, due, operator>>

-----------------------------------------------------------------------------
\* The prompt executor's tools and its recorder.

TermsPost ==
    /\ Daemon("maker") /\ stage = "idle"
    /\ stage' = "terms"
    /\ File(Own("terms", {"sol_mint", "sol_terms"}))
    /\ UNCHANGED <<side, told, pc, lockTx, inSwaps, heard, up, wiped, chain, due, operator, faults>>

InvoicePost ==
    /\ Daemon("maker") /\ stage = "terms"
    /\ stage' = "invoice" /\ pc' = "ready"
    /\ File(Patch(Null, "invoice", {"hash"}))
    /\ UNCHANGED <<side, told, lockTx, inSwaps, heard, up, wiped, chain, due, operator, faults>>

\* Everything is filed after the lock; when that is refused nothing is posted.
EscrowPost ==
    /\ Daemon("maker") /\ pc = "calling" /\ chain \in {"locked", "refunded"}
    /\ File(Own("escrow", LockFields \cup {"hash"}))
    /\ IF Fits(row, Own("escrow", LockFields \cup {"hash"}))
       THEN pc' = "announced" /\ heard' = TRUE
       ELSE pc' = "failed" /\ UNCHANGED heard
    /\ UNCHANGED <<side, told, stage, lockTx, inSwaps, up, wiped, chain, due, operator, faults>>

EscrowPostThrows ==
    /\ Daemon("maker") /\ pc = "calling" /\ Fault
    /\ pc' = "failed"
    /\ UNCHANGED <<side, told, row, stage, lockTx, inSwaps, heard, up, wiped, chain, due, operator>>

\* terms_accept, or terms_accept_from_terms, which files the terms too.
TermsAccept(whole) ==
    /\ Daemon("taker") /\ stage = "idle"
    /\ stage' = "accepted"
    /\ IF whole THEN File(Own("accepted", {"sol_mint", "sol_terms"}))
       ELSE File(Patch(Null, "accepted", {}))
    /\ UNCHANGED <<side, told, pc, lockTx, inSwaps, heard, up, wiped, chain, due, operator, faults>>

\* The proof of the lock goes to the log and nowhere else.
LogsEscrow ==
    /\ Daemon("taker") /\ stage = "accepted" /\ chain # "none"
    /\ heard' = TRUE
    /\ UNCHANGED <<side, told, row, stage, pc, lockTx, inSwaps, up, wiped, chain, due, operator, faults>>

LnPay ==
    /\ Daemon("taker") /\ stage = "accepted" /\ heard /\ chain = "locked" /\ ~due
    /\ stage' = "ln_paid"
    /\ File(Patch(Null, "ln_paid", {"hash", "preimage"}))
    /\ UNCHANGED <<side, told, pc, lockTx, inSwaps, heard, up, wiped, chain, due, operator, faults>>

MayCancel == ~heard /\ row.state \notin {"escrow", "ln_paid", "claimed", "refunded"}

CancelPost ==
    /\ side.via = "daemon" /\ stage # "idle" /\ MayCancel
    /\ File(Patch(Null, "canceled", {}))
    /\ UNCHANGED <<side, told, process, chain, due, operator, faults>>

\* What an envelope can have wrong: the hash, the lock with its transaction, or both.
Losses(end) ==
    {{}, {"hash"}, TaoEndFields(end) \ {"hash"}, TaoEndFields(end)}

\* _recordTerminalReceiptFromSwapEnvelope: an envelope with this trade_id ends
\* the row, whoever sent it and whatever row and chain say.  CANCEL and SOL_ are
\* filed as "solana"; TAO_ files what it brings over what is on file (lost: what
\* is missing in it or not the trade's).
Records(end, kind, lost) ==
    LET p == Patch(kind, end, IF kind = "solana" THEN {} ELSE TaoEndFields(end))
    IN /\ side.via = "daemon" /\ Fits(row, p)
       /\ end = "canceled" => kind = "solana"
       /\ lost \subseteq p.has
       /\ ~Tao => p.has \ {"hash"} \subseteq lost
       /\ row' = [Merged(row, p) EXCEPT !.has = @ \ lost]
       /\ told' = told \cup ({end} \ {chain, "canceled"}) \cup (IF lost = {} THEN {} ELSE {"ids"})
       /\ UNCHANGED <<side, process, chain, due, operator, faults>>

\* The log, the secrets and the calls in flight are gone.
Restart ==
    /\ side.via = "daemon" /\ stage # "idle" /\ Fault
    /\ heard' = FALSE /\ stage' = "lost"
    /\ pc' = IF pc \in {"ready", "calling"} THEN "failed" ELSE pc
    /\ job' = IF job # Null /\ job.tool \in {"claim", "refund"} THEN Null ELSE job
    /\ UNCHANGED <<side, told, row, lockTx, inSwaps, up, wiped, chain, due, recon>>

-----------------------------------------------------------------------------
\* What the operator can run.

Claimers == {"cli_claim", "sol_claim", "claim"}
Refunders == {"cli_refund", "sol_refund", "refund"}
End(tool) == IF tool \in Claimers THEN "claimed" ELSE "refunded"

\* inferTradeSettlementKind
InferKind(r) ==
    IF r.kind # Null THEN r.kind
    ELSE IF r.has \cap TaoField # {} THEN "tao-evm" ELSE "solana"

\* isActionable, once the row's kind and amount are what the daemon needs
Actionable(tool) ==
    /\ InferKind(row) = side.kind
    /\ (IF Tao THEN IdField ELSE "sol_terms") \in row.has
    /\ IF tool = "claim" THEN row.state = "ln_paid" ELSE row.state = "escrow" /\ due
    /\ heard \/ IdField \in row.has

\* swaprecover (cli_*), intercomswap_swaprecover_* (sol_*) and the daemon's
\* own claim and refund, the claim also as a step of the running trade.
CanStart(tool) ==
    /\ side.role = IF tool \in Claimers THEN "taker" ELSE "maker"
    /\ tool # "claim" => "hash" \in row.has
    /\ tool \in Claimers => "preimage" \in row.has
    /\ \/ tool \in {"cli_claim", "cli_refund"} /\ row.kind \in {Null, side.kind} /\ IdField \in row.has
       \/ tool \in {"sol_claim", "sol_refund"} /\ ~Tao /\ {"sol_mint", "sol_terms"} \subseteq row.has
       \/ tool \in {"claim", "refund"} /\ side.via = "daemon" /\ Actionable(tool)
       \/ tool = "claim" /\ side.via = "daemon" /\ stage = "ln_paid" /\ heard

StartsTool(tool) ==
    /\ job = Null /\ CanStart(tool)
    /\ job' = [tool |-> tool, landed |-> FALSE]
    /\ UNCHANGED <<side, told, row, process, chain, due, recon, faults>>

\* The chain lets a claim through at any time, swaprecover only before the refund time.
Works(tool) ==
    /\ chain = "locked"
    /\ tool \in Refunders => due
    /\ tool = "cli_claim" => ~due

ToolLands ==
    /\ job # Null /\ ~job.landed
    /\ IF Works(job.tool)
       THEN chain' = End(job.tool) /\ job' = [job EXCEPT !.landed = TRUE]
       ELSE job' = Null /\ UNCHANGED chain
    /\ UNCHANGED <<side, told, row, process, due, recon, faults>>

ToolFiles ==
    /\ job # Null /\ job.landed
    /\ job' = Null
    /\ LET end == End(job.tool)
           known == IF Tao THEN {} ELSE {"sol_escrow_pda"}
       IN File(CASE job.tool \in {"sol_claim", "sol_refund"} -> Patch(Null, end, {})
                 [] job.tool \in {"cli_claim", "cli_refund"} -> Own(end, EndFields(end) \cup known)
                 [] OTHER -> Own(end, EndFields(end) \cup known \cup TermsFields))
    /\ UNCHANGED <<side, told, process, chain, due, recon, faults>>

ToolDies ==
    /\ job # Null /\ Fault /\ job' = Null
    /\ UNCHANGED <<side, told, row, process, chain, due, recon>>

\* swapreconcile works on what it has read of the row, with the id that is there.
ReconcileStarts ==
    /\ recon = Null /\ row.kind \in {Null, "tao-evm"}
    /\ "tao_settlement_id" \in row.has \/ "ids" \in told
    /\ recon' = [row |-> [row EXCEPT !.has = @ \cap {"preimage", "tao_settlement_id"}],
                 seen |-> "nothing"]
    /\ UNCHANGED <<side, told, row, process, chain, due, job, faults>>

\* The contract forgets a lock that is claimed or refunded: without its logs it is missing.
OnChain ==
    CASE chain \in {"none", "sent"} \/ "tao_settlement_id" \notin recon.row.has -> "missing"
      [] chain = "locked" -> "active"
      [] OTHER -> chain

ReconcileReads ==
    /\ recon # Null /\ recon.seen = "nothing"
    /\ recon' = [recon EXCEPT !.seen = OnChain]
    /\ UNCHANGED <<side, told, row, process, chain, due, job, faults>>

ReconcileReadsNoLogs ==
    /\ recon # Null /\ recon.seen = "nothing" /\ OnChain \in {"claimed", "refunded"} /\ Fault
    /\ recon' = [recon EXCEPT !.seen = "missing"]
    /\ UNCHANGED <<side, told, row, process, chain, due, job>>

\* Mutation: a lock that is not claimed counts as refunded.
MutNotClaimed(r, seen) ==
    CASE r.state \in {"claimed", "refunded", "canceled"} -> Null
      [] seen = "claimed" -> "claimed"
      [] seen # "claimed" /\ "preimage" \notin r.has /\ r.state \in {"accepted", "escrow"} -> "refunded"
      [] OTHER -> Null

\* Mutation: the test for a refund also guards a claim.
MutOneTest(r, seen) ==
    IF "preimage" \notin r.has /\ r.state \in {"accepted", "escrow"} /\ seen # "active"
    THEN IF seen = "claimed" THEN "claimed" ELSE "refunded"
    ELSE Null

\* classifyTaoOnchainReconciliation
Decision(r, seen) ==
    CASE r.state \in {"claimed", "refunded", "canceled"} -> Null
      [] seen = "claimed" -> "claimed"
      [] seen \in {"refunded", "missing"} /\ "preimage" \notin r.has
           /\ r.state \in {"accepted", "escrow"} -> "refunded"
      [] OTHER -> Null

ReconcileFiles ==
    /\ recon # Null /\ recon.seen # "nothing"
    /\ LET end == Decision(recon.row, recon.seen)
       IN IF end = Null THEN UNCHANGED row
          ELSE File(Patch(Null, end, IF recon.seen = "missing" THEN {} ELSE EndFields(end) \ {"hash", IdField}))
    /\ recon' = Null
    /\ UNCHANGED <<side, told, process, chain, due, job, faults>>

ReconcileDies ==
    /\ recon # Null /\ Fault /\ recon' = Null
    /\ UNCHANGED <<side, told, row, process, chain, due, job>>

-----------------------------------------------------------------------------
\* The other peer and the chain.

Mined ==
    /\ chain = "sent" /\ ~due
    /\ chain' = "locked"
    /\ UNCHANGED <<side, told, row, process, due, operator, faults>>

Dropped ==
    /\ chain = "sent" /\ Fault
    /\ chain' = "none"
    /\ UNCHANGED <<side, told, row, process, due, operator>>

\* The maker locks for a taker that has accepted, and takes the lock back when it may.
PeerMaker ==
    /\ side.role = "taker" /\ stage \notin {"idle", "init", "terms"}
    /\ \/ chain = "none" /\ ~due /\ chain' = "locked"
       \/ chain = "locked" /\ due /\ chain' = "refunded"
    /\ UNCHANGED <<side, told, row, process, due, operator, faults>>

\* A taker that was shown the lock pays and claims.
PeerTaker ==
    /\ side.role = "maker" /\ pc = "announced" /\ chain = "locked"
    /\ chain' = "claimed"
    /\ UNCHANGED <<side, told, row, process, due, operator, faults>>

RefundTime ==
    /\ ~due /\ due' = TRUE
    /\ UNCHANGED <<side, told, row, process, chain, operator, faults>>

MakerBot ==
    \/ \E mint \in BOOLEAN : HearsRfq(mint)
    \/ StartsSwap \/ SendsTerms \/ HearsAccept \/ Invoices \/ Checkpoints
    \/ OnBroadcast \/ LockReturns \/ LockThrows
    \/ HearsPaid \/ \E end \in {"claimed", "canceled"} : HearsEnd(end)
    \/ TimesOut \/ Shutdown

TakerBot ==
    \/ TakerProgress \/ \E end \in {"canceled", "refunded"} : TakerHearsEnd(end)
    \/ HearsEscrow \/ Pays \/ Claims \/ FilesClaim

DaemonStep ==
    \/ TermsPost \/ InvoicePost \/ EscrowPost \/ EscrowPostThrows
    \/ \E whole \in BOOLEAN : TermsAccept(whole)
    \/ LogsEscrow \/ LnPay \/ CancelPost \/ Restart
    \/ \E end \in {"claimed", "refunded", "canceled"}, kind \in {"solana", "tao-evm"} :
          \E lost \in Losses(end) : Records(end, kind, lost)

Reconcile == ReconcileStarts \/ ReconcileReads \/ ReconcileReadsNoLogs \/ ReconcileFiles \/ ReconcileDies

Tools ==
    \/ \E tool \in Claimers \cup Refunders : StartsTool(tool)
    \/ ToolLands \/ ToolFiles \/ ToolDies

Outside == Mined \/ Dropped \/ PeerMaker \/ PeerTaker \/ RefundTime

RowNext == MakerBot \/ TakerBot \/ SendsLock \/ Crash \/ DaemonStep \/ Reconcile \/ Tools \/ Outside

\* The operator runs swapreconcile again and again, and a run ends.
RowSpec ==
    /\ RowInit /\ [][RowNext]_vars
    /\ WF_vars(ReconcileStarts) /\ WF_vars(ReconcileReads) /\ WF_vars(ReconcileFiles)

-----------------------------------------------------------------------------
\* An envelope that says so ends the row: a daemon's recorder asks nothing
\* (executor.js:2106), the maker bot takes the taker's word (rfq-maker.mjs:1769).
HearsItEnded(end) ==
    \/ HearsEnd(end)
    \/ \E kind \in {"solana", "tao-evm"}, lost \in Losses(end) : Records(end, kind, lost)

\* The programs, tools and swapreconcile make a row claimed or refunded only when
\* the lock has ended that way, however stale the row, the log or the state in
\* memory is that they file from.  There are two exceptions: an envelope that
\* says so, which may be untrue, and the guess swapreconcile makes of a lock it
\* does not find (scripts/swapreconcile.mjs:157).
SettledStep ==
    row'.state # row.state /\ row'.state \in {"claimed", "refunded"} =>
        \/ row'.state = chain
        \/ HearsItEnded(row'.state)
        \/ row'.state = "refunded" /\ recon # Null /\ recon.seen = "missing"
SettledIsTrue == [][SettledStep]_vars

\* A daemon keeps the proof of a lock in its log until it settles: over TAO,
\* and when the terms were accepted by their hash, nothing else identifies it.
OnlyLogged ==
    /\ side.via = "daemon" /\ ~heard /\ IdField \notin row.has
    /\ Tao \/ "sol_terms" \notin row.has

\* An RFQ without a mint was heard again and no escrow is on file.
MintLost == wiped /\ IdField \notin row.has

\* A daemon's recorder put an id or a hash of an envelope in place of the trade's.
Misnamed == "ids" \in told /\ ~({"hash", IdField} \subseteq row.has)

\* Whatever crashed, was canceled, timed out or threw, and whatever end an
\* envelope announced without cause, the row is enough for
\* one of the tools: to claim for a taker whose preimage is on file while
\* there is time, to refund for a maker whose lock has expired.
Recoverable ==
    /\ side.role = "taker" /\ "preimage" \in row.has /\ chain = "locked" /\ ~due /\ ~OnlyLogged /\ ~Misnamed
         => \E tool \in Claimers : CanStart(tool)
    /\ side.role = "maker" /\ chain = "locked" /\ due /\ ~OnlyLogged /\ ~MintLost /\ ~Misnamed
         => \E tool \in Refunders : CanStart(tool)

\* A taker that has paid and not claimed is among the open claims
\* (listOpenClaims), whichever writer came last: the row of a bot for certain.
\* That of a daemon leaves the list with a CANCEL, and when an envelope that is
\* not true has settled it.
Listed ==
    side.role = "taker" /\ "preimage" \in row.has /\ chain = "locked" =>
        \/ row.state = "ln_paid"
        \/ side.via = "daemon" /\ row.state = "canceled"
        \/ side.via = "daemon" /\ row.state \in {"claimed", "refunded"} /\ told # {}

\* Once a bot is gone and its TAO lock has ended, the row says so in the end,
\* when swapreconcile can tell: it does not look at a refund for a row
\* whose state came before or after the escrow.
Unrecorded ==
    /\ Tao /\ side.via = "bot" /\ ~up /\ IdField \in row.has
    /\ row.state \notin {"claimed", "refunded", "canceled"}
    /\ \/ chain = "claimed"
       \/ chain = "refunded" /\ row.state \in {"accepted", "escrow"} /\ "preimage" \notin row.has

Recorded == Unrecorded ~> row.state \in {"claimed", "refunded"}

=============================================================================
