------------------------------ MODULE TradeAuto ------------------------------
(***************************************************************************)
(* The settlement stages of src/prompt/tradeAuto.js for one trade, on the  *)
(* two sides of it, with the tools of src/prompt/executor.js they call.    *)
(*                                                                         *)
(*  - A tick reads the executor's log, finds the one stage that is due and *)
(*    awaits its tool; busy is _tickInFlight.  A tool that outlives its    *)
(*    time limit is no longer awaited, and runs on: nothing cancels it.    *)
(*    Tools of one worker may therefore run at the same time.              *)
(*  - A tool is a task with a program counter; it yields at its awaits.    *)
(*  - What a worker knows is its log: what it sent and what it heard.  The *)
(*    tick reads it a few awaits before its stage begins; here it is read  *)
(*    when the stage begins, so what comes between the two counts as heard.*)
(*    Messages of one sender come in the order they were sent, and any may *)
(*    be lost.  Leaving the channel is no more than losing what follows.   *)
(*  - Retry delays and waiting times are left out: a stage whose delay is  *)
(*    over may run at any time.  Events older than event_max_age_ms, which *)
(*    a worker no longer looks at, are left out too.                       *)
(*  - The refund is not a stage of the automation; SwapSettlement has it.  *)
(***************************************************************************)
EXTENDS Integers, Sequences, FiniteSets

CONSTANTS
    MaxInvoices, \* bound on the invoices the maker's node makes
    RetryMax,    \* stage_retry_max
    PayTries,    \* failures of the payment until ln_pay_fail_leave_attempts and
                 \* ln_pay_fail_leave_min_wait_ms are both over
    ReplayMax,   \* terms_replay_max
    Salted,      \* TRUE: a lock is a new HTLC each time (tao-evm);
                 \* FALSE: one escrow account for each payment hash (solana)
    MaxFaults,   \* bound on what goes wrong: errors, late tools, lost messages,
                 \* payments without a route, restarts
    MaxRestarts  \* bound on stop / start of an automation

ASSUME TradeAutoAssumption ==
    /\ {MaxInvoices, RetryMax, PayTries, ReplayMax, MaxFaults, MaxRestarts} \subseteq Nat
    /\ Salted \in BOOLEAN

Hash == 1 .. MaxInvoices    \* a payment hash is the number of its invoice
None == 0

Worker == {"maker", "taker"}
Peer(w) == IF w = "maker" THEN "taker" ELSE "maker"

MakerStage == {"terms_post", "ln_invoice", "escrow"}
TakerStage == {"terms_accept", "ln_route_precheck", "ln_pay", "claim"}
Stage == MakerStage \cup TakerStage
Owner(s) == IF s \in MakerStage THEN "maker" ELSE "taker"

Kind == {"terms", "accept", "ln_invoice", "precheck_ok", "precheck_fail",
         "escrow", "ln_paid", "claimed", "cancel"}
Id == 0 .. (MaxRestarts + 1) * (RetryMax + PayTries + 1)
Message == [kind : Kind, hash : Hash \cup {None}, id : Id]
Lock == [hash : Hash, id : Id]

Point == {"start", "lock", "landed", "post"}
Task == [by : Worker, op : Kind, stage : Stage, hash : Hash \cup {None},
         id : Id, pc : Point, live : BOOLEAN]

VARIABLES
    log,       \* _scLog: what each worker has sent and heard, oldest first
    wire,      \* what is on its way to a worker
    stage,     \* stageInFlight and stageDone
    tries,     \* stageRetryCount, and the failures of lnPayFailByTrade
    busy, aborted,   \* _tickInFlight, _abortedTrades
    replays,   \* termsReplayByTrade
    tools,     \* the tools that run
    made,      \* the number of invoices made so far
    locks, paid, claimed,     \* the chain and the Lightning network
    file,      \* receipts: state
    preimage,  \* receipts: ln_preimage_hex of the taker, by its hash
    cache,     \* _tradePreimage, by its hash
    faults, restarts

worker == <<stage, tries, busy, aborted, replays, cache>>
chain == <<made, locks, paid, claimed>>
receipts == <<file, preimage>>
vars == <<log, wire, worker, tools, chain, receipts, faults, restarts>>

-----------------------------------------------------------------------------
(* What a worker reads in its log.                                           *)

Has(w, k) == \E i \in DOMAIN log[w] : log[w][i].kind = k

\* The last of the positions, or 0.
Last(at) == IF at = {} THEN 0 ELSE CHOOSE i \in at : \A j \in at : j <= i

LastOf(w, k) == Last({i \in DOMAIN log[w] : log[w][i].kind = k})
Latest(w, k) == log[w][LastOf(w, k)]

Terminal(w) == Has(w, "claimed") \/ Has(w, "cancel")

\* The stage that the log of its owner calls for.
Due(s) ==
    CASE s = "terms_post"   -> ~Has("maker", "terms")
      [] s = "terms_accept" -> Has("taker", "terms") /\ ~Has("taker", "accept")
      [] s = "ln_invoice"   -> /\ Has("maker", "terms") /\ Has("maker", "accept")
                               /\ ~Has("maker", "ln_invoice")
      [] s = "ln_route_precheck" ->
            /\ Has("taker", "accept") /\ Has("taker", "ln_invoice")
            /\ Has("taker", "terms") /\ ~Has("taker", "escrow")
      [] s = "escrow"       -> /\ Has("maker", "terms") /\ Has("maker", "accept")
                               /\ Has("maker", "ln_invoice") /\ ~Has("maker", "escrow")
      [] s = "ln_pay"       -> /\ Has("taker", "terms") /\ Has("taker", "accept")
                               /\ Has("taker", "ln_invoice") /\ Has("taker", "escrow")
                               /\ ~Has("taker", "ln_paid")
      [] s = "claim"        -> /\ Has("taker", "terms") /\ Has("taker", "accept")
                               /\ Has("taker", "ln_paid")

\* What the payer's status messages say, after position `from' of the log.
Routable(from) ==
    LET ok == LastOf("maker", "precheck_ok")
        fail == LastOf("maker", "precheck_fail")
    IN  CASE fail > from /\ fail > ok -> "fail"
          [] ok > from /\ ok > fail   -> "ok"
          [] OTHER                    -> "waiting"

\* The executor looks behind the invoice it locks for.
Gate(h) ==
    Routable(Last({i \in DOMAIN log["maker"] :
                     log["maker"][i].kind = "ln_invoice" /\ log["maker"][i].hash = h}))

-----------------------------------------------------------------------------
Init ==
    /\ log = [w \in Worker |-> <<>>] /\ wire = [w \in Worker |-> <<>>]
    /\ stage = [s \in Stage |-> "open"] /\ tries = [s \in Stage |-> 0]
    /\ busy = [w \in Worker |-> FALSE] /\ aborted = [w \in Worker |-> FALSE]
    /\ replays = 0 /\ tools = {}
    /\ made = 0 /\ locks = {} /\ paid = {} /\ claimed = {}
    /\ file = [w \in Worker |-> "none"]
    /\ preimage = None /\ cache = None
    /\ faults = 0 /\ restarts = 0

Say(k, h, i) == [kind |-> k, hash |-> h, id |-> i]
Send(w, m) == wire' = [wire EXCEPT ![Peer(w)] = Append(@, m)]
Logged(w, m) == log' = [log EXCEPT ![w] = Append(@, m)]
Filed(w, st) == file' = [file EXCEPT ![w] = st]

Call(s, k, h, pc) ==
    [by |-> Owner(s), op |-> k, stage |-> s, hash |-> h,
     id |-> restarts * (RetryMax + PayTries + 1) + tries[s],
     pc |-> pc, live |-> TRUE]

-----------------------------------------------------------------------------
(* How a tick ends.  rest is what is left of the tools.                      *)

\* mutant: a stage runs although the trade is over
MutMayRun(s) == ~busy[Owner(s)] /\ ~aborted[Owner(s)] /\ stage[s] = "open" /\ Due(s)

MayRun(s) ==
    /\ ~busy[Owner(s)] /\ ~aborted[Owner(s)] /\ ~Terminal(Owner(s))
    /\ stage[s] = "open" /\ Due(s)

Starts(s, task) ==
    /\ busy' = [busy EXCEPT ![Owner(s)] = TRUE]
    /\ stage' = [stage EXCEPT ![s] = "running"]
    /\ tools' = tools \cup {task}
    /\ UNCHANGED <<log, wire, tries, aborted, replays, cache, chain, receipts, restarts>>

\* mutant: the tick ends without clearing its flag
MutIdles(w, rest) == tools' = rest /\ UNCHANGED busy

Idles(w, rest) == busy' = [busy EXCEPT ![w] = FALSE] /\ tools' = rest

\* A stage that is done stays done.
Reopened(s) == stage' = [stage EXCEPT ![s] = IF @ = "done" THEN @ ELSE "open"]
Closed(s) == stage' = [stage EXCEPT ![s] = "done"] /\ tries' = [tries EXCEPT ![s] = 0]

\* CANCEL is posted unless the stage is the claim, then the channel is left.
Aborts(s, rest) ==
    LET w == Owner(s)
    IN  /\ aborted' = [aborted EXCEPT ![w] = TRUE]
        /\ IF aborted[w] \/ s = "claim"
           THEN Idles(w, rest)
           ELSE /\ tools' = rest \cup {Call(s, "cancel", None, "start")}
                /\ UNCHANGED busy

\* mutant: one retry too many
MutRetryMore(s, rest) ==
    IF tries[s] <= RetryMax
    THEN /\ Reopened(s) /\ tries' = [tries EXCEPT ![s] = @ + 1]
         /\ Idles(Owner(s), rest)
         /\ UNCHANGED aborted
    ELSE Closed(s) /\ Aborts(s, rest)

RetriesOrAborts(s, rest) ==
    IF tries[s] < RetryMax
    THEN /\ Reopened(s) /\ tries' = [tries EXCEPT ![s] = @ + 1]
         /\ Idles(Owner(s), rest)
         /\ UNCHANGED aborted
    ELSE Closed(s) /\ Aborts(s, rest)

\* At the threshold, or when no route exists, the payer leaves for good.
PayFails(rest) ==
    /\ \/ Closed("ln_pay")
       \/ /\ tries["ln_pay"] + 1 < PayTries
          /\ Reopened("ln_pay") /\ tries' = [tries EXCEPT !["ln_pay"] = @ + 1]
    /\ Idles("taker", rest)
    /\ UNCHANGED aborted

\* The awaited tool has failed or is late.
Fails(t, rest) ==
    CASE ~t.live -> tools' = rest /\ UNCHANGED <<stage, tries, busy, aborted>>
      [] t.live /\ t.op = "cancel" ->
            Idles(t.by, rest) /\ UNCHANGED <<stage, tries, aborted>>
      [] t.live /\ t.op = "precheck_ok" ->
            /\ tools' = rest \cup {[t EXCEPT !.op = "precheck_fail", !.pc = "post"]}
            /\ UNCHANGED <<stage, tries, busy, aborted>>
      [] t.live /\ t.op = "ln_paid" -> PayFails(rest)
      [] OTHER -> RetriesOrAborts(t.stage, rest)

Succeeds(t, rest) ==
    CASE ~t.live \/ t.op \in {"cancel", "precheck_fail"} -> Fails(t, rest)
      [] OTHER -> Closed(t.stage) /\ Idles(t.by, rest) /\ UNCHANGED aborted

-----------------------------------------------------------------------------
(* Ticks.                                                                    *)

PostsTerms == MayRun("terms_post") /\ Starts("terms_post", Call("terms_post", "terms", None, "post")) /\ UNCHANGED faults
PostsAccept == MayRun("terms_accept") /\ Starts("terms_accept", Call("terms_accept", "accept", None, "post")) /\ UNCHANGED faults
Invoices == MayRun("ln_invoice") /\ Starts("ln_invoice", Call("ln_invoice", "ln_invoice", None, "start")) /\ UNCHANGED faults

\* The payer looks for a route, and tells the maker what it found.
Prechecks ==
    /\ MayRun("ln_route_precheck")
    /\ \/ /\ Starts("ln_route_precheck", Call("ln_route_precheck", "precheck_ok", None, "post"))
          /\ UNCHANGED faults
       \/ /\ Starts("ln_route_precheck", Call("ln_route_precheck", "precheck_fail", None, "post"))
          /\ faults < MaxFaults /\ faults' = faults + 1

\* The maker locks only when the latest word of the payer is that it can pay.
Escrows ==
    /\ MayRun("escrow") /\ Routable(0) = "ok"
    /\ Starts("escrow", Call("escrow", "escrow", Latest("maker", "ln_invoice").hash, "start"))
    /\ UNCHANGED faults

EscrowWaits ==
    /\ MayRun("escrow") /\ Routable(0) # "ok"
    /\ IF Routable(0) = "fail" THEN Closed("escrow") /\ Aborts("escrow", tools)
       ELSE RetriesOrAborts("escrow", tools)
    /\ UNCHANGED <<log, wire, replays, cache, chain, receipts, faults, restarts>>

\* mutant: any escrow on the chain will do
MutPrePay(invoice, escrow) == [hash |-> escrow.hash, id |-> escrow.id] \in locks

\* What is compared before the payment: the announced escrow is for the hash
\* of the invoice, and is on the chain.
PrePay(invoice, escrow) ==
    /\ escrow.hash = invoice.hash
    /\ [hash |-> escrow.hash, id |-> escrow.id] \in locks

Pays ==
    /\ MayRun("ln_pay")
    /\ LET invoice == Latest("taker", "ln_invoice")
           ok == PrePay(invoice, Latest("taker", "escrow"))
       IN  Starts("ln_pay", Call("ln_pay", "ln_paid", IF ok THEN invoice.hash ELSE None, "start"))
    /\ UNCHANGED faults

\* The preimage is the cached one, else the one on file.
Claims ==
    /\ MayRun("claim")
    /\ Starts("claim", Call("claim", "claimed", IF cache # None THEN cache ELSE preimage, "start"))
    /\ UNCHANGED faults

\* Until ACCEPT is in the log the maker sends its TERMS again.
ReplaysTerms ==
    /\ ~busy["maker"] /\ ~aborted["maker"] /\ ~Terminal("maker")
    /\ Has("maker", "terms") /\ ~Has("maker", "accept")
    /\ replays < ReplayMax
    /\ replays' = replays + 1
    /\ Send("maker", Say("terms", None, 0))
    /\ UNCHANGED <<log, stage, tries, busy, aborted, cache, tools, chain, receipts, faults, restarts>>

-----------------------------------------------------------------------------
(* Tools.                                                                    *)

Moves(t, pc) == tools' = (tools \ {t}) \cup {[t EXCEPT !.pc = pc]}
Rest(t) == tools \ {t}

\* A step inside a tool touches nothing of the automation.
Inside == UNCHANGED <<wire, log, worker, faults, restarts>>

MakesInvoice(t) ==
    /\ t.op = "ln_invoice" /\ t.pc = "start"
    /\ made < MaxInvoices /\ made' = made + 1
    /\ tools' = Rest(t) \cup {[t EXCEPT !.hash = made', !.pc = "post"]}
    /\ Filed("maker", "invoice")
    /\ Inside /\ UNCHANGED <<locks, paid, claimed, preimage>>

PassesGate(t) ==
    /\ t.op = "escrow" /\ t.pc = "start" /\ Gate(t.hash) = "ok"
    /\ Moves(t, "lock")
    /\ Inside /\ UNCHANGED <<chain, receipts>>

LockOf(t) == [hash |-> t.hash, id |-> IF Salted THEN t.id ELSE 0]

Locks(t) ==
    /\ t.op = "escrow" /\ t.pc = "lock" /\ LockOf(t) \notin locks
    /\ locks' = locks \cup {LockOf(t)}
    /\ Moves(t, "landed")
    /\ Inside /\ UNCHANGED <<made, paid, claimed, receipts>>

\* Paying a paid invoice gives its preimage again, or fails (Refused).
LnPays(t) ==
    /\ t.op = "ln_paid" /\ t.pc = "start" /\ t.hash # None
    /\ paid' = paid \cup {t.hash}
    /\ Moves(t, "landed")
    /\ Inside /\ UNCHANGED <<made, locks, claimed, receipts>>

\* The escrow is the one announced last, and must be for the preimage.
Claimable(t) ==
    LET escrow == Latest("taker", "escrow")
        lock == [hash |-> escrow.hash, id |-> escrow.id]
    IN  escrow.hash = t.hash /\ lock \in locks \ claimed

LnClaims(t) ==
    /\ t.op = "claimed" /\ t.pc = "start" /\ t.hash # None /\ Claimable(t)
    /\ claimed' = claimed \cup {[hash |-> t.hash, id |-> Latest("taker", "escrow").id]}
    /\ Moves(t, "landed")
    /\ Inside /\ UNCHANGED <<made, locks, paid, receipts>>

\* The call has returned: what it did is put on file, then announced.
Files(t) ==
    /\ t.pc = "landed"
    /\ Filed(t.by, IF t.op = "escrow" THEN "escrow" ELSE t.op)
    /\ preimage' = IF t.op = "ln_paid" THEN t.hash ELSE preimage
    /\ Moves(t, "post")
    /\ Inside /\ UNCHANGED chain

\* CANCEL is refused once an escrow or a payment is in the log or on file.
MayCancel(w) ==
    /\ ~Has(w, "escrow") /\ ~Has(w, "ln_paid")
    /\ file[w] \notin {"escrow", "ln_paid", "claimed"}

PassesCancel(t) ==
    /\ t.op = "cancel" /\ t.pc = "start" /\ MayCancel(t.by)
    /\ Moves(t, "post")
    /\ Inside /\ UNCHANGED <<chain, receipts>>

Envelope(t) == Say(t.op, t.hash, IF t.op = "escrow" THEN LockOf(t).id ELSE 0)

Posts(t) ==
    /\ t.pc = "post"
    /\ Send(t.by, Envelope(t)) /\ Logged(t.by, Envelope(t))
    /\ CASE t.op = "terms"  -> Filed("maker", "terms")
         [] t.op = "accept" -> Filed("taker", "accepted")
         [] t.op = "cancel" -> Filed(t.by, "canceled")
         [] OTHER           -> UNCHANGED file
    /\ Succeeds(t, Rest(t))
    /\ cache' = IF t.live /\ t.op = "ln_paid" THEN t.hash ELSE cache
    /\ UNCHANGED <<replays, chain, preimage, faults, restarts>>

\* The tool finds that it may not, or cannot, go on.
Refused(t) ==
    /\ \/ t.op = "ln_invoice" /\ t.pc = "start" /\ made = MaxInvoices
       \/ t.op = "escrow" /\ t.pc = "start" /\ Gate(t.hash) # "ok"
       \/ t.op = "escrow" /\ t.pc = "lock" /\ LockOf(t) \in locks
       \/ t.op = "ln_paid" /\ t.pc = "start" /\ (t.hash = None \/ t.hash \in paid)
       \/ t.op = "claimed" /\ t.pc = "start" /\ (t.hash = None \/ ~Claimable(t))
       \/ t.op = "cancel" /\ t.pc = "start" /\ ~MayCancel(t.by)
    /\ Fails(t, Rest(t))
    /\ UNCHANGED <<log, wire, replays, cache, chain, receipts, faults, restarts>>

\* A call fails or its answer is lost; an envelope may have gone out.
Errs(t) ==
    /\ faults < MaxFaults /\ faults' = faults + 1
    /\ \/ UNCHANGED wire
       \/ t.pc = "post" /\ Send(t.by, Envelope(t))
    /\ Fails(t, Rest(t))
    /\ UNCHANGED <<log, replays, cache, chain, receipts, restarts>>

\* _runToolWithTimeout gives up waiting; the tool goes on.
TimesOut(t) ==
    /\ t.live /\ faults < MaxFaults /\ faults' = faults + 1
    /\ Fails(t, Rest(t) \cup {[t EXCEPT !.live = FALSE]})
    /\ UNCHANGED <<log, wire, replays, cache, chain, receipts, restarts>>

-----------------------------------------------------------------------------
(* The channel, and the operator.                                            *)

\* A final envelope goes on file too; a CANCEL only where the trade settles on
\* Solana (its patch has that settlement_kind and is refused otherwise).
Hears(w) ==
    /\ wire[w] # <<>>
    /\ LET m == Head(wire[w])
       IN  /\ IF m.kind = "terms" /\ Has(w, "terms") THEN UNCHANGED log ELSE Logged(w, m)
           /\ CASE m.kind = "claimed"               -> Filed(w, "claimed")
                [] m.kind = "cancel" /\ ~Salted      -> Filed(w, "canceled")
                [] OTHER                             -> UNCHANGED file
    /\ wire' = [wire EXCEPT ![w] = Tail(@)]
    /\ UNCHANGED <<worker, tools, chain, preimage, faults, restarts>>

\* A message is lost: the worker has left the channel, or its peer is not
\* connected to it.
Misses(w) ==
    /\ wire[w] # <<>>
    /\ wire' = [wire EXCEPT ![w] = Tail(@)]
    /\ \/ aborted[w] /\ UNCHANGED faults
       \/ ~aborted[w] /\ faults < MaxFaults /\ faults' = faults + 1
    /\ UNCHANGED <<log, worker, tools, chain, receipts, restarts>>

\* tradeauto_stop and tradeauto_start: the maps are cleared, a tick that is
\* still awaiting its tool is not stopped.
Restarts(w) ==
    /\ restarts < MaxRestarts /\ restarts' = restarts + 1
    /\ faults < MaxFaults /\ faults' = faults + 1
    /\ stage' = [s \in Stage |-> IF Owner(s) = w THEN "open" ELSE stage[s]]
    /\ tries' = [s \in Stage |-> IF Owner(s) = w THEN 0 ELSE tries[s]]
    /\ busy' = [busy EXCEPT ![w] = FALSE] /\ aborted' = [aborted EXCEPT ![w] = FALSE]
    /\ replays' = IF w = "maker" THEN 0 ELSE replays
    /\ cache' = IF w = "taker" THEN None ELSE cache
    /\ UNCHANGED <<log, wire, tools, chain, receipts>>

Tick ==
    \/ PostsTerms \/ PostsAccept \/ Invoices \/ Prechecks \/ Escrows \/ EscrowWaits
    \/ Pays \/ Claims \/ ReplaysTerms

Works(t) ==
    \/ MakesInvoice(t) \/ PassesGate(t) \/ Locks(t) \/ LnPays(t) \/ LnClaims(t)
    \/ Files(t) \/ PassesCancel(t) \/ Posts(t) \/ Refused(t)

Next ==
    \/ Tick
    \/ \E t \in tools : Works(t) \/ Errs(t) \/ TimesOut(t)
    \/ \E w \in Worker : Hears(w) \/ Misses(w) \/ Restarts(w)

Spec == Init /\ [][Next]_vars

-----------------------------------------------------------------------------
TypeOK ==
    /\ log \in [Worker -> Seq(Message)] /\ wire \in [Worker -> Seq(Message)]
    /\ stage \in [Stage -> {"open", "running", "done"}]
    /\ tries \in [Stage -> 0 .. RetryMax + PayTries]
    /\ busy \in [Worker -> BOOLEAN] /\ aborted \in [Worker -> BOOLEAN]
    /\ replays \in 0 .. ReplayMax
    /\ tools \subseteq Task
    /\ made \in 0 .. MaxInvoices /\ paid \subseteq 1 .. made
    /\ locks \subseteq Lock /\ claimed \subseteq locks
    /\ file \in [Worker -> {"none", "terms", "accepted", "invoice", "escrow",
                            "ln_paid", "claimed", "canceled"}]
    /\ {preimage, cache} \subseteq paid \cup {None}
    /\ faults \in 0 .. MaxFaults /\ restarts \in 0 .. MaxRestarts

\* Whatever the automation retries and whichever invoice comes late: an invoice
\* is paid only when an escrow for its hash is on the chain (the pre-pay check
\* of intercomswap_swap_ln_pay_and_post_verified).
PaidIsBacked == \A h \in paid : \E l \in locks : l.hash = h

\* A payer that heard CANCEL before any escrow never pays, not even when the
\* escrow of a late tool is announced after it (tradeAuto skips a trade with a
\* final envelope in its log).
CancelFirst ==
    \A i \in DOMAIN log["taker"] :
        /\ log["taker"][i].kind = "cancel"
        /\ \A j \in 1 .. i : log["taker"][j].kind # "escrow"
        => paid = {}

\* What late and repeated escrow tools can lock up: no more escrows than the
\* stage has attempts, for each start of the automation (stage_retry_max).
Exposure == Cardinality(locks) <= (RetryMax + 1) * (restarts + 1)

\* Nothing is left in flight: a tick, and a stage that is marked in flight, has
\* a tool that is still awaited and whose end, error or time limit clears it;
\* restarts and late ticks included.
InFlight ==
    /\ \A w \in Worker : busy[w] => \E t \in tools : t.by = w /\ t.live
    /\ \A s \in Stage : stage[s] = "running" => \E t \in tools : t.stage = s /\ t.live
=============================================================================
