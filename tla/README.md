# intercom-swap: TLA+ models and proofs

intercom-swap trades BTC over Lightning (LN) against a token on a settlement chain: USDT
on Solana, or TAO on an EVM chain. Two peers negotiate on a gossip "sidechannel" (RFQ,
quote, quote accept), open a private swap channel, and then run a hash-time-locked
exchange: the maker, who receives the LN payment, locks the token under the payment hash
of his invoice; the taker verifies the lock, pays the invoice, learns the preimage and
claims the token with it; if the payment never comes the maker takes the token back.

This directory holds the specifications (`*.tla`), the TLC instances (`MC*.tla`, `*.cfg`),
the proofs (`*Proofs.tla`) and `PROJECT.json`, which maps every definition to the lines of
code it models and lists the runs, the mutants, the hazards and the findings.

## The parts of the system

| Part | State | Operations | Talks to |
|---|---|---|---|
| Trade state machine, `src/swap/stateMachine.js` | one record per trade and side: state, terms and their hash, acceptance, invoice, escrow, payment, claim, refund | `applySwapEnvelope` per envelope kind | called by both bots, `promptd`, tools |
| Envelope schema and signatures, `src/swap/schema.js`, `src/protocol/signedMessage.js` | none | validate, sign, verify | every sender and receiver |
| Solana escrow program, `solana/ln_usdt_escrow/src/lib.rs` | config, trade configs, one escrow and vault per payment hash, fee vaults | init/set config, withdraw fees, init, claim, refund | both bots through the provider |
| EVM contract, `TaoHTLC.sol` | `swaps` by id, the balance | lock, claim, refund | both bots through the provider |
| Settlement providers, `settlement/` | connection, key | lock, verify, wait, claim, refund | chain |
| Maker bot, `scripts/rfq-maker.mjs` | quotes, RFQ locks, pending and running swaps, trade counters | RFQ, QUOTE_ACCEPT and swap handlers, resender, prune timer | bridge, LN, chain, receipts |
| Taker bot, `scripts/rfq-taker.mjs` | chosen quote, swap context, waiters, timers | RFQ repost, `startSwap` | bridge, LN, chain, receipts |
| Receipts, `src/receipts/store.js` | SQLite row per trade, event log | upsert with merge rules | bots, recovery |
| Recovery, `scripts/swaprecover.mjs`, `swapreconcile.mjs` | none of their own | claim, refund, list, compare | receipts, chain |
| LN client, `src/ln/` | none (state is in the node) | invoice, pay, precheck | `lncli`, `lightning-cli` |
| Sidechannel and bridge, `features/` | channels, invitations, rate windows, WebSocket sessions | open, join, send, relay | bots |
| Prompt daemon, `src/prompt/` | event log, trade automation, autopost jobs; listing locks in the receipts | tools that run side by side, background ticks | bridge, LN, chain, receipts |
| Price oracle, `src/price/` | last snapshots | poll, median, agreement | HTTP providers |
| Bot and peer managers, `src/rfq/botManager.js`, `src/peer/` | state files, pids | start, stop, restart | processes |

What makes it hard: the two bots are event-driven programs that share nothing but a lossy
channel, a chain and a payment network; each handler is cut in pieces by its awaits, and
other handlers and timers run in between; each bot may crash, throw or time out at each of
these points; messages are repeated by resenders; and two clocks matter, the invoice's
expiry and the escrow's refund time. What must hold: nobody pays without an escrow that outlasts
the payment; nobody ends up with neither token nor bitcoin; an escrow always
settles; and what a crashed bot left in its receipts is enough to finish.
`PROJECT.json` lists these hazards one by one, each with the properties that cover it.

## Modules

- `TradeRules` has the record of a trade and, for every envelope kind, the condition under
  which `applySwapEnvelope` accepts it (`CanTerms`, `CanAccept`, ...) and the record it
  returns (`AfterTerms`, ...). Fields the rules only compare are values of small sets:
  a `Deal` stands for the token, amount, recipient, refund address, program and fees that
  the escrow has to repeat. Whether a signature verifies is part of the envelope sets.
- `SwapTrade` drives one record by any envelope at any time, and states what a trade record
  may never be. `RecordProofs` proves these statements.
- `Htlc` is the abstract contract: locked under fixed terms, claimed by a preimage, refunded
  after its time, settled one way. `SolEscrow` is the Solana program, instruction by
  instruction, with its fee arithmetic, configuration and vault balances. `TaoHTLC` is the
  EVM contract. Both have the abstract one as a property (`ImplementsHtlc`, `TaoIsHtlc`).
  `HashLock` has what the two share: hashes, preimages and the clock.
- `SwapSettlement` composes two copies of `TradeRules` with the two bots' routines, the
  channel, the payment, the abstract contract, the receipts and the recovery tool, for one
  swap. A program counter per bot names the await the bot is in. `net` keeps every
  message ever sent; since any of them may be delivered at any time, in any order, again or
  never, loss, repetition and delay need no action of their own.
- `MakerRfq` is the maker's side of the negotiation: RFQ and QUOTE_ACCEPT handlers
  cut at their awaits, the RFQ locks, the quotes, the pending and running swaps, the prune
  timer and the count of trades. `MakerRfqProofs` proves what binds a swap to its quote.
- `TakerRfq` is the taker's side: its trade cycles, the offer it may follow, the RFQ it posts
  again under new ids, the quote it commits to, the accept it repeats, the invitation, and
  the count of trades. The makers are what a taker sees of `MakerRfq`: they quote, answer a
  repost with the quote on file, invite, or stop.
- `TradeAuto` is the other way to run a swap: the automation of the prompt daemon, on both
  sides of one trade. A tick reads the executor's log, finds the stage that is due and awaits
  its tool; the tool is a task of its own that goes on when the tick gives up waiting.
- `PromptRfq` is the daemon's negotiation: the quote, accept, invite and join of a tick, the
  tools behind them, autopost, and the listing locks in the receipts that keep one RFQ from
  being given to two quotes and one line of an offer from being sold to two trades. A
  behaviour looks at one side of it (`side`): the trade of the daemon's own, or those of others.
- `Receipts` is one row of the receipts database and everybody who writes it: a bot or a daemon
  that runs the trade, as maker or taker, over Solana or TAO, and beside it the recovery tools
  and `swapreconcile`. The other side and the chain are what this peer can see of them. It asks
  what `SwapSettlement` takes for granted: that the row a program leaves behind is
  enough to go on from, and says what happened.
- `Sidechannel` is the channel itself: who may join, who is authorized by whom, the welcome,
  sessions over connections that break, messages relayed along cycles and remembered once.
- `SwapSettlementProofs`, `TakerRfqProofs`, `TradeAutoProofs`, `PromptRfqProofs` and
  `SidechannelProofs` prove about the module each is named for; `HtlcProofs` about both
  contracts and the sums of their ledgers; `RecordProofs` about the two records a peer has of a
  trade, `SwapTrade` and `Receipts`.

### How state and actions correspond to the code

`SwapTrade`'s `trade` is the object of `createInitialTrade`. `SwapSettlement`'s
`makerTrade`/`takerTrade` are `ctx.trade` and `swapCtx.trade`; `awaiting` and `fetching` are
`awaitingTakerReady` and the window in `createAndSendTerms` between reading the clock and
having the fees; `makerPc` is where `createInvoiceAndEscrow` is; `makerIn` is whether the
swap is in the map `swaps`, cleaned up, or the process gone; `takerPc` is where `startSwap`
is; `receipts` are the columns `swaprecover` needs (payment hash, settlement id, preimage).
Each action is one stretch of code between awaits; the mapped lines say which. The escrow
ids are `sol_escrow_pda` and `tao_settlement_id`: on TAO the id is computed and persisted
before `lock` (`BeforeLock`), on Solana it is known when `lock` returns.

In `TakerRfq`, `pc` is where `runSingleTradeCycle` is (`open` is the wait for `cycleDone`), `loop`
where `scheduleNextRfqAttempt` is, `overdue` that the deadline has passed and `enforceTimeout`
has not yet extended it; `chosen`, `joining`, `trades`, `completed` and `active` are `chosen`,
`joinSwapInFlight`, `tradeCount`, `completedTrades` and `activeTrades`. `deal` is the group of
variables (`btcSats`, `maxTotalFeeBps`, `minSolRefundWindowSec`, ...) that an offer replaces.

In `Receipts`, `row` is the row of `trades`: `kind` and `state` are its columns `settlement_kind`
and `state`, `has` the groups of columns that hold what belongs to the trade, where columns that are
only filed together are one (`sol_terms` is the program, amount and refund time): a column an untrue
envelope has set or cleared is not in `has`. `side` picks one of the
eight programs a behaviour is about; `stage` is `ctx.trade.state`, which is not always what the row
says; `pc` is where `createInvoiceAndEscrow` is, or the taker's claim; `lockTx` is `ctx.taoLockTxId`;
`inSwaps` is the entry in `swaps`; `heard` that `_scLog` of a daemon holds the proof of the lock.
`Fits` and `Merged` are `upsertTrade`; a patch it refuses is not filed at all. `job` is the
recovery tool that runs, with `landed` between its transaction and its filing, and `recon` the
`swapreconcile` that runs, with what it has read of the row and seen of the chain. `told` is a
history variable, not one of the code: the ends that the recorder of a daemon filed although the
lock had not ended so, and whether it filed an id or a hash that is not the trade's.

In `TradeAuto` and `PromptRfq`, `log` is `_scLog` of each process, `busy` is `_tickInFlight`,
`tools` are the calls of `executor.execute` that have not returned, with `pc` for the await they
are in and `live` for whether a tick still awaits them. `stage` and `tries` are `_stageDone`,
`_stageInFlight` and `_stageRetryCount`; `done` is the four `_auto...Sig` sets; `lock` is the
table `listing_locks`; `file` is the state column of the receipts. In `Sidechannel`, `trusts`,
`knows`, `holds`, `welcomed` and `seen` are `inviterKeys`, `invitedPeers`, `localInviteObjects`,
`welcomedChannels` and `seen` of each peer, and `session` is the record in `connections`, which
stays there when the other side closes (`stale`). `due` is not a variable of the code: it
remembers which texts were sent to a neighbour that was ready for them.

## Runs

| Run | Question | Bounds |
|---|---|---|
| `swap_trade` | does one trade record stay consistent under every sequence of envelopes? | three offers of two receivers, two hashes, escrows and transactions, times 0..2 |
| `sol_escrow` | does the program keep its promises through fees and configuration changes? | two hashes, six requests at the fee caps and round-downs, clock 0..2 |
| `tao_htlc` | does the contract stay solvent and implement the abstract one? | two hashes and salts, six requests, clock 0..3 |
| `swap_tao` | safety of a whole TAO swap under all faults; is a locked escrow settled in the end, whatever crashes; does a swap complete when only messages are lost? | refund window 5, margin 2, payment bound 1, swap timeout 3 |
| `swap_sol_completes` | does a swap complete over Solana when only messages are lost: violated | refund window 6, first `ready` up to time 1 |
| `swap_tao_deadline` | is a taker that paid recoverable after the swap deadline: violated | swap timeout 3 inside the invoice's life |
| `maker_rfq` | one swap and one peer per trade, no lock without its swap, capacity given back, under all interleavings? | one trade, an RFQ, its repost and a rival's RFQ, two swaps, capacity 2, every timer can fire |
| `taker_rfq` | one maker per cycle, quotes within the flags, capacity given back, and is the taker served in the end? | two makers, two cycles, three offers, two quotes, one fault |
| `trade_auto` | is what the automations pay backed by an escrow, does the payer obey an early CANCEL, what can retries lock up, does a tick ever hang? | two invoices, one retry, two payments, two faults, one restart |
| `prompt_rfq` | is one quote accepted and one line sold once, are locks given back? | two quotes or two trades of others, one line, two faults |
| `receipts` | can the row always be recovered from, is an unclaimed payment listed, is what it says true, and is the end recorded? | one trade, eight programs, two faults |
| `sidechannel` | is a text delivered once, to members only, and not lost to a relayed copy; is a guest authorized in the end? | an owner and two guests, one text, ttl 1, one fault |

The bounds are small because the hazards are: one swap has two participants, one invoice
and one escrow, and the times matter only by their order (`ready`, terms' validity, invoice
expiry, swap deadline, refund time), all of whose interesting orders the values produce: a
deadline before, at and after the payment, a refund path that opens while the taker is still
running, a lock that comes too late. Two hashes are what it takes for a message, an escrow or
a vault to be the wrong one. `maker_rfq` has what two handlers need to meet: two
messages of one peer under one RFQ lock, a rival under another lock of the same trade, and a
second swap to start when the first is over; one tick of the clock is enough for a quote to
expire, a lock to be pruned and a swap to time out, since all three validities end within it.
`taker_rfq` needs two makers to have rival quotes and two cycles for what one leaves to the
next; of its offers one is narrower than the flags, one asks for a longer refund window and one is
too large. The run is over TAO (`TaoPair`), where an offer has one window and the taker takes its lower
bound from the flags; one quote has a window below that of the narrow offer and within the flags. Over
Solana an offer has a minimum of its own, which is what the taker compares with: the proof covers both.
`trade_auto` needs two of everything that is retried: a second invoice to pay or to lock for by
mistake, one retry so that the last attempt is reached, and two faults because a late tool
does harm only when something else goes wrong meanwhile. `prompt_rfq` has what it takes for a
second quote or a second trade to compete for one lock, and two faults for a failure to meet
an overlap; it does not see what takes three trades, which is with the proof (`LineSoldOnce`
under Proofs). `receipts` needs two faults as well: one that ends the program, and one that
breaks what comes after it (a tool that dies with its transaction landed, logs that cannot be
read). Three peers are the smallest channel with a cycle, and one fault between two
rounds of the handshake is enough to lose each of its messages.

The names of swaps, of quotes and of others' trades are interchangeable, so `maker_rfq` and
`prompt_rfq` use symmetry; neither has a liveness property.

### Fairness

`swap_tao`, `taker_rfq`, `sidechannel` and `receipts` have liveness properties and need fairness. `BotsFair` says that a bot that is
running goes on after an await (an awaited call returns or throws), that a payment in flight
settles or fails, and that a message the other side keeps resending (`Resent`: the resenders
of both bots, with the states in which they resend) is heard in the end. It says nothing for
a message that is sent once. `RefundFair`, the premise of `EscrowSettles`, adds that time passes
and that an operator runs `swaprecover refund` when it can succeed. Crashes, errors and timeouts
are never fair. `Completes` is asked for behaviours that stay `Calm`, with nobody failing and
the clock before the deadlines, since the timers otherwise end the swap by design; every
other fault of the run is there, and may only not have ended anything. `FairSpec` of `TakerRfq`
says that the taker's timers fire and its awaits end, that a quote expires, that what is sent
again and again is heard, and that among the quotes made for the current RFQ there is again and
again one that fits. `Served` leaves out behaviours in which the repost loop died (Findings),
the offer lapsed or a maker stopped. `FairSpec` of `Sidechannel` says that
messages on an open session arrive and that a guest's program goes on sending its invite:
the taker bot's `readyTimer` and the automation's `waiting_terms_ping` do, each until it has
its TERMS. The feature itself gives no such guarantee (see Findings). `Spec` of `Receipts` says that
the operator runs `swapreconcile` again and again and that a run ends, and nothing else:
`Recorded` asks what that alone achieves for a trade whose bot is gone.

`Tick` carries two assumptions on the environment: a payment is resolved within `PayBound`
and a live taker that learned the preimage records it and claims without being suspended for
long. `RunningTakerIsSafe` rests on them together with `PayBound <= MinRemaining`: it is the
relation the margin `INTERCOMSWAP_MIN_TIMELOCK_REMAINING_SEC` is there for. The run has the
stricter `PayBound < MinRemaining`; the proof shows that equality is enough, because the taker
pays only while the refund time is more than the margin away.

## Findings

Two runs are expected to be violated; each shows what the code does where a document or
comment says otherwise.

1. `swap_sol_completes`: the taker bot calls `waitForPrepayOnchain` on the provider, which
   only the TAO provider has. Over Solana every swap ends before the payment.
2. `swap_tao_deadline`: the taker's deadline timer ends the process during the payment, and
   nobody has the preimage.

What else the models show, without a run of its own:

- *Bots.* A maker that crashes while it awaits the Solana lock has no escrow address in its
  receipts, and `swaprecover refund` refuses to work without one; over TAO the id is filed
  first, and over Solana `intercomswap_swaprecover_refund` works from the terms (`Recoverable`). A payment that settles after the invoice's expiry is
  refused by the taker's own state machine, and the taker dies before it persists the preimage.
- *Maker.* Capacity is checked when a quote is prepared and not when it is accepted, so more
  trades may complete than `--max-trades` allows. A swap that times out after its settlement
  started is never taken off `activeTrades`, so its share of the capacity is lost
  (`CapacityReturns` leaves such swaps out). A swap whose terms are accepted when the capacity
  is used up idles until it times out. A QUOTE_ACCEPT that arrives again after its swap was
  claimed starts another swap on the old quote.
- *Taker.* `scheduleNextRfqAttempt` returns for good when it wakes after the deadline and before
  the tick of `enforceTimeout` that extends it (up to 200 ms): the taker then waits without
  posting, where `README.md:557` says it goes on (`LoopRuns`). A maker whose quote for an
  earlier RFQ is still fresh repeats it with the old `rfq_id`, and the taker refuses it until
  it has expired; a quote that comes before the send of the RFQ is answered finds no listener.
  Once the offer it followed has lapsed, every repost is already expired, although a retry is to
  "carry a fresh validity window" (`README.md:555`). Nothing takes `chosen` back: when the
  maker stops after the accept, the taker repeats it for ever. An accept answered after the
  swap it led to is over would count a trade that is gone (`SwapDone` waits for the answer, which
  the bridge client gives or gives up within 15 s). The `--min-/--max-` bounds for TAO amounts
  are compared with USDT amounts as well (`rfq-taker.mjs:1181`, `:2191`).
- *Receipts.* Six exceptions had to be written into the properties. The recorder of a daemon
  (`executor.js:2106`) files the end a message announces without looking at signature, signer, role,
  row or chain: a REFUNDED or CLAIMED that is not true settles the row (`HearsItEnded` in
  `SettledIsTrue`) and takes a trade that is paid and unclaimed off the open claims (`told` in
  `Listed`). The message over TAO also overwrites the settlement id and the payment hash, with
  null when it has none, after which neither names the lock and no tool can work from the row
  (`Misnamed`); `swapreconcile` then finds no lock under the id. The maker bot checks signer, hash and id,
  and takes the taker's word that it claimed (`rfq-maker.mjs:1769`). `swapreconcile` files
  `refunded` for a lock it does not find, which may be a lock that is not mined yet, or one that
  was claimed while the logs cannot be read, although "No automatic guessing is allowed: if
  evidence is insufficient [...] receipts must remain unchanged" (`SKILL.md:356`; the disjunct of `SettledIsTrue`). A TAO daemon has no settlement id on file before its
  claim, since `upsertTrade` refuses the `sol_` columns its terms tools file and the tools throw
  after the send: after a restart nothing can claim, and a lock whose tool threw cannot be
  refunded (`OnlyLogged`). An RFQ without `sol_mint`, heard again, sets the row of a maker bot back to
  `init` and clears the mint; with no escrow on file then, no tool can refund (`MintLost`). A
  CANCEL a daemon hears after it paid takes the trade off the open claims as well, and on a TAO
  row without a kind it files the kind `solana`, after which every TAO column is refused.
  Besides: `swaprecover claim` refuses once the refund time has passed, although the contracts do
  not, and when its transaction landed but was not filed a second call fails. Rows in `locking`,
  `init` or `invoice` are neither among the open refunds nor reconciled to a refund. The cleanup of
  a swap may overwrite a refund the operator recorded meanwhile. The taker bot files `ln_paid` again
  right after its claim and `claimed` only when its resends are over: a crash in between leaves
  a claimed Solana trade among the open claims for good.
- *Automation.* "CANCEL is only allowed before escrow is created. Enforce this here"
  (`executor.js:5810`), but the guards look in the log and the receipts, and an escrow tool that
  outlived its time limit has an escrow on the chain that is in neither: when the retries are used
  up the trade is canceled, and the escrow waits for its refund. On TAO a retried lock is a
  second HTLC (`Exposure` bounds their number). With one fault more than the run allows, a trade whose payment was made may be canceled as well:
  the payment is on the network before it is in the receipts.
- *Daemon.* A send that is answered with an error although the message went out (the bridge
  client gives up after 15 s) deletes the lock of an accept the counterparty has, and a second
  quote may be accepted; `OneQuoteAccepted` and `LineSoldOnce` leave such behaviours, and tools
  that fail while another works on the same thing, out (`Clean`). An invite writes the lock of
  its line again after its join, whatever became of its trade meanwhile: when that was canceled
  and the line sold to another trade, the lock names the wrong one, and a second CANCEL of the old trade
  frees a line that is sold (`LineSoldOnce` leaves this out, see Proofs). A crash between the lock and
  the accept leaves a lock in flight that only the same quote can use. `quote_accept` files no
  state, so autopost goes on posting the RFQ of a trade that is taken, and each post files the
  state `rfq` again. When an invite was posted and the join after it failed, a retry reports
  that the invite exists and the maker never joins by it.
- *Sidechannel.* The constructor puts a peer's own key among its inviter keys whenever invites
  are required, and `_sendAuth` returns early for an inviter: the automatic handshake of
  `SKILL.md` ("so it sends auth and is treated as authorized") never happens. A guest is
  authorized only by what its program sends; with `AppPings = FALSE` the model violates
  `Authorizes`. For the same reason `_registerChannel` never refuses anybody. A peer that leaves
  a channel and joins it again on the same connection finds the neighbours' old sessions on
  record, so nothing opens until the connection breaks. A message that comes before the
  welcome is remembered as seen and lost.

## Proofs

The theorems hold for every value of the constants that meets the named assumptions, where a run has
one small instance. Each proof has an inductive invariant (`IInv`; `TaoInv`, `RowInv` for the second
of two modules proved about together) that was checked by TLC on the run's instance before it was
proved, one step per action, and theorems that read the properties off it.

**`RecordProofs`** proves of `SwapTrade` for all peers, offers, deals, hashes, amounts, ids and
times that the trade record is always well typed and that all its properties hold of `Spec`. Four of
them are proved and not run: no evidence before ACCEPT, one author of the terms, no escrow in a
canceled trade, no way back. The invariant is `TypeOK /\ StateEvidence /\ EvidenceChain`:
`StateEvidence` says for each value of `state` exactly which pieces of evidence are present. None of
the properties is inductive without it: for instance `SettledOneWay` needs that a refund is on
record only in state `refunded`, in which `CanLnPaid` and `CanClaimed` refuse.

The second half of `RecordProofs` is about `Receipts`, for any number of crashes, restarts, failed
calls, repeated RFQs and untrue envelopes, of all eight programs: the row is enough for a tool
(`RowSuffices`), an unclaimed payment stays on the list, for a bot without exception and for a daemon
until it hears a CANCEL or an end that is not true (`PaidIsListed`), and the programs, the tools and
`swapreconcile` settle the row with what happened, so that only an envelope, or the guess of
`swapreconcile`, can settle it falsely (`SettlesTruly`). No counterparty is assumed to be honest. Its invariant is
`RowInv`. That a maker's row has what a refund needs when the
lock is out follows only from what was on file before the lock was sent (`OfMaker`), for each place
its routine may be in; that a late writer does not undo it, from `Fields`: a bot's patch never has
columns of the other settlement kind, so `upsertTrade` never refuses it. For a taker, `OfTaker` ties
the id and the preimage on file to a lock that exists; hence a `swapreconcile` that finds no lock
has missed one that ended, unless an envelope brought the id. `Ended` carries what a tool, or
`swapreconcile`, has seen over to the moment it files. None of it counts faults: the run's bound of
two is not what makes the properties hold.

**`HtlcProofs`** proves of the two contracts that no call overdraws an account (`NoOverdraft`,
`TaoNoOverdraft`), that they hold what they owe (`HoldsWhatItOwes`, `VaultsBackEscrows`), that the
Solana program neither creates nor destroys tokens, whatever its two fees round to
(`TokensConserved`), and that both implement `Htlc` step by step (`TaoImplementsHtlc`,
`SolImplementsHtlc`), so what the swap is proved against is what the contracts do. "Not overdrawn"
and "holds what it owes" are only inductive together: a claim pays out of a balance that covers it
because the balance is the sum over the open entries, and the sum stays a number of tokens because
nothing is paid twice. Over `TaoHTLC` the refinement needs one fact more: a refunded id has expired
(`SpentExpired`), and `lock` asks for a refund time in the future, so it can never be locked again,
whereas a claimed id can. The balances are sums over sets of unknown size: the first lemmas prove,
by induction over the subsets of a finite set, how such a sum changes when one summand does. The
library's sum is defined by recursion over a set; that this recursion has a solution, and only one,
is part of what is proved.

**`SwapSettlementProofs`** proves of the two bots, for every setting of the windows, margins
and deadlines, every set of faults and both settlement chains: both accepted the same deal
(`TheSameDeal`), the maker's books are true (`TheMakerRecordsTrue`), a payer has on file what
identifies payment and escrow (`ThePayerKnowsEscrow`), nobody pays but against an escrow that is
locked as agreed and open for the margin (`NoEscrowNoPay`), and a running taker is never left
with a payment made and an escrow refunded (`TheRunningTakerIsSafe`, from
`PayBound <= MinRemaining`). The invariant is the conjunction of what the channel may carry
(`Channel`: each message is what its sender still holds, so that it does no harm to hear it
late or twice), what either side may have heard (`Heard`), what the program counters of the
bots say of chain, payment and receipts (`MakerProgress`, `TakerProgress`, `Evidence`), and what
the taker read on the chain two awaits before it pays and that cannot have changed since
(`Checked`). `TheRunningTakerIsSafe` needs one more, `Margin`, that relates the time a payment was
started to the refund time.

**`MakerRfqProofs`** proves of the maker, for every number of peers, trades, RFQs and swaps and
every setting, that its maps are well typed (`TypeCorrect`), that a trade has at most one
handler that starts a swap or one swap that runs (`OneAtATime`), that the peer of either
is the one that was quoted (`QuotedPeerOnly`), that a lock that refuses reposts serves a swap
(`LocksServe`) and that capacity comes back (`CapacityComesBack`). `OnePerTrade` and `NoHijack`
need each other: what keeps a second QUOTE_ACCEPT out is the mark in `pendingSwaps`, `NoHijack`
says that the mark stands for as long as a handler is starting, and only `OnePerTrade` says that
no swap of the same trade can end meanwhile and take the mark with it. `LockServes` rests on
both, since a lock is found again through two maps that another quote of the trade may have
redirected; it needs the relation of every lock to the handler or the swap it was set for.
`CapacityReturns` needs that `activeTrades` never exceeds the number of the swaps that settle or
timed out, a cardinality. It is no exact count: the timeout of a swap gives nothing back, and the
end of one that never settled gives back too much. Every step changes one trade
(`SafePerTrade`), so each action is checked at that trade only.

**`TakerRfqProofs`** proves of the taker, for any makers, offers, quotes and flags: one maker gets
an accept in a cycle (`OneMakerPerCycle`), what it commits to is within the flags whichever
offers it followed (`FlagsHold`), and its count of trades is right (`CapacityHolds`). The invariant
says what the parts of a commitment (`chosen`, `accepting`, `joining`, `active`, `pc`) say of each
other, and that no accept is out for a trade whose cycle has not begun (`OneAccept`): accepts of
the cycles before are still on their way and makers still answer them. That `trades` equals
`completed` is part of it: `Trade` names a cycle apart from those before only because of it.

**`TradeAutoProofs`** proves of the automations, for any number of invoices, retries, payments,
faults and restarts: no payment without an escrow on the chain (`PaymentsAreBacked`), none after
an early CANCEL (`CancelStops`), no more escrows than attempts (`ExposureIsBounded`), and no tick
or stage is left waiting for nobody (`FlightsAreAwaited`). The difficulty is that a tool outlives
the tick that started it, and the stage, and the automation. So the invariant says what holds of
every tool wherever it is (`ToolsOK`), of every message in a log (`Messages`), that what was
checked before a payment stays true until it is made (`PaysAfterEscrow`), and counts attempts:
the escrows on the chain and the tools that may still lock one are together no more than the
attempts used up (`Budget`).

**`PromptRfqProofs`** proves of the daemon's negotiation, for any trades, quotes, lines and faults:
it accepts one quote (`AcceptsOneQuote`), sells a line once (`SellsLineOnce`) and gives locks back
(`LocksAreReturned`). What was said takes its listing, and the lock of the listing says so (`Sold`),
as does a tool that is about to say it (`Taking`), for as long as the trade is not canceled. What
endangers this is the tool that fails and deletes the lock it created: by then another tool of the
same trade may have spoken under that lock. So either nothing fails (`Clean`), or nothing overlaps,
and then one tool runs at a time (`Alone`), the one that may delete the lock is the first to use it
(`First`) and its trade is not canceled beneath it (`Apart`). `Returns` names for every lock in
flight the tool that created it or the message that was posted under it.

The attempt to prove `LineSoldOnce` refuted what it said before. A tool that its tick gave up on is
in the join when its trade is canceled; the CANCEL frees the line, the line is sold to a second
trade, and then the late tool writes the lock of the line once more for its own trade
(`executor.js:5226`). A second CANCEL of the old trade frees the line again, and it is sold to a
third. It takes three trades, so the run with two could not see it. The model now remembers such a
write (`late`), the property leaves these behaviours out, and the theorem says that this is all that
has to be left out.

**`SidechannelProofs`** proves of an invite-only channel, for any guests, texts, hops, connections
and faults: a program hears a text at most once (`DeliveredAtMostOnce`), only members hear one
(`ForTheInvited`), and a text sent to a neighbour that was ready for it is not lost to a copy
(`NothingIsLost`). `InviteOnly` is about texts and wires, and what makes it hold is about invites:
an invite shows that its guest was invited wherever it is carried (`Carried`), so nobody knows or
trusts a peer that was not (`Members`). `Pending` says of a text that is due that its id is not yet
remembered, or delivered: relays remember an id before they know whether they may deliver it, and
only because the sender stays authorized and the reader welcomed is the first copy that is
remembered also delivered.

### Assumptions

`OfferAssumption`, `SolAssumption`, `TaoAssumption`, `SettlementAssumption`, `MakerAssumption`,
`TakerAssumption`, `TradeAutoAssumption`, `PromptRfqAssumption`, `NullAssumption` and those of
`Sidechannel` and `HashLock` give the constants their types and keep `None` (`Null`), quotes and
names apart from the values they stand beside (`None \notin Nat`, `Quote`, `Commitment`).
`SolFinite` says that keys and hashes are finitely many, which 32 bytes make them; sums over
infinite sets mean nothing. `TaoHTLC` needs no such assumption: the entries are finitely many
because each call adds one. `TheRunningTakerIsSafe` has the hypothesis `PayBound <= MinRemaining`,
which is about the environment. TLC evaluates all the others in the runs.

### Only model-checked

Every safety property of the passing runs is stated by a theorem. Left to TLC is liveness, which
the proof system cannot treat with fairness: `Completes`, `EscrowSettles`, `Served`, `Authorizes`
and `Recorded`, and the two findings.

## What is not modelled, and the plan

`MakerRfq` rests on one fact of the bridge and the swarm library: the `leave` that ends the
cleanup of a swap is answered before the `subscribe` of a later swap of the same trade. Both
wait for a swarm flush, the leave for the earlier one. Were it not so, the resender's second
`swaps.delete` (`rfq-maker.mjs:1679`) could take the new swap off the map.

Left out of the models above: whether the guardrails of the taker on terms (fees, refund
window, price) pass is not a choice in `SwapSettlement`, whose maker proposes what was
quoted; the counterpart of a bot is the other bot, not an arbitrary peer, there
(`SwapTrade` has arbitrary peers); one swap at a time. `TakerRfq` takes a swap as one step that
ends or throws, runs with `--run-swap` and a finite `--max-trades`, and has one number for
the three fee caps; an offer does not change the settlement chain. `TradeAuto` has no clock, so the margins
between refund time and payment are with `SwapSettlement` alone, and no refund, which is the
operator's; a stage acts on the log as it is when the stage starts, the code on what the tick read a
few awaits before; and `PayTries` stands for the number of attempts and the least waiting time
(`ln_pay_fail_leave_min_wait_ms`) after which a payer gives up. `PromptRfq` leaves out expiry, liquidity and fee checks, which end a tool early.
`Receipts` has one
clock for the chain and the operator, one recovery tool at a time, takes the id of an untrue envelope
for that of no lock at all, its transaction and its id for right or wrong together, and takes an `upsertTrade` as
one step: the read and the write in it are not in one transaction, so two processes may also
overwrite each other's columns. `Sidechannel` has one channel; the entry channel, owner-only channels, proof of work and
remote open requests are left out.

What the plan has left, in order:

1. the bridge: sessions, authentication, subscriptions;
2. the price consensus, LN peer guard, RPC pool, bot and peer managers.

Not planned: the UI, the training data generator, the command line wrappers and the demo
contract of the underlying framework, which keep no swap state.
