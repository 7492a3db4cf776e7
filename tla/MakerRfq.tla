------------------------------ MODULE MakerRfq ------------------------------
(***************************************************************************)
(* The maker's side of the negotiation in scripts/rfq-maker.mjs, for many  *)
(* RFQs at once: quotes and RFQ locks, QUOTE_ACCEPT, the start and the end *)
(* of swaps, the prune timer and the count of trades.                      *)
(*                                                                         *)
(*  - The handler of `sidechannel_message' is async and its events are not *)
(*    awaited: handlers interleave at their awaits.  quoting and inviting  *)
(*    hold the handlers of RFQ and QUOTE_ACCEPT that are in an await.      *)
(*  - The leave of a channel that is cleaned up is requested before a later*)
(*    swap of the trade joins it, and waits for no swarm flush that the join*)
(*    does not wait for: the resender's second swaps.delete after its leave*)
(*    comes before that swap is on file, and leaves no trace here.         *)
(*  - The channel of a swap is named after its trade (the template has     *)
(*    {trade_id}), so the maps keyed by swap channel are keyed by trade    *)
(*    here.                                                                *)
(*  - Any peer may send any RFQ or QUOTE_ACCEPT, at any time and again.    *)
(*    What an ignored message changes is only logs and time stamps.        *)
(*  - The maker runs with --run-swap and without --once.                   *)
(*  - What happens inside a swap is reduced to what is counted here: the   *)
(*    start of the settlement (ACCEPT) and the end.  SwapSettlement has    *)
(*    the rest.                                                            *)
(***************************************************************************)
EXTENDS Integers

CONSTANTS
    Peer, Trade, Key,
    Rfq,         \* [signer, trade, key, n, until]: n tells RFQ messages apart,
                 \* until is valid_until_unix, key what buildRfqLockKey makes
    Swap,        \* names for the contexts of started swaps
    MaxTrades,   \* --max-trades; 0 is no limit
    QuoteValid,  \* --quote-valid-sec
    SwapTimeout, \* --swap-timeout-sec
    MaxTime,     \* bound on the clock
    None

Quote == [rfq : Rfq, until : Int]
Idle == [phase |-> "idle"]

ASSUME MakerAssumption ==
    /\ \A r \in Rfq : r.signer \in Peer /\ r.trade \in Trade /\ r.key \in Key
    /\ {MaxTrades, QuoteValid, SwapTimeout, MaxTime} \subseteq Nat
    /\ None \notin Peer \cup Key \cup Swap /\ None \notin Quote

VARIABLES
    now,
    quotes,      \* quotes sent and on file: never dropped
    locks,       \* rfqLocks: [state, quote, channel, deadline] by key, or None
    tradeLock, channelLock,   \* tradeIdToLockKey, swapChannelToLockKey
    pending,     \* pendingSwaps: the invitee, by trade
    swaps,       \* the running context, by trade
    ctx,         \* every context ever started; Idle stands for the others
    active, completed, shouldStop,
    quoting, inviting

books == <<quotes, locks, tradeLock, channelLock>>
running == <<pending, swaps, ctx>>
counts == <<active, completed, shouldStop>>
work == <<quoting, inviting>>
vars == <<now, books, running, counts, work>>

Init ==
    /\ now = 0
    /\ quotes = {}
    /\ locks = [k \in Key |-> None]
    /\ tradeLock = [t \in Trade |-> None]
    /\ channelLock = [t \in Trade |-> None]
    /\ pending = [t \in Trade |-> None]
    /\ swaps = [t \in Trade |-> None]
    /\ ctx = [s \in Swap |-> Idle]
    /\ active = 0 /\ completed = 0 /\ shouldStop = FALSE
    /\ quoting = {} /\ inviting = {}

-----------------------------------------------------------------------------
\* getRemainingCapacity() > 0
CapacityLeft == MaxTrades = 0 \/ completed + active < MaxTrades

\* clearRfqLock: the lock under k goes, with the references that point to it.
\* mutant: the lock stays
MutClearLock(k) == UNCHANGED <<locks, tradeLock, channelLock>>
ClearLock(k) ==
    LET lock == IF k = None THEN None ELSE locks[k] IN
    IF lock = None
    THEN UNCHANGED <<locks, tradeLock, channelLock>>
    ELSE /\ locks' = [locks EXCEPT ![k] = None]
         /\ tradeLock' = [t \in Trade |->
               IF t = lock.quote.rfq.trade /\ tradeLock[t] = k THEN None ELSE tradeLock[t]]
         /\ channelLock' = [t \in Trade |->
               IF t = lock.channel /\ channelLock[t] = k THEN None ELSE channelLock[t]]

\* A handler keeps its lock object over an await; what it writes counts only
\* if the object is still the one on file.
OnFile(q) == locks[q.rfq.key] # None /\ locks[q.rfq.key].quote = q
SetLock(q, state, channel, deadline) ==
    locks' = IF OnFile(q)
             THEN [locks EXCEPT ![q.rfq.key] =
                     [state |-> state, quote |-> q, channel |-> channel,
                      deadline |-> deadline]]
             ELSE locks

-----------------------------------------------------------------------------
\* RFQ.  A valid quote is sent again, an RFQ in flight ignored, an expired
\* quote's lock dropped; with capacity left the fees are fetched.  A repeated
\* RFQ whose handlers overlap is one with another n.
RfqArrives(r) ==
    LET lock == locks[r.key] IN
    /\ ~shouldStop /\ now < r.until
    /\ r \notin {w.rfq : w \in quoting}
    /\ lock # None => lock.state = "quoted" /\ lock.quote.until <= now
    /\ ClearLock(r.key)
    /\ quoting' = IF CapacityLeft THEN quoting \cup {[rfq |-> r, until |-> None]}
                                  ELSE quoting
    /\ UNCHANGED <<now, quotes, running, counts, inviting>>

\* The fees are there: the quote is signed and sent.
QuoteSent(r) ==
    /\ [rfq |-> r, until |-> None] \in quoting
    /\ quoting' = (quoting \ {[rfq |-> r, until |-> None]})
                     \cup {[rfq |-> r, until |-> now + QuoteValid]}
    /\ UNCHANGED <<now, books, running, counts, inviting>>

\* The send is done: the quote and its lock are filed, over whatever lock is
\* there by now.
QuoteFiled(q) ==
    /\ q \in quoting /\ q.until # None
    /\ quoting' = quoting \ {q}
    /\ quotes' = quotes \cup {q}
    /\ locks' = [locks EXCEPT ![q.rfq.key] =
                   [state |-> "quoted", quote |-> q, channel |-> None, deadline |-> 0]]
    /\ tradeLock' = [tradeLock EXCEPT ![q.rfq.trade] = q.rfq.key]
    /\ UNCHANGED <<now, channelLock, running, counts, inviting>>

\* A fee or term limit is not met, or a call throws.
QuoteDropped(w) ==
    /\ w \in quoting
    /\ quoting' = quoting \ {w}
    /\ UNCHANGED <<now, books, running, counts, inviting>>

-----------------------------------------------------------------------------
\* QUOTE_ACCEPT of quote q by peer p.  Only the signer of the RFQ may accept;
\* while a swap of the trade is starting or running it is a retry, which only
\* sends again what was sent.
\* mutant: whoever knows a quote may accept it
MutMayAccept(q, p) == q \in quotes
MayAccept(q, p) == q \in quotes /\ p = q.rfq.signer
\* mutant: the mark of a starting swap is not looked at
MutIsRetry(t) == swaps[t] # None
IsRetry(t) == swaps[t] # None \/ pending[t] # None

AcceptArrives(q, p) ==
    LET t == q.rfq.trade
        lock == locks[q.rfq.key]  \* known.lock_key
    IN /\ MayAccept(q, p) /\ ~IsRetry(t) /\ ~shouldStop
       /\ pending' = [pending EXCEPT ![t] = p]
       /\ IF lock = None
          THEN UNCHANGED <<locks, tradeLock, channelLock>>
          ELSE /\ SetLock(lock.quote, "accepting", t, now + SwapTimeout)
               /\ tradeLock' = [tradeLock EXCEPT ![t] = q.rfq.key]
               /\ channelLock' = [channelLock EXCEPT ![t] = q.rfq.key]
       /\ inviting' = inviting \cup {[quote |-> q, peer |-> p,
                          lock |-> IF lock = None THEN None ELSE lock.quote]}
       /\ UNCHANGED <<now, quotes, swaps, ctx, counts, quoting>>

\* The invitation is sent, the channel joined: the swap starts.
SwapStarts(w, s) ==
    LET t == w.quote.rfq.trade IN
    /\ w \in inviting
    /\ ctx[s] = Idle
    /\ inviting' = inviting \ {w}
    /\ pending' = [pending EXCEPT ![t] = None]
    /\ swaps' = [swaps EXCEPT ![t] = s]
    /\ ctx' = [ctx EXCEPT ![s] = [quote |-> w.quote, invitee |-> w.peer,
                  phase |-> "open", deadline |-> now + SwapTimeout]]
    /\ IF w.lock = None
       THEN UNCHANGED <<locks, channelLock>>
       ELSE /\ SetLock(w.lock, "swapping", t, now + SwapTimeout)
            /\ channelLock' = [channelLock EXCEPT ![t] = w.lock.rfq.key]
    /\ UNCHANGED <<now, quotes, tradeLock, counts, quoting>>

\* An await of the start throws: the lock is rolled back.
InviteFails(w) ==
    LET t == w.quote.rfq.trade IN
    /\ w \in inviting
    /\ inviting' = inviting \ {w}
    /\ pending' = [pending EXCEPT ![t] = None]
    /\ IF w.lock = None THEN UNCHANGED locks ELSE SetLock(w.lock, "quoted", None, 0)
    /\ channelLock' = [channelLock EXCEPT ![t] = None]
    /\ UNCHANGED <<now, quotes, tradeLock, swaps, ctx, counts, quoting>>

-----------------------------------------------------------------------------
Live(s) == ctx[s].phase \in {"open", "skipped", "settling"}
TradeOf(s) == ctx[s].quote.rfq.trade

\* ACCEPT of the terms, heard on the channel of a swap on file, starts the
\* settlement unless the capacity is used up.
SettlementStarts(s) ==
    /\ ctx[s].phase = "open" /\ swaps[TradeOf(s)] = s
    /\ IF MaxTrades > 0 /\ completed >= MaxTrades
       THEN ctx' = [ctx EXCEPT ![s].phase = "skipped"] /\ UNCHANGED active
       ELSE ctx' = [ctx EXCEPT ![s].phase = "settling"] /\ active' = active + 1
    /\ UNCHANGED <<now, books, pending, swaps, completed, shouldStop, work>>

\* cleanupSwap: the trade's swap and mark go, and the lock the trade points to.
Cleanup(s, phase) ==
    LET t == TradeOf(s) IN
    /\ ctx' = [ctx EXCEPT ![s].phase = phase]
    /\ swaps' = [swaps EXCEPT ![t] = None]
    /\ pending' = [pending EXCEPT ![t] = None]
    /\ ClearLock(IF channelLock[t] # None THEN channelLock[t] ELSE tradeLock[t])

\* mutant: the end of a swap gives nothing back
MutReleased == active
\* mutant: the end of a swap gives back what it may not have taken
MutReleasedTwice == active - 1
Released == IF active > 0 THEN active - 1 ELSE active

\* A final state ends the swap: claimed, or canceled / refunded.
SwapEnds(s) ==
    /\ Live(s) /\ swaps[TradeOf(s)] = s
    /\ \/ /\ ctx[s].phase = "settling" /\ Cleanup(s, "claimed")
          /\ completed' = completed + 1
          /\ shouldStop' = IF MaxTrades > 0 /\ completed' >= MaxTrades
                            THEN TRUE ELSE shouldStop
       \/ Cleanup(s, "canceled") /\ UNCHANGED <<completed, shouldStop>>
    /\ active' = Released
    /\ UNCHANGED <<now, quotes, quoting, inviting>>

\* The resender at the deadline.
SwapTimesOut(s) ==
    /\ Live(s) /\ now > ctx[s].deadline
    /\ Cleanup(s, "expired")
    /\ UNCHANGED <<now, quotes, counts, quoting, inviting>>

\* lockPruneTimer
Stale(lock) == IF lock.state = "quoted" THEN now > lock.quote.until
                                        ELSE now > lock.deadline
Prunes(k) ==
    /\ locks[k] # None /\ Stale(locks[k])
    /\ ClearLock(k)
    /\ UNCHANGED <<now, quotes, running, counts, work>>

Tick == now < MaxTime /\ now' = now + 1
        /\ UNCHANGED <<books, running, counts, work>>

Next ==
    \/ \E r \in Rfq : RfqArrives(r) \/ QuoteSent(r)
    \/ \E w \in quoting : QuoteFiled(w) \/ QuoteDropped(w)
    \/ \E q \in quotes, p \in Peer : AcceptArrives(q, p)
    \/ \E w \in inviting : InviteFails(w) \/ \E s \in Swap : SwapStarts(w, s)
    \/ \E s \in Swap : SettlementStarts(s) \/ SwapEnds(s) \/ SwapTimesOut(s)
    \/ \E k \in Key : Prunes(k)
    \/ Tick

Spec == Init /\ [][Next]_vars

-----------------------------------------------------------------------------
Lock == [state : {"quoted", "accepting", "swapping"}, quote : quotes,
         channel : Trade \cup {None}, deadline : Nat]
Context == [quote : quotes, invitee : Peer, deadline : Nat,
            phase : {"open", "skipped", "settling", "claimed", "canceled", "expired"}]

\* Every variable holds a value of its kind; whatever refers to a quote
\* refers to one on file.
TypeOK ==
    /\ now \in 0..MaxTime
    /\ \A q \in quotes : q.rfq \in Rfq /\ q.until \in Nat
    /\ locks \in [Key -> Lock \cup {None}]
    /\ tradeLock \in [Trade -> Key \cup {None}]
    /\ channelLock \in [Trade -> Key \cup {None}]
    /\ pending \in [Trade -> Peer \cup {None}]
    /\ swaps \in [Trade -> Swap \cup {None}]
    /\ ctx \in [Swap -> Context \cup {Idle}]
    /\ active \in Nat /\ completed \in Nat /\ shouldStop \in BOOLEAN
    /\ \A w \in quoting : w.rfq \in Rfq /\ w.until \in Nat \cup {None}
    /\ \A w \in inviting : /\ w.quote \in quotes /\ w.peer \in Peer
                           /\ w.lock \in quotes \cup {None}

\* A swap channel serves one swap and one peer at a time, whatever handlers
\* interleave and whatever is repeated: of all handlers that start a swap and
\* all swaps that live there is at most one per trade, and the maps find it.
Starting(t) == {w \in inviting : w.quote.rfq.trade = t}
Running(t) == {s \in Swap : Live(s) /\ TradeOf(s) = t}
OnePerTrade ==
    \A t \in Trade :
        /\ \A v, w \in Starting(t) : v = w
        /\ \A s \in Running(t) : swaps[t] = s /\ Starting(t) = {}
        /\ swaps[t] # None => swaps[t] \in Running(t)

\* "Only the original RFQ signer is allowed to accept its quote": the peer of
\* a swap, and the peer marked as starting one, is the one that was quoted.
NoHijack ==
    /\ \A t \in Trade : \A s \in Running(t) :
          ctx[s].invitee = ctx[s].quote.rfq.signer
    /\ \A t \in Trade : \A w \in Starting(t) :
          w.peer = w.quote.rfq.signer /\ pending[t] = w.peer

\* A lock that refuses reposts because a swap is starting or running does so
\* for a swap that is: it is dropped or rolled back when the swap is over.
LockServes ==
    \A k \in Key : locks[k] # None /\ locks[k].state # "quoted" =>
        Starting(locks[k].channel) # {} \/ Running(locks[k].channel) # {}

\* Capacity that is not used up comes back: with trades to go and no swap
\* left, none of which timed out, the maker quotes again.  (The timeout of a
\* swap does not take it off activeTrades.)
CapacityReturns ==
    completed < MaxTrades /\ (\A s \in Swap : ~Live(s) /\ ctx[s].phase # "expired")
        => CapacityLeft
=============================================================================
