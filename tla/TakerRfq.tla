------------------------------ MODULE TakerRfq ------------------------------
(***************************************************************************)
(* The taker's side of the negotiation in scripts/rfq-taker.mjs: its trade *)
(* cycles, the offer it may follow, the RFQ it posts again and again, the  *)
(* quote it commits to, the invitation it joins by and the count of trades.*)
(*                                                                         *)
(*  - The makers are what rfq-maker.mjs shows of them: a maker quotes any  *)
(*    RFQ of the cycle that is still valid, answers a repost with the quote*)
(*    it has on file while that is fresh, and starts a swap for an accept, *)
(*    each time it hears it.  MakerRfq has the rest.                       *)
(*  - What is sent may be heard at any time, again, or never.  A quote for *)
(*    another cycle is ignored, so quote keeps those of this one.          *)
(*  - Every repost has a new rfq_id.  Only the last one matters: it is     *)
(*    "cur", and the ones before are "old".                                *)
(*  - The three fee caps are one number, and so are the amounts' units.    *)
(*  - The taker runs with --run-swap and a finite --max-trades.  What      *)
(*    happens inside a swap is with SwapSettlement: here it ends well, or  *)
(*    it throws, which ends the process.                                   *)
(*  - A request to the bridge is answered or given up after 15 s, before   *)
(*    the swap it asks for is over.                                        *)
(***************************************************************************)
EXTENDS Integers

CONSTANTS
    Makers,
    MaxTrades,   \* --max-trades
    Listen,      \* --listen-offers
    Bounds,      \* --min-/--max-btc-sats: [min, max]
    TaoPair,     \* the pair is settled over TAO: an offer's min and max are one
    Own,         \* what the flags ask for: [btc, amount, fee, min, max]
    Offers,      \* what may be announced, likewise
    Quotes,      \* what may be quoted: [btc, amount, fee, window]
    MaxFaults,   \* bound on failed sends and joins
    None

Deal == [btc : Nat, amount : Nat, fee : Nat, min : Nat, max : Nat]
Commitment == [maker : Makers, terms : Quotes]

ASSUME TakerAssumption ==
    /\ {MaxTrades, MaxFaults} \subseteq Nat /\ {Listen, TaoPair} \subseteq BOOLEAN
    /\ Offers \cup {Own} \subseteq Deal
    /\ Quotes \subseteq [btc : Nat, amount : Nat, fee : Nat, window : Nat]
    /\ Own.btc \in Bounds.min .. Bounds.max
    /\ None \notin Commitment

VARIABLES
    pc,         \* where runSingleTradeCycle is
    deal,       \* what the RFQ of this cycle asks for
    lapse,      \* of the offer that is followed: "never", "later" or "over"
    trades, completed, active,   \* tradeCount, completedTrades, activeTrades
    loop,       \* scheduleNextRfqAttempt
    overdue,    \* Date.now() > deadlineMs
    chosen,     \* the quote committed to, with its maker
    accepting,  \* the send of the accept is not answered yet
    joining,    \* joinSwapInFlight
    quote,      \* the quote of each maker: [rfq, terms, fresh]
    rfqs,       \* the RFQs posted in this cycle
    accepts, invites,   \* <<maker, trade>> of accepts and invitations sent
    stopped,    \* makers that crashed or reached their --max-trades
    faults

cycle == <<deal, lapse, trades, completed>>
commitment == <<chosen, accepting, joining, active>>
makers == <<quote, rfqs, invites, stopped>>
vars == <<pc, cycle, loop, overdue, commitment, makers, accepts, faults>>

Trade == trades + 1

Init ==
    /\ pc = "idle"
    /\ deal = Own /\ lapse = "never"
    /\ trades = 0 /\ completed = 0 /\ active = 0
    /\ loop = "ended" /\ overdue = FALSE
    /\ chosen = None /\ accepting = FALSE /\ joining = FALSE
    /\ quote = [m \in Makers |-> None]
    /\ rfqs = {} /\ accepts = {} /\ invites = {}
    /\ stopped = {} /\ faults = 0

Fault == faults < MaxFaults /\ faults' = faults + 1

-----------------------------------------------------------------------------
\* getRemainingCapacity() > 0
CapacityLeft == completed + active < MaxTrades

InBounds(btc) == btc \in Bounds.min .. Bounds.max

\* matchOfferAnnouncementEvent: the caps of the flags are never exceeded.
\* mutant: the largest refund window of an offer is not compared
MutMatches(o) == o.fee <= Own.fee /\ Own.min <= o.min /\ o.min <= o.max
Matches(o) == o.fee <= Own.fee /\ Own.min <= o.min /\ o.min <= o.max /\ o.max <= Own.max

\* The checks of the QUOTE handler.  Over TAO the shortest refund window is
\* that of the flags (resolveEffectiveQuoteMinRefundWindowSec).
Fits(q, d) == /\ q.btc = d.btc /\ q.amount >= d.amount /\ q.fee <= d.fee
              /\ q.window >= (IF TaoPair THEN Own.min ELSE d.min) /\ q.window <= d.max

-----------------------------------------------------------------------------
\* The loop of main and the head of runSingleTradeCycle: what an earlier
\* cycle followed is forgotten.
Begins ==
    /\ pc = "idle" /\ trades < MaxTrades
    /\ pc' = IF Listen THEN "listen" ELSE "start"
    /\ deal' = Own /\ lapse' = "never"
    /\ loop' = "ended" /\ overdue' = FALSE
    /\ chosen' = None
    /\ quote' = [m \in Makers |-> None] /\ rfqs' = {}
    /\ UNCHANGED <<trades, completed, active, accepting, joining, accepts, invites,
                   stopped, faults>>

Exits ==
    /\ pc = "idle" /\ trades >= MaxTrades
    /\ pc' = "exit"
    /\ UNCHANGED <<cycle, loop, overdue, commitment, makers, accepts, faults>>

\* An offer within the flags and the size bounds is followed.
FollowsOffer(o, until) ==
    /\ pc = "listen" /\ Matches(o) /\ InBounds(o.btc)
    /\ pc' = "start" /\ deal' = o /\ lapse' = until
    /\ UNCHANGED <<trades, completed, loop, overdue, commitment, makers, accepts, faults>>

\* The settlement runtime is there: the first RFQ is sent, or the cycle is
\* skipped and not counted.
Posts ==
    /\ pc = "start"
    /\ IF CapacityLeft /\ InBounds(deal.btc)
       THEN pc' = "posting" /\ rfqs' = {"cur"}
       ELSE pc' = "idle" /\ UNCHANGED rfqs
    /\ UNCHANGED <<cycle, loop, overdue, commitment, quote, invites, stopped, accepts, faults>>

\* Only when the send is answered are messages listened to and the timers set.
Posted ==
    /\ pc = "posting"
    /\ pc' = "open" /\ loop' = "waiting"
    /\ UNCHANGED <<cycle, overdue, commitment, makers, accepts, faults>>

\* An await of the head throws: so does main.
StartFails ==
    /\ pc \in {"start", "posting"} /\ Fault
    /\ pc' = "dead"
    /\ UNCHANGED <<cycle, loop, overdue, commitment, makers, accepts>>

-----------------------------------------------------------------------------
\* scheduleNextRfqAttempt: it looks at the commitment and at the deadline
\* before it waits and after, and is over for good when either says so.
GoesOn == chosen = None /\ ~overdue

Reposts ==
    /\ pc = "open" /\ loop = "waiting"
    /\ IF GoesOn
       THEN /\ loop' = "sending"
            /\ rfqs' = {"cur", "old"}
            /\ quote' = [m \in Makers |-> IF quote[m] = None THEN None
                                          ELSE [quote[m] EXCEPT !.rfq = "old"]]
       ELSE loop' = "ended" /\ UNCHANGED <<rfqs, quote>>
    /\ UNCHANGED <<pc, cycle, overdue, commitment, invites, stopped, accepts, faults>>

\* The repost is answered or failed, which is only logged.
Reposted ==
    /\ pc = "open" /\ loop = "sending"
    /\ loop' = IF GoesOn THEN "waiting" ELSE "ended"
    /\ UNCHANGED <<pc, cycle, overdue, commitment, makers, accepts, faults>>

\* --timeout-sec is over; the next tick of enforceTimeout begins it anew.
DeadlinePasses ==
    /\ pc = "open" /\ ~overdue
    /\ overdue' = TRUE
    /\ UNCHANGED <<pc, cycle, loop, commitment, makers, accepts, faults>>

EnforceTimeout ==
    /\ pc = "open" /\ overdue
    /\ overdue' = FALSE
    /\ UNCHANGED <<pc, cycle, loop, commitment, makers, accepts, faults>>

\* The offer's valid_until_unix bounds that of the RFQs.
OfferLapses ==
    /\ lapse = "later"
    /\ lapse' = "over"
    /\ UNCHANGED <<pc, deal, trades, completed, loop, overdue, commitment, makers, accepts, faults>>

-----------------------------------------------------------------------------
\* A maker quotes a valid RFQ, unless it has a fresh quote on file: then it
\* sends that one again.
MakerQuotes(m, r, q) ==
    /\ r \in rfqs /\ lapse # "over" /\ m \notin stopped
    /\ <<m, Trade>> \notin invites
    /\ quote[m] # None => ~quote[m].fresh
    /\ quote' = [quote EXCEPT ![m] = [rfq |-> r, terms |-> q, fresh |-> TRUE]]
    /\ UNCHANGED <<pc, cycle, loop, overdue, commitment, rfqs, invites, stopped, accepts, faults>>

QuoteExpires(m) ==
    /\ quote[m] # None /\ quote[m].fresh
    /\ quote' = [quote EXCEPT ![m].fresh = FALSE]
    /\ UNCHANGED <<pc, cycle, loop, overdue, commitment, rfqs, invites, stopped, accepts, faults>>

\* QUOTE_ACCEPT starts the swap and invites the taker.
MakerInvites(m) ==
    /\ <<m, Trade>> \in accepts \ invites /\ m \notin stopped
    /\ invites' = invites \cup {<<m, Trade>>}
    /\ UNCHANGED <<pc, cycle, loop, overdue, commitment, quote, rfqs, stopped, accepts, faults>>

MakerStops(m) ==
    /\ m \notin stopped /\ Fault
    /\ stopped' = stopped \cup {m}
    /\ UNCHANGED <<pc, cycle, loop, overdue, commitment, quote, rfqs, invites, accepts>>

-----------------------------------------------------------------------------
\* QUOTE: the first that answers the last RFQ and fits is committed to.
\* mutant: the commitment is known by the trade it takes up, which is
\* counted when the accept was sent
MutUncommitted == active = 0
Uncommitted == chosen = None

\* The taker goes by what it sent last.
SendsAccept(m) == accepts' = accepts \cup {<<m, Trade>>}

HearsQuote(m) ==
    /\ pc = "open" /\ quote[m] # None
    /\ quote[m].rfq = "cur" /\ quote[m].fresh /\ Fits(quote[m].terms, deal)
    /\ Uncommitted /\ CapacityLeft /\ InBounds(quote[m].terms.btc)
    /\ chosen' = [maker |-> m, terms |-> quote[m].terms]
    /\ accepting' = TRUE
    /\ \/ SendsAccept(m) /\ UNCHANGED faults
       \/ Fault /\ UNCHANGED accepts
    /\ UNCHANGED <<pc, cycle, loop, overdue, joining, active, makers>>

AcceptSent ==
    /\ accepting
    /\ accepting' = FALSE /\ active' = active + 1
    /\ UNCHANGED <<pc, cycle, loop, overdue, chosen, joining, makers, accepts, faults>>

\* The bridge says no, or nothing in time: the handler ends, and the trade
\* is not counted.
AcceptFails ==
    /\ accepting /\ Fault
    /\ accepting' = FALSE
    /\ UNCHANGED <<pc, cycle, loop, overdue, chosen, joining, active, makers, accepts>>

\* resendAcceptTimer, until the swap is joined.
\* mutant: the accept is sent again only if its send failed
MutResendsAccept == accepting /\ chosen # None
ResendsAccept == chosen # None

AcceptResent ==
    /\ pc = "open" /\ ResendsAccept /\ ~overdue
    /\ SendsAccept(chosen.maker)
    /\ UNCHANGED <<pc, cycle, loop, overdue, commitment, makers, faults>>

\* SWAP_INVITE for the quote that was accepted.
HearsInvite(m) ==
    /\ pc = "open" /\ <<m, Trade>> \in invites
    /\ chosen # None /\ chosen.maker = m
    /\ ~joining
    /\ joining' = TRUE
    /\ UNCHANGED <<pc, cycle, loop, overdue, chosen, accepting, active, makers, accepts, faults>>

Joined ==
    /\ joining
    /\ joining' = FALSE
    /\ pc' = "swap" /\ loop' = "ended"
    /\ UNCHANGED <<cycle, overdue, chosen, accepting, active, makers, accepts, faults>>

\* The next invitation is tried.
JoinFails ==
    /\ joining /\ Fault
    /\ joining' = FALSE
    /\ UNCHANGED <<pc, cycle, loop, overdue, chosen, accepting, active, makers, accepts>>

-----------------------------------------------------------------------------
\* The end of startSwap.
\* mutant: what the trade took up is given back only when the process ends
MutReleased == active
Released == IF active > 0 THEN active - 1 ELSE active

SwapDone ==
    /\ pc = "swap" /\ ~accepting
    /\ completed' = completed + 1 /\ active' = Released
    /\ trades' = trades + 1
    /\ pc' = "idle"
    /\ UNCHANGED <<deal, lapse, loop, overdue, chosen, accepting, joining, makers, accepts, faults>>

\* startSwap throws: the process dies.
SwapFails ==
    /\ pc = "swap"
    /\ pc' = "dead"
    /\ UNCHANGED <<cycle, loop, overdue, commitment, makers, accepts, faults>>

TakerNext ==
    \/ Begins \/ Exits \/ Posts \/ Posted \/ StartFails
    \/ \E o \in Offers, until \in {"never", "later"} : FollowsOffer(o, until)
    \/ Reposts \/ Reposted \/ DeadlinePasses \/ EnforceTimeout
    \/ AcceptSent \/ AcceptFails \/ AcceptResent
    \/ \E m \in Makers : HearsQuote(m) \/ HearsInvite(m)
    \/ Joined \/ JoinFails \/ SwapDone \/ SwapFails
MakersNext ==
    \E m \in Makers :
        \/ \E r \in {"cur", "old"}, q \in Quotes : MakerQuotes(m, r, q)
        \/ QuoteExpires(m) \/ MakerInvites(m) \/ MakerStops(m)
Next == TakerNext \/ MakersNext \/ OfferLapses

Spec == Init /\ [][Next]_vars

\* The taker's timers and awaits go on; a quote expires; what is sent again
\* and again is heard in the end; and some maker that hears the RFQ can meet it.
MakerMeets(m) == \E q \in Quotes : Fits(q, deal) /\ MakerQuotes(m, "cur", q)

Fairness ==
    /\ WF_vars(Begins) /\ WF_vars(Posts) /\ WF_vars(Posted)
    /\ WF_vars(Reposts) /\ WF_vars(Reposted) /\ WF_vars(EnforceTimeout)
    /\ WF_vars(AcceptSent) /\ SF_vars(AcceptResent) /\ WF_vars(Joined)
    /\ \A m \in Makers : /\ WF_vars(QuoteExpires(m)) /\ WF_vars(HearsInvite(m))
                         /\ WF_vars(MakerInvites(m)) /\ SF_vars(HearsQuote(m))
    /\ SF_vars(\E m \in Makers : MakerMeets(m))

FairSpec == Spec /\ Fairness

-----------------------------------------------------------------------------
\* "Prevent multiple makers from matching the same taker cycle concurrently":
\* whatever is quoted, repeated or lost, one maker gets an accept in a cycle,
\* and the swap that is joined is with that one.
OneMaker ==
    /\ \A a, b \in accepts : a[2] = b[2] => a = b
    /\ pc = "swap" => <<chosen.maker, Trade>> \in accepts

\* The quote committed to is within what the operator allowed by the flags,
\* whichever offers this cycle and the ones before followed.
WithinFlags ==
    chosen # None => /\ chosen.terms.fee <= Own.fee
                     /\ chosen.terms.window \in Own.min .. Own.max
                     /\ InBounds(chosen.terms.btc)

\* Never more trades than --max-trades, and what a trade took up is given
\* back when its cycle is over: "exits cleanly only after the configured
\* finite capacity is consumed".
Capacity ==
    /\ completed + active <= MaxTrades
    /\ pc \in {"idle", "listen", "start", "posting"} => active = 0
    /\ pc = "exit" => completed = MaxTrades

\* The RFQ goes on being posted until a maker is committed to.
LoopRuns == pc = "open" /\ chosen = None => loop # "ended"

\* A taker whose loop runs gets its swap, whatever messages are lost, if its
\* offer does not lapse and no maker stops.
Calm == LoopRuns /\ lapse # "over" /\ stopped = {} /\ pc # "dead"
Served == []Calm => ((pc = "open") ~> (pc = "swap"))
=============================================================================
