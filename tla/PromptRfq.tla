------------------------------ MODULE PromptRfq ------------------------------
(***************************************************************************)
(* The negotiation as the prompt daemon does it: src/prompt/tradeAuto.js   *)
(* (quote, accept, invite, join), the tools of src/prompt/executor.js it   *)
(* and the operator call, autopost.js, and the listing locks of            *)
(* src/receipts/store.js that say what is taken.                           *)
(*                                                                         *)
(*  - A daemon takes quotes for a trade of its own (its RFQ is posted      *)
(*    again and again) or sells the lines of its offer to the trades of    *)
(*    others.  The two use different locks; side says which of the two a   *)
(*    behaviour looks at.                                                  *)
(*  - A tool is a task with a program counter and yields at its awaits.    *)
(*    It may outlive the tick that started it, and the operator may start  *)
(*    a second one.                                                        *)
(*  - The log is in memory and gone after a crash; locks and receipts are  *)
(*    files; the peer is another process and stays in its channels.        *)
(*  - A tick handles up to twelve events with what it read at its start;   *)
(*    here each is a tick of its own, and the tool looks again anyway.     *)
(*  - Left out: the expiry of quotes, RFQs and offers, retry delays, the   *)
(*    liquidity and fee checks (a failed one is a failed tool), and the    *)
(*    settlement: a trade may be canceled until it is claimed.  It settles *)
(*    on Solana (over TAO a CANCEL that is heard is not filed).            *)
(***************************************************************************)
EXTENDS Integers, FiniteSets

CONSTANTS
    Own,          \* the daemon's own trade
    Theirs,       \* the trades of others
    Quotes,       \* the quotes others make for the own trade
    MaxLines,     \* the lines of the offer that match the trades of others
    QuoteFromRfqs,   \* enable_quote_from_rfqs: quote without an offer, too
    MaxFaults,    \* bound on what goes wrong, and on calls by the operator
    None          \* no line; also the one bid of messages without

ASSUME PromptRfqAssumption ==
    /\ {MaxLines, MaxFaults} \subseteq Nat /\ QuoteFromRfqs \in BOOLEAN
    /\ Own \notin Theirs /\ None \notin Quotes
    /\ (Quotes \cup {Own, None}) \cap Nat = {}

Trade == {Own} \cup Theirs
Line == 1 .. MaxLines

\* What an accept takes: one of the quotes for the own trade, or a quote for
\* another's trade, of which only the line matters here.
Bid == Quotes \cup Line \cup {None}

Op == {"rfq", "quote", "accept", "invite", "join", "cancel"}
Kind == {"offer", "rfq", "quote", "accept", "invite", "claimed", "cancel"}
Message == [kind : Kind, trade : Trade, bid : Bid]
Event == [op : Op, trade : Trade, bid : Bid]
Point == {"start", "lock", "send", "sent", "join"}
Task == [op : Op, trade : Trade, bid : Bid, pc : Point,
         live : BOOLEAN, created : BOOLEAN, id : 0 .. MaxFaults]

\* The listing locks: rfq_trade of the own trade, and offer_line of each line.
Listing == {Own} \cup Line
Free == [state |-> "free", trade |-> None, bid |-> None]
ListingLock == [state : {"free", "in_flight", "filled"}, trade : Trade \cup {None}, bid : Bid]

VARIABLES
    side,
    log,      \* _scLog of this process
    said,     \* what was ever said on the channels
    lock,     \* listing_locks
    file,     \* receipts: state
    joined,   \* the trades whose swap channel the peer has joined
    done,     \* _autoQuotedRfqSig, _autoAcceptedQuoteSig, _autoInvitedAcceptSig,
              \* _autoJoinedInviteSig
    tradeLock,   \* _autoAcceptedTradeLock
    busy,     \* _tickInFlight
    tools,    \* the tools that run
    faults, seen    \* how many faults there were, and of which kinds

automation == <<done, tradeLock, busy>>
vars == <<side, log, said, lock, file, joined, automation, tools, faults, seen>>

-----------------------------------------------------------------------------
Say(k, t, b) == [kind |-> k, trade |-> t, bid |-> b]
InLog(k, t) == \E m \in log : m.kind = k /\ m.trade = t

Over(t) == Say("cancel", t, None) \in said

\* _inspectListingState
Terminal(t) == InLog("claimed", t) \/ InLog("cancel", t) \/ file[t] \in {"claimed", "canceled"}
SwapChannel(t) == InLog("invite", t) \/ file[t] = "active" \/ t \in joined
InFlight(t) == InLog("accept", t) \/ SwapChannel(t)

\* The lock a task needs; an unbound quote needs none.
ListingOf(t) == IF t.op = "accept" THEN Own ELSE t.bid
Locking(t) == t.op = "accept" \/ (t.op = "invite" /\ t.bid # None)
HeldBy(t) == [state |-> "in_flight", trade |-> t.trade, bid |-> t.bid]

\* mutants: any quote of the trade repeats its accept; a lock in flight is ignored
MutReplays(t) == lock[ListingOf(t)].state = "in_flight" /\ lock[ListingOf(t)].trade = t.trade
MutAvailable(t) == lock[ListingOf(t)].state # "filled"

\* An accept is repeated only for the same quote, an invite for the same trade.
Replays(t) ==
    LET l == lock[ListingOf(t)]
    IN  l.state = "in_flight" /\ l.trade = t.trade /\ (t.op = "accept" => l.bid = t.bid)

Available(t) == lock[ListingOf(t)] = Free

FilledBy(t) ==
    [l \in Listing |-> IF lock[l].state # "free" /\ lock[l].trade = t
                       THEN [lock[l] EXCEPT !.state = "filled"] ELSE lock[l]]
ReleasedBy(t) ==
    [l \in Listing |-> IF lock[l].state # "free" /\ lock[l].trade = t THEN Free ELSE lock[l]]

Init ==
    /\ side \in {"taker", "maker"}
    /\ log = {} /\ said = {}
    /\ lock = [l \in Listing |-> Free]
    /\ file = [t \in Trade |-> "none"]
    /\ joined = {} /\ done = {} /\ tradeLock = FALSE /\ busy = FALSE
    /\ tools = {} /\ faults = 0 /\ seen = {}

-----------------------------------------------------------------------------
(* The automation, and how a tool ends.                                      *)

\* The first number that no such tool has.
Number(op, t) ==
    CHOOSE n \in 0 .. MaxFaults :
        /\ \A u \in tools : u.op = op /\ u.trade = t => u.id # n
        /\ \A k \in 0 .. n - 1 : \E u \in tools : u.op = op /\ u.trade = t /\ u.id = k

Call(op, t, b, live) ==
    [op |-> op, trade |-> t, bid |-> b, pc |-> "start",
     live |-> live, created |-> FALSE, id |-> Number(op, t)]

EventOf(t) == [op |-> t.op, trade |-> t.trade, bid |-> IF t.op = "quote" THEN None ELSE t.bid]

\* What the tick would work on now.
Due(op, t, b) ==
    CASE op = "quote"  -> /\ side = "maker" /\ t \in Theirs
                          /\ InLog("rfq", t) /\ ~InLog("accept", t) /\ ~InLog("invite", t)
                          /\ ~InLog("claimed", t) /\ ~InLog("cancel", t)
                          /\ IF InLog("offer", Own) THEN b = 1 ELSE b = None /\ QuoteFromRfqs
      [] op = "accept" -> /\ side = "taker" /\ t = Own /\ ~tradeLock
                          /\ Say("quote", t, b) \in log /\ InLog("rfq", t)
                          /\ ~InLog("claimed", t) /\ ~InLog("cancel", t)
      [] op = "invite" -> /\ side = "maker" /\ t \in Theirs
                          /\ {Say("accept", t, b), Say("quote", t, b)} \subseteq log
      [] op = "join"   -> /\ side = "taker" /\ t = Own /\ Say("invite", t, b) \in log
                          /\ ~InLog("claimed", t) /\ ~InLog("cancel", t)
      [] OTHER -> FALSE

Ticks(op, t, b) ==
    /\ ~busy /\ Due(op, t, b) /\ EventOf(Call(op, t, b, TRUE)) \notin done
    /\ busy' = TRUE
    /\ tools' = tools \cup {Call(op, t, b, TRUE)}
    /\ UNCHANGED <<side, log, said, lock, file, joined, done, tradeLock, faults, seen>>

Rest(t) == tools \ {t}
Moves(t, pc) == tools' = Rest(t) \cup {[t EXCEPT !.pc = pc]}

\* The event of an awaited tool is done with when the tool succeeds, and when
\* it fails for good (isPermanentNegotiationError); else it is tried again.
Drops(t) ==
    /\ done' = IF t.live THEN done \cup {EventOf(t)} ELSE done
    /\ busy' = (busy /\ ~t.live)
    /\ tools' = Rest(t)
    /\ UNCHANGED tradeLock

TriesAgain(t) ==
    /\ busy' = (busy /\ ~t.live)
    /\ tools' = Rest(t)
    /\ UNCHANGED <<done, tradeLock>>

Succeeds(t) ==
    /\ done' = IF t.live THEN done \cup {EventOf(t)} ELSE done
    /\ tradeLock' = (tradeLock \/ (t.live /\ t.op = "accept"))
    /\ busy' = (busy /\ ~t.live)
    /\ tools' = Rest(t)

\* autopost: the offer and the RFQ are posted again and again, the RFQ until
\* its trade is more than an RFQ.
PostsOffer ==
    /\ side = "maker"
    /\ log' = log \cup {Say("offer", Own, None)} /\ said' = said \cup {Say("offer", Own, None)}
    /\ UNCHANGED <<side, lock, file, joined, automation, tools, faults, seen>>

PostsRfq ==
    /\ side = "taker" /\ file[Own] \in {"none", "rfq"}
    /\ \A t \in tools : t.op # "rfq"
    /\ tools' = tools \cup {[Call("rfq", Own, None, FALSE) EXCEPT !.pc = "send"]}
    /\ UNCHANGED <<side, log, said, lock, file, joined, automation, faults, seen>>

-----------------------------------------------------------------------------
(* The tools.                                                                *)

Refused(t) ==
    /\ t.pc = "start"
    /\ \/ Terminal(t.trade) /\ t.op # "cancel" /\ Drops(t)
       \/ /\ ~Terminal(t.trade) /\ t.op \in {"quote", "accept"} /\ InFlight(t.trade)
          /\ TriesAgain(t)
       \/ t.op = "cancel" /\ Say("claimed", t.trade, None) \in said /\ TriesAgain(t)
    /\ UNCHANGED <<side, log, said, lock, file, joined, faults, seen>>

\* The line of the quote: the one it was called for, else the first that is
\* free of the offer in the log, else none.
FreeLine == {l \in Line : lock[l] = Free}
LineOf(t) ==
    CASE t.bid # None -> t.bid
      [] t.bid = None /\ InLog("offer", Own) /\ FreeLine # {} ->
            CHOOSE l \in FreeLine : \A k \in FreeLine : l <= k
      [] OTHER -> None

QuoteChecks(t) ==
    /\ t.op = "quote" /\ t.pc = "start" /\ ~Terminal(t.trade) /\ ~InFlight(t.trade)
    /\ IF t.bid # None /\ ~Available(t) THEN Drops(t)
       ELSE /\ tools' = Rest(t) \cup {[t EXCEPT !.bid = LineOf(t), !.pc = "send"]}
            /\ UNCHANGED automation
    /\ UNCHANGED <<side, log, said, lock, file, joined, faults, seen>>

AcceptChecks(t) ==
    /\ t.op = "accept" /\ t.pc = "start" /\ ~Terminal(t.trade) /\ ~InFlight(t.trade)
    /\ Moves(t, "lock")
    /\ UNCHANGED <<side, log, said, lock, file, joined, automation, faults, seen>>

\* A trade that has its swap channel is not invited again: the tool succeeds.
InviteChecks(t) ==
    /\ t.op = "invite" /\ t.pc = "start" /\ ~Terminal(t.trade)
    /\ CASE SwapChannel(t.trade) -> Succeeds(t)
         [] ~SwapChannel(t.trade) /\ Locking(t) /\ ~Available(t) /\ ~Replays(t) -> Drops(t)
         [] OTHER -> Moves(t, "lock") /\ UNCHANGED automation
    /\ UNCHANGED <<side, log, said, lock, file, joined, faults, seen>>

\* The lock is looked up and taken without an await in between.
TakesLock(t) ==
    /\ t.pc = "lock"
    /\ CASE ~Locking(t) \/ Replays(t) ->
              Moves(t, "send") /\ UNCHANGED <<lock, automation>>
         [] Locking(t) /\ ~Replays(t) /\ Available(t) ->
              /\ lock' = [lock EXCEPT ![ListingOf(t)] = HeldBy(t)]
              /\ tools' = Rest(t) \cup {[t EXCEPT !.pc = "send", !.created = TRUE]}
              /\ UNCHANGED automation
         [] OTHER -> Drops(t) /\ UNCHANGED lock
    /\ UNCHANGED <<side, log, said, file, joined, faults, seen>>

MessageOf(t) == Say(t.op, t.trade, t.bid)

Sends(t) ==
    /\ t.pc = "send" /\ t.op \in {"accept", "invite"}
    /\ said' = said \cup {MessageOf(t)}
    /\ Moves(t, "sent")
    /\ UNCHANGED <<side, log, lock, file, joined, automation, faults, seen>>

AcceptPosted(t) ==
    /\ t.pc = "sent" /\ t.op = "accept"
    /\ log' = log \cup {MessageOf(t)}
    /\ lock' = [lock EXCEPT ![Own] = HeldBy(t)]
    /\ Succeeds(t)
    /\ UNCHANGED <<side, said, file, joined, faults, seen>>

InvitePosted(t) ==
    /\ t.pc = "sent" /\ t.op = "invite"
    /\ log' = log \cup {MessageOf(t)}
    /\ Moves(t, "join")
    /\ UNCHANGED <<side, said, lock, file, joined, automation, faults, seen>>

\* The lock is written again after the join, whatever became of the trade.
Joins(t) ==
    /\ \/ t.pc = "join"
       \/ t.op = "join" /\ t.pc = "start" /\ ~Terminal(t.trade)
    /\ joined' = joined \cup {t.trade}
    /\ lock' = IF Locking(t) THEN [lock EXCEPT ![ListingOf(t)] = HeldBy(t)] ELSE lock
    /\ seen' = IF Locking(t) /\ Over(t.trade) THEN seen \cup {"late"} ELSE seen
    /\ Succeeds(t)
    /\ UNCHANGED <<side, log, said, file, faults>>

\* A tool that ends with its send.  The RFQ is filed whatever the state was.
Posts(t) ==
    /\ t.pc = "send" /\ t.op \in {"rfq", "quote", "cancel"}
    /\ said' = said \cup {MessageOf(t)} /\ log' = log \cup {MessageOf(t)}
    /\ file' = CASE t.op = "rfq"    -> [file EXCEPT ![t.trade] = "rfq"]
                 [] t.op = "cancel" -> [file EXCEPT ![t.trade] = "canceled"]
                 [] OTHER           -> file
    /\ lock' = IF t.op = "cancel" THEN ReleasedBy(t.trade) ELSE lock
    /\ Succeeds(t)
    /\ UNCHANGED <<side, joined, faults, seen>>

CancelChecks(t) ==
    /\ t.op = "cancel" /\ t.pc = "start" /\ Say("claimed", t.trade, None) \notin said
    /\ Moves(t, "send")
    /\ UNCHANGED <<side, log, said, lock, file, joined, automation, faults, seen>>

-----------------------------------------------------------------------------
(* The others, and the settlement.                                           *)

\* What a counterparty may say: RFQs of its own; quotes for ours; one accept of
\* a quote it got; an invite for a quote we accepted.
MaySay(m) ==
    CASE m.kind = "rfq"    -> side = "maker" /\ m.trade \in Theirs /\ m.bid = None
      [] m.kind = "quote"  -> side = "taker" /\ m.trade = Own /\ m.bid \in Quotes
                              /\ Say("rfq", Own, None) \in said
      [] m.kind = "accept" -> side = "maker" /\ Say("quote", m.trade, m.bid) \in said
                              /\ \A n \in said : n.kind = "accept" /\ n.trade = m.trade => n = m
      [] m.kind = "invite" -> side = "taker" /\ Say("accept", m.trade, m.bid) \in said
      [] OTHER -> FALSE

Hears(m) ==
    /\ MaySay(m) /\ m \notin log
    /\ said' = said \cup {m} /\ log' = log \cup {m}
    /\ UNCHANGED <<side, lock, file, joined, automation, tools, faults, seen>>

\* An RFQ that is posted again has a signature of its own.
HearsRepost(t) ==
    /\ InLog("rfq", t) /\ side = "maker"
    /\ done' = done \ {[op |-> "quote", trade |-> t, bid |-> None]}
    /\ UNCHANGED <<side, log, said, lock, file, joined, tradeLock, busy, tools, faults, seen>>

\* The settlement tools put terms and what follows on file.
Settling(t) ==
    /\ InLog("invite", t) /\ t \in joined /\ ~Terminal(t)
    /\ file' = [file EXCEPT ![t] = "active"]
    /\ UNCHANGED <<side, log, said, lock, joined, automation, tools, faults, seen>>

\* Claimed here, or heard to be claimed.  No CANCEL is under way: lock, payment
\* and claim take longer than one send.
Claimed(t) ==
    /\ file[t] = "active" /\ Say("cancel", t, None) \notin said
    /\ \A u \in tools : ~(u.op = "cancel" /\ u.trade = t)
    /\ said' = said \cup {Say("claimed", t, None)} /\ log' = log \cup {Say("claimed", t, None)}
    /\ file' = [file EXCEPT ![t] = "claimed"] /\ lock' = FilledBy(t)
    /\ UNCHANGED <<side, joined, automation, tools, faults, seen>>

HearsCancel(t) ==
    /\ t \in joined /\ Say("claimed", t, None) \notin said
    /\ said' = said \cup {Say("cancel", t, None)} /\ log' = log \cup {Say("cancel", t, None)}
    /\ file' = [file EXCEPT ![t] = "canceled"] /\ lock' = ReleasedBy(t)
    /\ UNCHANGED <<side, joined, automation, tools, faults, seen>>

-----------------------------------------------------------------------------
(* What goes wrong.                                                          *)

Fault(kind) ==
    faults < MaxFaults /\ faults' = faults + 1 /\ seen' = seen \cup {kind}

\* mutant: the lock stays
MutUndoes(t) == Locking(t) /\ t.created /\ t.pc = "join"

\* The lock that the tool created is deleted, unless the invite is out.
Undoes(t) == Locking(t) /\ t.created /\ t.pc \in {"send", "sent"}

\* A call inside the tool fails; at "sent" the message is out and the answer
\* of the bridge is what did not come (its client gives up after 15 s).
Fails(t) ==
    /\ Fault(IF t.pc = "sent" THEN "ambiguous" ELSE "fails")
    /\ lock' = IF Undoes(t) THEN [lock EXCEPT ![ListingOf(t)] = Free] ELSE lock
    /\ TriesAgain(t)
    /\ UNCHANGED <<side, log, said, file, joined>>

TimesOut(t) ==
    /\ t.live /\ Fault("overlap")
    /\ tools' = Rest(t) \cup {[t EXCEPT !.live = FALSE]}
    /\ busy' = FALSE
    /\ UNCHANGED <<side, log, said, lock, file, joined, done, tradeLock>>

Crash ==
    /\ Fault("crash")
    /\ log' = {} /\ tools' = {} /\ done' = {} /\ tradeLock' = FALSE /\ busy' = FALSE
    /\ UNCHANGED <<side, said, lock, file, joined>>

\* tradeauto_stop and tradeauto_start; tools run on.
Restart ==
    /\ Fault("overlap")
    /\ done' = {} /\ tradeLock' = FALSE /\ busy' = FALSE
    /\ tools' = {[t EXCEPT !.live = FALSE] : t \in tools}
    /\ UNCHANGED <<side, log, said, lock, file, joined>>

\* The operator calls a tool; a quote without a line.
ByHand(op, t, b) ==
    /\ Fault("overlap")
    /\ CASE op = "quote"  -> side = "maker" /\ t \in Theirs /\ b = None /\ Say("rfq", t, None) \in said
         [] op = "accept" -> side = "taker" /\ t = Own /\ Say("quote", t, b) \in said
         [] op = "invite" -> side = "maker" /\ {Say("accept", t, b), Say("quote", t, b)} \subseteq said
         [] op = "cancel" -> b = None /\ Say("invite", t, b) \in said
         [] OTHER -> FALSE
    /\ tools' = tools \cup {Call(op, t, b, FALSE)}
    /\ UNCHANGED <<side, log, said, lock, file, joined, automation>>

Works(t) ==
    \/ Refused(t) \/ QuoteChecks(t) \/ AcceptChecks(t) \/ InviteChecks(t) \/ TakesLock(t)
    \/ Sends(t) \/ AcceptPosted(t) \/ InvitePosted(t) \/ Joins(t) \/ Posts(t) \/ CancelChecks(t)

Next ==
    \/ PostsOffer \/ PostsRfq
    \/ \E op \in Op, t \in Trade, b \in Bid : Ticks(op, t, b) \/ ByHand(op, t, b)
    \/ \E t \in tools : Works(t) \/ Fails(t) \/ TimesOut(t)
    \/ \E m \in Message : Hears(m)
    \/ \E t \in Trade : HearsRepost(t) \/ Settling(t) \/ Claimed(t) \/ HearsCancel(t)
    \/ Crash \/ Restart

Spec == Init /\ [][Next]_vars

-----------------------------------------------------------------------------
\* No send was answered with an error after it went out, and no tool failed
\* where another one was working on the same thing.
Clean == "ambiguous" \notin seen /\ ~({"fails", "overlap"} \subseteq seen)

\* The daemon accepts one quote for its trade, "so we never accept two quotes"
\* (intercomswap_quote_accept): with late and repeated tools, calls by the
\* operator, reposted RFQs, and crashes between the lock, the send and the log.
\* A send that fails although the message went out breaks it: the tool deletes
\* the lock, and the next quote is accepted too (see Clean).
OneQuoteAccepted ==
    Clean => \A m, n \in said :
        /\ m.kind = "accept" /\ m.trade = Own
        /\ n.kind = "accept" /\ n.trade = Own
        => m = n \/ Over(Own)

\* A line of the offer is sold to one trade at a time: two trades are invited
\* for it only when one of them was canceled (offer_line locks of
\* intercomswap_swap_invite_from_accept).  A tool that outlives the cancel of its
\* trade breaks it: it takes the line again from whom it was sold to ("late").
LineSoldOnce ==
    Clean /\ "late" \notin seen /\ side = "maker" => \A m, n \in said :
        /\ m.kind = "invite" /\ n.kind = "invite"
        /\ m.bid = n.bid /\ m.bid # None
        => m.trade = n.trade \/ Over(m.trade) \/ Over(n.trade)

\* A lock is given back: without a crash, what is in flight has a tool at work
\* or its message out, and, when tools do not overlap, a trade that goes on
\* (the catch blocks of the tools, and releaseListingLocksByTrade).
LocksReturn ==
    "crash" \notin seen => \A l \in Listing : lock[l].state = "in_flight" =>
        \/ \E t \in tools : Locking(t) /\ ListingOf(t) = l
        \/ /\ \/ l = Own /\ Say("accept", Own, lock[l].bid) \in said
              \/ l # Own /\ Say("invite", lock[l].trade, l) \in said
           /\ Over(lock[l].trade) => "overlap" \in seen
=============================================================================
