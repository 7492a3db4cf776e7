--------------------------- MODULE MakerRfqProofs ---------------------------
(***************************************************************************)
(* For every set of peers, trades, RFQs and swaps and every setting of the *)
(* maker: a swap channel serves one swap and one peer at a time, the peer  *)
(* that asked for the quote.  OnePerTrade and NoHijack need each other:    *)
(* the mark in pendingSwaps keeps a second handler out only while it       *)
(* stands, and only the end of a swap of the same trade could take it.     *)
(***************************************************************************)
EXTENDS MakerRfq, FiniteSetTheorems, TLAPS

\* What is known of an RFQ: the parts of MakerAssumption that are used.
LEMMA RfqParts ==
    ASSUME NEW q, q.rfq \in Rfq
    PROVE  q.rfq.signer \in Peer /\ q.rfq.trade \in Trade /\ q.rfq.key \in Key
  BY MakerAssumption

\* The references to locks that are on file keep their kinds.
BooksOK == /\ locks \in [Key -> Lock \cup {None}]
           /\ tradeLock \in [Trade -> Key \cup {None}]
           /\ channelLock \in [Trade -> Key \cup {None}]

LEMMA ClearKeeps ==
    ASSUME BooksOK, UNCHANGED quotes, NEW k, ClearLock(k)
    PROVE  BooksOK'
<1> DEFINE lock == IF k = None THEN None ELSE locks[k]
<1>1. CASE lock = None
  BY <1>1 DEF ClearLock, BooksOK, Lock
<1>2. CASE lock # None
  <2>1. locks' = [locks EXCEPT ![k] = None]
    BY <1>2 DEF ClearLock
  <2>2. locks' \in [Key -> Lock \cup {None}]
    BY <2>1 DEF BooksOK
  <2>3. tradeLock' \in [Trade -> Key \cup {None}] /\ channelLock' \in [Trade -> Key \cup {None}]
    BY <1>2 DEF ClearLock, BooksOK
  <2> QED BY <2>2, <2>3 DEF BooksOK, Lock
<1> QED BY <1>1, <1>2

LEMMA SetKeeps ==
    ASSUME locks \in [Key -> Lock \cup {None}], UNCHANGED quotes,
           NEW q \in quotes, NEW state \in {"quoted", "accepting", "swapping"},
           NEW channel \in Trade \cup {None}, NEW deadline \in Nat,
           SetLock(q, state, channel, deadline)
    PROVE  (locks \in [Key -> Lock \cup {None}])'
<1> DEFINE new == [state |-> state, quote |-> q, channel |-> channel, deadline |-> deadline]
<1>1. new \in Lock
  BY DEF Lock
<1>2. locks' = locks \/ locks' = [locks EXCEPT ![q.rfq.key] = new]
  BY DEF SetLock
<1> HIDE DEF new
<1>3. locks' \in [Key -> Lock \cup {None}]
  BY <1>1, <1>2
<1> QED BY <1>3 DEF Lock

-----------------------------------------------------------------------------
\* The context of a running swap is that of an accepted quote on file.
LEMMA LiveContext ==
    ASSUME TypeOK, NEW s \in Swap, Live(s)
    PROVE  ctx[s] \in Context /\ TradeOf(s) \in Trade
<1>1. ctx[s] \in Context \cup {Idle}
  BY DEF TypeOK
<1>2. ctx[s] # Idle
  <2>1. Idle.phase = "idle"
    BY DEF Idle
  <2>2. ctx[s].phase \in {"open", "skipped", "settling"}
    BY DEF Live
  <2> QED BY <2>1, <2>2
<1>3. ctx[s] \in Context
  BY <1>1, <1>2
<1>4. ctx[s].quote \in quotes
  BY <1>3 DEF Context
<1> QED BY <1>3, <1>4, RfqParts DEF TypeOK, TradeOf

LEMMA TypeInit == Init => TypeOK
<1> SUFFICES ASSUME Init PROVE TypeOK OBVIOUS
<1> USE MakerAssumption DEF Init
<1>1. now \in 0..MaxTime
  OBVIOUS
<1> QED BY <1>1 DEF TypeOK

LEMMA TypeStep == TypeOK /\ [Next]_vars => TypeOK'
<1> SUFFICES ASSUME TypeOK, [Next]_vars PROVE TypeOK' OBVIOUS
<1>t. /\ BooksOK /\ now \in Nat /\ SwapTimeout \in Nat /\ QuoteValid \in Nat
      /\ MaxTime \in Nat /\ MaxTrades \in Nat
  BY MakerAssumption DEF TypeOK, BooksOK
<1>1. ASSUME NEW r \in Rfq, RfqArrives(r) PROVE TypeOK'
  <2>1. BooksOK'
    BY <1>1, <1>t, ClearKeeps DEF RfqArrives
  <2>2. \A w \in quoting' : w.rfq \in Rfq /\ w.until \in Nat \cup {None}
    BY <1>1 DEF RfqArrives, TypeOK
  <2> QED BY <1>1, <2>1, <2>2 DEF RfqArrives, TypeOK, BooksOK, Lock, Context, running, counts
<1>2. ASSUME NEW r \in Rfq, QuoteSent(r) PROVE TypeOK'
  <2>2. \A w \in quoting' : w.rfq \in Rfq /\ w.until \in Nat \cup {None}
    BY <1>2, <1>t DEF QuoteSent, TypeOK
  <2> QED BY <1>2, <2>2 DEF QuoteSent, TypeOK, Lock, Context, books, running, counts
<1>3. ASSUME NEW q \in quoting, QuoteFiled(q) PROVE TypeOK'
  <2> DEFINE new == [state |-> "quoted", quote |-> q, channel |-> None, deadline |-> 0]
  <2>1. q.rfq \in Rfq /\ q.until \in Nat
    BY <1>3 DEF QuoteFiled, TypeOK
  <2>2. \A p \in quotes' : p.rfq \in Rfq /\ p.until \in Nat
    BY <1>3, <2>1 DEF QuoteFiled, TypeOK
  <2>3. quotes \subseteq quotes' /\ q \in quotes'
    BY <1>3 DEF QuoteFiled
  <2>4. Lock \subseteq Lock' /\ Context \subseteq Context' /\ new \in Lock'
    BY <2>3 DEF Lock, Context
  <2>5. locks' \in [Key -> Lock' \cup {None}]
    BY <1>3, <2>4 DEF QuoteFiled, TypeOK
  <2>6. tradeLock' \in [Trade -> Key \cup {None}] /\ channelLock' \in [Trade -> Key \cup {None}]
    BY <1>3, <2>1, RfqParts DEF QuoteFiled, TypeOK
  <2>7. ctx' \in [Swap -> Context' \cup {Idle}]
    <3>1. ctx' = ctx /\ ctx \in [Swap -> Context \cup {Idle}]
      BY <1>3 DEF QuoteFiled, TypeOK, running
    <3> QED BY <3>1, <2>4
  <2>8. \A w \in quoting' : w.rfq \in Rfq /\ w.until \in Nat \cup {None}
    BY <1>3 DEF QuoteFiled, TypeOK
  <2>9. \A w \in inviting' : /\ w.quote \in quotes' /\ w.peer \in Peer
                             /\ w.lock \in quotes' \cup {None}
    BY <1>3, <2>3 DEF QuoteFiled, TypeOK
  <2> QED BY <1>3, <2>2, <2>5, <2>6, <2>7, <2>8, <2>9 DEF QuoteFiled, TypeOK, running, counts
<1>4. ASSUME NEW w \in quoting, QuoteDropped(w) PROVE TypeOK'
  BY <1>4 DEF QuoteDropped, TypeOK, Lock, Context, books, running, counts
<1>5. ASSUME NEW q \in quotes, NEW p \in Peer, AcceptArrives(q, p) PROVE TypeOK'
  <2> DEFINE lock == locks[q.rfq.key]
  <2>1. q.rfq \in Rfq /\ q.rfq.trade \in Trade /\ q.rfq.key \in Key
    BY RfqParts DEF TypeOK
  <2>2. UNCHANGED quotes
    BY <1>5 DEF AcceptArrives
  <2>3. lock # None => lock.quote \in quotes
    BY <2>1, <1>t DEF BooksOK, Lock
  <2>4. BooksOK'
    <3>1. CASE lock = None
      BY <3>1, <1>5, <1>t, <2>2 DEF AcceptArrives, BooksOK, Lock
    <3>2. CASE lock # None
      <4>1. SetLock(lock.quote, "accepting", q.rfq.trade, now + SwapTimeout)
        BY <3>2, <1>5 DEF AcceptArrives
      <4>2. (locks \in [Key -> Lock \cup {None}])'
        BY <4>1, <2>1, <2>2, <2>3, <3>2, <1>t, SetKeeps DEF BooksOK
      <4>3. /\ tradeLock' \in [Trade -> Key \cup {None}]
            /\ channelLock' \in [Trade -> Key \cup {None}]
        BY <3>2, <1>5, <1>t, <2>1 DEF AcceptArrives, BooksOK
      <4> QED BY <4>2, <4>3 DEF BooksOK
    <3> QED BY <3>1, <3>2
  <2>5. pending' \in [Trade -> Peer \cup {None}]
    BY <1>5 DEF AcceptArrives, TypeOK
  <2>6. \A w \in inviting' : /\ w.quote \in quotes' /\ w.peer \in Peer
                             /\ w.lock \in quotes' \cup {None}
    BY <1>5, <2>2, <2>3 DEF AcceptArrives, TypeOK
  <2> QED BY <1>5, <2>2, <2>4, <2>5, <2>6 DEF AcceptArrives, TypeOK, BooksOK, Context, counts
<1>6. ASSUME NEW w \in inviting, InviteFails(w) PROVE TypeOK'
  <2>1. w.quote.rfq.trade \in Trade /\ w.lock \in quotes \cup {None} /\ w.quote \in quotes
    BY RfqParts DEF TypeOK
  <2>2. UNCHANGED quotes
    BY <1>6 DEF InviteFails
  <2>3. (locks \in [Key -> Lock \cup {None}])'
    <3>1. CASE w.lock = None
      BY <3>1, <1>6, <1>t, <2>2 DEF InviteFails, BooksOK, Lock
    <3>2. CASE w.lock # None
      <4>1. SetLock(w.lock, "quoted", None, 0)
        BY <3>2, <1>6 DEF InviteFails
      <4> QED BY <4>1, <3>2, <2>1, <2>2, <1>t, SetKeeps DEF BooksOK
    <3> QED BY <3>1, <3>2
  <2>4. channelLock' \in [Trade -> Key \cup {None}] /\ pending' \in [Trade -> Peer \cup {None}]
    BY <1>6, <2>1 DEF InviteFails, TypeOK
  <2> QED BY <1>6, <2>2, <2>3, <2>4 DEF InviteFails, TypeOK, Lock, Context, counts
<1>7. ASSUME NEW w \in inviting, NEW s \in Swap, SwapStarts(w, s) PROVE TypeOK'
  <2> DEFINE new == [quote |-> w.quote, invitee |-> w.peer,
                     phase |-> "open", deadline |-> now + SwapTimeout]
  <2>1. /\ w.quote.rfq.trade \in Trade /\ w.lock \in quotes \cup {None}
        /\ w.quote \in quotes /\ w.peer \in Peer
    BY RfqParts DEF TypeOK
  <2>2. UNCHANGED quotes
    BY <1>7 DEF SwapStarts
  <2>3. (locks \in [Key -> Lock \cup {None}])' /\ channelLock' \in [Trade -> Key \cup {None}]
    <3>1. CASE w.lock = None
      BY <3>1, <1>7, <1>t, <2>2 DEF SwapStarts, BooksOK, Lock
    <3>2. CASE w.lock # None
      <4>1. SetLock(w.lock, "swapping", w.quote.rfq.trade, now + SwapTimeout)
        BY <3>2, <1>7 DEF SwapStarts
      <4>2. (locks \in [Key -> Lock \cup {None}])'
        BY <4>1, <3>2, <2>1, <2>2, <1>t, SetKeeps DEF BooksOK
      <4>3. w.lock.rfq.key \in Key
        BY <3>2, <2>1, RfqParts DEF TypeOK
      <4>4. channelLock' \in [Trade -> Key \cup {None}]
        BY <3>2, <4>3, <1>7, <1>t DEF SwapStarts, BooksOK
      <4> QED BY <4>2, <4>4
    <3> QED BY <3>1, <3>2
  <2>4. new \in Context
    BY <1>t, <2>1 DEF Context
  <2>5. ctx' \in [Swap -> Context \cup {Idle}]
    <3>1. ctx' = [ctx EXCEPT ![s] = new]
      BY <1>7 DEF SwapStarts
    <3> HIDE DEF new
    <3> QED BY <3>1, <2>4 DEF TypeOK
  <2>6. pending' \in [Trade -> Peer \cup {None}] /\ swaps' \in [Trade -> Swap \cup {None}]
    BY <1>7 DEF SwapStarts, TypeOK
  <2> QED BY <1>7, <2>2, <2>3, <2>5, <2>6 DEF SwapStarts, TypeOK, Lock, Context, counts
<1>8. ASSUME NEW s \in Swap, SettlementStarts(s) PROVE TypeOK'
  <2>1. ctx' \in [Swap -> Context \cup {Idle}]
    <3>1. ctx[s] \in Context
      BY <1>8, LiveContext DEF SettlementStarts, Live
    <3>2. PICK ph \in {"skipped", "settling"} : ctx' = [ctx EXCEPT ![s].phase = ph]
      BY <1>8 DEF SettlementStarts
    <3>3. [ctx[s] EXCEPT !.phase = ph] \in Context
      BY <3>1 DEF Context
    <3> QED BY <3>2, <3>3 DEF TypeOK
  <2>2. active' \in Nat
    BY <1>8 DEF SettlementStarts, TypeOK
  <2> QED BY <1>8, <2>1, <2>2 DEF SettlementStarts, TypeOK, Lock, Context, books, work
<1>9. ASSUME NEW s \in Swap, SwapEnds(s) \/ SwapTimesOut(s) PROVE TypeOK'
  <2>1. PICK ph \in {"claimed", "canceled", "expired"} : Cleanup(s, ph)
    BY <1>9 DEF SwapEnds, SwapTimesOut
  <2>2. UNCHANGED <<now, quotes, quoting, inviting>>
    BY <1>9 DEF SwapEnds, SwapTimesOut
  <2>3. ctx' \in [Swap -> Context \cup {Idle}]
    <3>1. ctx[s] \in Context
      BY <1>9, LiveContext DEF SwapEnds, SwapTimesOut
    <3>2. [ctx[s] EXCEPT !.phase = ph] \in Context
      BY <3>1 DEF Context
    <3> QED BY <2>1, <3>2 DEF Cleanup, TypeOK
  <2>4. BooksOK'
    BY <2>1, <2>2, <1>t, ClearKeeps DEF Cleanup
  <2>5. pending' \in [Trade -> Peer \cup {None}] /\ swaps' \in [Trade -> Swap \cup {None}]
    BY <2>1 DEF Cleanup, TypeOK
  <2>6. active' \in Nat /\ completed' \in Nat /\ shouldStop' \in BOOLEAN
    <3>1. active' = Released \/ active' = active
      BY <1>9 DEF SwapEnds, SwapTimesOut, counts
    <3>2. active' \in Nat
      BY <3>1 DEF Released, TypeOK
    <3>3. completed' = completed + 1 \/ completed' = completed
      BY <1>9 DEF SwapEnds, SwapTimesOut, counts
    <3>4. completed' \in Nat
      BY <3>3 DEF TypeOK
    <3>5. shouldStop' = TRUE \/ shouldStop' = shouldStop
      BY <1>9 DEF SwapEnds, SwapTimesOut, counts
    <3>6. shouldStop' \in BOOLEAN
      BY <3>5 DEF TypeOK
    <3> QED BY <3>2, <3>4, <3>6
  <2> QED BY <2>2, <2>3, <2>4, <2>5, <2>6 DEF TypeOK, BooksOK, Lock, Context
<1>10. ASSUME NEW k \in Key, Prunes(k) PROVE TypeOK'
  <2>1. BooksOK'
    BY <1>10, <1>t, ClearKeeps DEF Prunes
  <2> QED BY <1>10, <2>1 DEF Prunes, TypeOK, BooksOK, Lock, Context, running, counts, work
<1>11. CASE Tick
  <2>1. now' \in 0..MaxTime
    BY <1>11, <1>t DEF Tick, TypeOK
  <2> QED BY <1>11, <2>1 DEF Tick, TypeOK, Lock, Context, books, running, counts, work
<1>12. CASE UNCHANGED vars
  BY <1>12 DEF vars, TypeOK, Lock, Context, books, running, counts, work
<1> QED BY <1>1, <1>2, <1>3, <1>4, <1>5, <1>6, <1>7, <1>8, <1>9, <1>10, <1>11, <1>12 DEF Next

\* Every variable of the maker always holds a value of its kind, and what
\* refers to a quote refers to one on file.
THEOREM TypeCorrect == Spec => []TypeOK
  BY TypeInit, TypeStep, PTL DEF Spec

-----------------------------------------------------------------------------
Safe == OnePerTrade /\ NoHijack

\* What the two invariants say of one trade, as the steps below use it.
LEMMA Found ==
    ASSUME TypeOK, Safe, NEW t \in Trade
    PROVE  /\ \A w \in Starting(t) : pending[t] # None /\ Running(t) = {}
           /\ \A s \in Running(t) : swaps[t] = s /\ swaps[t] # None
<1>1. \A w \in Starting(t) : pending[t] = w.peer /\ w.peer \in Peer
  BY DEF Starting, Safe, NoHijack, TypeOK
<1>2. \A s \in Running(t) : swaps[t] = s /\ s \in Swap /\ Starting(t) = {}
  BY DEF Running, Safe, OnePerTrade
<1> QED BY <1>1, <1>2, MakerAssumption

LEMMA SafeUnchanged ==
    ASSUME Safe, UNCHANGED <<pending, swaps, ctx, inviting>> PROVE Safe'
  BY DEF Safe, OnePerTrade, NoHijack, Starting, Running, Live, TradeOf

\* A step that changes only trade t: every other trade keeps its handlers,
\* its swaps and its entries in the maps.
OnlyTrade(t) ==
    /\ \A u \in Trade \ {t} : /\ Starting(u)' = Starting(u)
                              /\ Running(u)' = Running(u)
                              /\ pending'[u] = pending[u] /\ swaps'[u] = swaps[u]
                              /\ \A s \in Running(u) : ctx'[s] = ctx[s]

SafeAt(t) ==
    /\ \A v, w \in Starting(t) : v = w
    /\ \A s \in Running(t) : swaps[t] = s /\ Starting(t) = {}
    /\ swaps[t] # None => swaps[t] \in Running(t)
    /\ \A s \in Running(t) : ctx[s].invitee = ctx[s].quote.rfq.signer
    /\ \A w \in Starting(t) : w.peer = w.quote.rfq.signer /\ pending[t] = w.peer

LEMMA SafePerTrade ==
    ASSUME Safe, NEW t \in Trade, OnlyTrade(t), SafeAt(t)' PROVE Safe'
<1>1. ASSUME NEW u \in Trade \ {t} PROVE SafeAt(u)'
  <2>1. SafeAt(u)
    BY DEF Safe, OnePerTrade, NoHijack, SafeAt
  <2>2. /\ Starting(u)' = Starting(u) /\ Running(u)' = Running(u)
        /\ pending'[u] = pending[u] /\ swaps'[u] = swaps[u]
        /\ \A s \in Running(u) : ctx'[s] = ctx[s]
    BY DEF OnlyTrade
  <2> QED BY <2>1, <2>2 DEF SafeAt
<1>2. \A u \in Trade : SafeAt(u)'
  BY <1>1
<1> QED BY <1>2 DEF Safe, OnePerTrade, NoHijack, SafeAt

-----------------------------------------------------------------------------
(* What each step does to the handlers and the swaps of its trade.           *)

LEMMA AcceptTrade ==
    ASSUME TypeOK, Safe, NEW q \in quotes, NEW p \in Peer, AcceptArrives(q, p),
           NEW t, t = q.rfq.trade
    PROVE  /\ t \in Trade /\ Starting(t) = {} /\ Running(t) = {}
           /\ \E new : /\ inviting' = inviting \cup {new} /\ new.quote = q /\ new.peer = p
                       /\ new.lock = IF locks[q.rfq.key] = None THEN None
                                                                ELSE locks[q.rfq.key].quote
                       /\ Starting(t)' = {new}
           /\ \A u \in Trade \ {t} : Starting(u)' = Starting(u)
           /\ \A u \in Trade : Running(u)' = Running(u)
<1> DEFINE lock == locks[q.rfq.key]
           it == [quote |-> q, peer |-> p, lock |-> IF lock = None THEN None ELSE lock.quote]
<1>1. t \in Trade
  BY RfqParts DEF TypeOK
<1>2. inviting' = inviting \cup {it}
  BY DEF AcceptArrives
<1>3. it.quote = q /\ it.peer = p /\ it.lock = IF lock = None THEN None ELSE lock.quote
  OBVIOUS
<1> HIDE DEF it
<1>4. swaps[t] = None /\ pending[t] = None /\ UNCHANGED <<swaps, ctx>>
  BY DEF AcceptArrives, IsRetry
<1>5. Starting(t) = {} /\ Running(t) = {}
  BY <1>1, <1>4, Found
<1>6. \A u \in Trade : Running(u)' = Running(u)
  BY <1>4 DEF Running, Live, TradeOf
<1>7. Starting(t)' = {it} /\ \A u \in Trade \ {t} : Starting(u)' = Starting(u)
  BY <1>2, <1>3, <1>5 DEF Starting
<1> QED BY <1>1, <1>2, <1>3, <1>5, <1>6, <1>7

LEMMA FailTrade ==
    ASSUME TypeOK, Safe, NEW w \in inviting, InviteFails(w), NEW t, t = w.quote.rfq.trade
    PROVE  /\ t \in Trade /\ Starting(t) = {w} /\ Starting(t)' = {}
           /\ \A u \in Trade \ {t} : Starting(u)' = Starting(u)
           /\ \A u \in Trade : Running(u)' = Running(u)
<1>1. t \in Trade /\ w \in Starting(t)
  BY RfqParts DEF TypeOK, Starting
<1>2. inviting' = inviting \ {w} /\ UNCHANGED ctx
  BY DEF InviteFails
<1>3. Starting(t) = {w}
  BY <1>1 DEF Safe, OnePerTrade
<1>4. Starting(t)' = {} /\ \A u \in Trade \ {t} : Starting(u)' = Starting(u)
  BY <1>2, <1>3 DEF Starting
<1>5. \A u \in Trade : Running(u)' = Running(u)
  BY <1>2 DEF Running, Live, TradeOf
<1> QED BY <1>1, <1>3, <1>4, <1>5

LEMMA StartTrade ==
    ASSUME TypeOK, Safe, NEW w \in inviting, NEW s \in Swap, SwapStarts(w, s),
           NEW t, t = w.quote.rfq.trade
    PROVE  /\ t \in Trade /\ Starting(t) = {w} /\ Running(t) = {} /\ ~Live(s)
           /\ Starting(t)' = {} /\ Running(t)' = {s}
           /\ \A u \in Trade \ {t} : Starting(u)' = Starting(u) /\ Running(u)' = Running(u)
           /\ ctx'[s].quote = w.quote /\ ctx'[s].invitee = w.peer /\ ctx'[s].phase = "open"
           /\ \A x \in Swap \ {s} : ctx'[x] = ctx[x]
<1> DEFINE new == [quote |-> w.quote, invitee |-> w.peer,
                   phase |-> "open", deadline |-> now + SwapTimeout]
<1>1. t \in Trade /\ w \in Starting(t)
  BY RfqParts DEF TypeOK, Starting
<1>2. inviting' = inviting \ {w} /\ ctx[s] = Idle /\ ctx' = [ctx EXCEPT ![s] = new]
  BY DEF SwapStarts
<1>3. /\ new.quote.rfq.trade = t /\ new.phase = "open"
      /\ new.invitee = w.peer /\ new.quote = w.quote
  OBVIOUS
<1> HIDE DEF new
<1>4. Starting(t) = {w} /\ Running(t) = {}
  BY <1>1, Found DEF Safe, OnePerTrade
<1>5. Starting(t)' = {} /\ \A u \in Trade \ {t} : Starting(u)' = Starting(u)
  BY <1>2, <1>4 DEF Starting
<1>6. ctx'[s] = new /\ \A x \in Swap \ {s} : ctx'[x] = ctx[x]
  BY <1>2 DEF TypeOK
<1>7. Live(s)' /\ TradeOf(s)' = t /\ ~Live(s)
  BY <1>2, <1>3, <1>6 DEF Live, TradeOf, Idle
<1>8. \A x \in Swap \ {s} : Live(x)' = Live(x) /\ TradeOf(x)' = TradeOf(x)
  BY <1>6 DEF Live, TradeOf
<1>9. Running(t)' = {s} /\ \A u \in Trade \ {t} : Running(u)' = Running(u)
  BY <1>4, <1>7, <1>8 DEF Running
<1> QED BY <1>1, <1>3, <1>4, <1>5, <1>6, <1>7, <1>9

LEMMA SettleTrade ==
    ASSUME TypeOK, NEW s \in Swap, SettlementStarts(s)
    PROVE  /\ \A u \in Trade : Starting(u)' = Starting(u) /\ Running(u)' = Running(u)
           /\ \A x \in Swap : /\ ctx'[x].invitee = ctx[x].invitee
                              /\ ctx'[x].quote = ctx[x].quote
<1>1. PICK ph \in {"skipped", "settling"} : ctx' = [ctx EXCEPT ![s].phase = ph]
  BY DEF SettlementStarts
<1>2. ctx[s].phase = "open" /\ ctx[s] \in Context
  BY LiveContext DEF SettlementStarts, Live
<1>3. ctx'[s] = [ctx[s] EXCEPT !.phase = ph] /\ \A x \in Swap \ {s} : ctx'[x] = ctx[x]
  BY <1>1 DEF TypeOK
<1>4. /\ ctx'[s].phase = ph
      /\ ctx'[s].quote = ctx[s].quote /\ ctx'[s].invitee = ctx[s].invitee
  BY <1>2, <1>3 DEF Context
<1>5. Live(s) /\ Live(s)' /\ \A x \in Swap \ {s} : Live(x)' = Live(x)
  BY <1>2, <1>3, <1>4 DEF Live
<1>6. \A x \in Swap : Live(x)' <=> Live(x)
  BY <1>5, Zenon
<1>7. \A x \in Swap : TradeOf(x)' = TradeOf(x)
  BY <1>3, <1>4 DEF TradeOf
<1>8. UNCHANGED inviting
  BY DEF SettlementStarts, work
<1>9. \A t \in Trade : Running(t)' = Running(t) /\ Starting(t)' = Starting(t)
  BY <1>6, <1>7, <1>8 DEF Running, Starting
<1>10. \A x \in Swap : ctx'[x].invitee = ctx[x].invitee /\ ctx'[x].quote = ctx[x].quote
  BY <1>3, <1>4
<1> QED BY <1>9, <1>10

LEMMA EndTrade ==
    ASSUME TypeOK, Safe, NEW s \in Swap, SwapEnds(s) \/ SwapTimesOut(s),
           NEW t, t = TradeOf(s)
    PROVE  /\ t \in Trade /\ s \in Running(t) /\ Running(t) = {s} /\ Starting(t) = {}
           /\ Starting(t)' = {} /\ Running(t)' = {}
           /\ \A u \in Trade \ {t} : Starting(u)' = Starting(u) /\ Running(u)' = Running(u)
           /\ \A x \in Swap \ {s} : ctx'[x] = ctx[x]
           /\ swaps' = [swaps EXCEPT ![t] = None] /\ pending' = [pending EXCEPT ![t] = None]
           /\ ClearLock(IF channelLock[t] # None THEN channelLock[t] ELSE tradeLock[t])
<1>1. PICK ph \in {"claimed", "canceled", "expired"} : Cleanup(s, ph)
  BY DEF SwapEnds, SwapTimesOut
<1>2. Live(s) /\ ctx[s] \in Context /\ UNCHANGED inviting
  BY LiveContext DEF SwapEnds, SwapTimesOut
<1>3. t \in Trade /\ s \in Running(t)
  BY <1>2, LiveContext DEF Running
<1>4. Running(t) = {s} /\ Starting(t) = {}
  BY <1>3 DEF Safe, OnePerTrade
<1>5. ctx'[s] = [ctx[s] EXCEPT !.phase = ph] /\ \A x \in Swap \ {s} : ctx'[x] = ctx[x]
  BY <1>1 DEF TypeOK, Cleanup
<1>6. ~Live(s)' /\ \A x \in Swap \ {s} : Live(x)' = Live(x) /\ TradeOf(x)' = TradeOf(x)
  <2>1. ctx'[s].phase = ph
    BY <1>2, <1>5 DEF Context
  <2> QED BY <2>1, <1>5 DEF Live, TradeOf
<1>7. /\ \A u \in Trade : Starting(u)' = Starting(u)
      /\ swaps' = [swaps EXCEPT ![t] = None] /\ pending' = [pending EXCEPT ![t] = None]
      /\ ClearLock(IF channelLock[t] # None THEN channelLock[t] ELSE tradeLock[t])
  BY <1>1, <1>2 DEF Starting, Cleanup
<1>8. Running(t)' = {} /\ \A u \in Trade \ {t} : Running(u)' = Running(u)
  <2>1. \A x \in Swap : x \in Running(t) <=> x = s
    BY <1>4
  <2>2. Running(t)' = {}
    BY <2>1, <1>6 DEF Running
  <2>3. ASSUME NEW u \in Trade \ {t} PROVE Running(u)' = Running(u)
    <3>1. \A x \in Swap : x \in Running(u) => x # s
      BY DEF Running
    <3>2. \A x \in Swap : x \in Running(u)' <=> x \in Running(u)
      BY <3>1, <1>6 DEF Running
    <3> QED BY <3>2 DEF Running
  <2> QED BY <2>2, <2>3
<1> QED BY <1>3, <1>4, <1>5, <1>7, <1>8

-----------------------------------------------------------------------------
LEMMA SafeInit == Init => Safe
  BY DEF Init, Safe, OnePerTrade, NoHijack, Starting, Running, Live, Idle

LEMMA SafeStep == TypeOK /\ Safe /\ [Next]_vars => Safe'
<1> SUFFICES ASSUME TypeOK, Safe, [Next]_vars PROVE Safe' OBVIOUS
<1>1. ASSUME NEW r \in Rfq, RfqArrives(r) \/ QuoteSent(r) PROVE Safe'
  BY <1>1, SafeUnchanged DEF RfqArrives, QuoteSent, running
<1>2. ASSUME NEW w \in quoting, QuoteFiled(w) \/ QuoteDropped(w) PROVE Safe'
  BY <1>2, SafeUnchanged DEF QuoteFiled, QuoteDropped, running
<1>3. ASSUME NEW q \in quotes, NEW p \in Peer, AcceptArrives(q, p) PROVE Safe'
  <2>t. PICK t : t = q.rfq.trade
    OBVIOUS
  <2>1. /\ t \in Trade /\ Starting(t) = {} /\ Running(t) = {}
        /\ \A u \in Trade \ {t} : Starting(u)' = Starting(u)
        /\ \A u \in Trade : Running(u)' = Running(u)
    BY <1>3, <2>t, AcceptTrade
  <2>2. PICK new : new.quote = q /\ new.peer = p /\ Starting(t)' = {new}
    BY <1>3, <2>t, AcceptTrade
  <2>3. /\ p = q.rfq.signer /\ swaps[t] = None
        /\ pending' = [pending EXCEPT ![t] = p] /\ UNCHANGED <<swaps, ctx>>
    BY <1>3, <2>t DEF AcceptArrives, MayAccept, IsRetry
  <2>4. OnlyTrade(t)
    BY <2>1, <2>3 DEF OnlyTrade, TypeOK
  <2>5. pending'[t] = p
    BY <2>1, <2>3 DEF TypeOK
  <2>6. SafeAt(t)'
    BY <2>1, <2>2, <2>3, <2>5 DEF SafeAt
  <2> QED BY <2>1, <2>4, <2>6, SafePerTrade
<1>4. ASSUME NEW w \in inviting, InviteFails(w) PROVE Safe'
  <2>t. PICK t : t = w.quote.rfq.trade
    OBVIOUS
  <2>1. /\ t \in Trade /\ Starting(t)' = {}
        /\ \A u \in Trade \ {t} : Starting(u)' = Starting(u)
        /\ \A u \in Trade : Running(u)' = Running(u)
    BY <1>4, <2>t, FailTrade
  <2>2. UNCHANGED <<swaps, ctx>> /\ pending' = [pending EXCEPT ![t] = None]
    BY <1>4, <2>t DEF InviteFails
  <2>3. OnlyTrade(t)
    BY <2>1, <2>2 DEF OnlyTrade, TypeOK
  <2>4. SafeAt(t)'
    BY <2>1, <2>2 DEF SafeAt, Safe, OnePerTrade, NoHijack
  <2> QED BY <2>1, <2>3, <2>4, SafePerTrade
<1>5. ASSUME NEW w \in inviting, NEW s \in Swap, SwapStarts(w, s) PROVE Safe'
  <2>t. PICK t : t = w.quote.rfq.trade
    OBVIOUS
  <2>1. /\ t \in Trade /\ Starting(t) = {w} /\ ~Live(s)
        /\ Starting(t)' = {} /\ Running(t)' = {s}
        /\ \A u \in Trade \ {t} : Starting(u)' = Starting(u) /\ Running(u)' = Running(u)
        /\ ctx'[s].quote = w.quote /\ ctx'[s].invitee = w.peer
        /\ \A x \in Swap \ {s} : ctx'[x] = ctx[x]
    BY <1>5, <2>t, StartTrade
  <2>2. /\ pending' = [pending EXCEPT ![t] = None] /\ swaps' = [swaps EXCEPT ![t] = s]
    BY <1>5, <2>t DEF SwapStarts
  <2>3. OnlyTrade(t)
    <3>1. \A u \in Trade : \A x \in Running(u) : x # s /\ x \in Swap
      BY <2>1 DEF Running
    <3> QED BY <3>1, <2>1, <2>2 DEF OnlyTrade, TypeOK
  <2>4. w.peer = w.quote.rfq.signer
    BY <2>1 DEF Safe, NoHijack
  <2>5. swaps'[t] = s
    BY <2>1, <2>2 DEF TypeOK
  <2>6. SafeAt(t)'
    BY <2>1, <2>4, <2>5 DEF SafeAt
  <2> QED BY <2>1, <2>3, <2>6, SafePerTrade
<1>6. ASSUME NEW s \in Swap, SettlementStarts(s) PROVE Safe'
  <2>1. UNCHANGED <<pending, swaps>>
    BY <1>6 DEF SettlementStarts
  <2>2. /\ \A u \in Trade : Starting(u)' = Starting(u) /\ Running(u)' = Running(u)
        /\ \A x \in Swap : /\ ctx'[x].invitee = ctx[x].invitee
                           /\ ctx'[x].quote = ctx[x].quote
    BY <1>6, SettleTrade
  <2>3. OnePerTrade'
    BY <2>1, <2>2 DEF Safe, OnePerTrade
  <2>4. NoHijack'
    BY <2>1, <2>2 DEF Safe, NoHijack, Running
  <2> QED BY <2>3, <2>4 DEF Safe
<1>7. ASSUME NEW s \in Swap, SwapEnds(s) \/ SwapTimesOut(s) PROVE Safe'
  <2>t. PICK t : t = TradeOf(s)
    OBVIOUS
  <2>1. /\ t \in Trade /\ Running(t) = {s}
        /\ Starting(t)' = {} /\ Running(t)' = {}
        /\ \A u \in Trade \ {t} : Starting(u)' = Starting(u) /\ Running(u)' = Running(u)
        /\ \A x \in Swap \ {s} : ctx'[x] = ctx[x]
        /\ swaps' = [swaps EXCEPT ![t] = None] /\ pending' = [pending EXCEPT ![t] = None]
    BY <1>7, <2>t, EndTrade
  <2>2. OnlyTrade(t)
    <3>1. \A u \in Trade \ {t} : \A x \in Running(u) : x # s /\ x \in Swap
      BY <2>t DEF Running
    <3> QED BY <3>1, <2>1 DEF OnlyTrade, TypeOK
  <2>3. swaps'[t] = None
    BY <2>1 DEF TypeOK
  <2>4. SafeAt(t)'
    BY <2>1, <2>3 DEF SafeAt
  <2> QED BY <2>1, <2>2, <2>4, SafePerTrade
<1>8. ASSUME NEW k \in Key, Prunes(k) PROVE Safe'
  BY <1>8, SafeUnchanged DEF Prunes, running, work
<1>9. CASE Tick \/ UNCHANGED vars
  BY <1>9, SafeUnchanged DEF Tick, vars, running, work
<1> QED BY <1>1, <1>2, <1>3, <1>4, <1>5, <1>6, <1>7, <1>8, <1>9 DEF Next

\* The two invariants hold together with the types.
LEMMA AlwaysSafe == Spec => [](TypeOK /\ Safe)
<1>1. Init => TypeOK /\ Safe
  BY TypeInit, SafeInit
<1>2. TypeOK /\ Safe /\ [Next]_vars => (TypeOK /\ Safe)'
  BY TypeStep, SafeStep
<1> QED BY <1>1, <1>2, PTL DEF Spec

\* However the handlers of QUOTE_ACCEPT interleave at their awaits, and
\* whatever is repeated, a trade has at most one handler that starts its swap
\* or one swap that runs, and the maps keyed by the channel know it.
THEOREM OneAtATime == Spec => []OnePerTrade
<1>1. TypeOK /\ Safe => OnePerTrade
  BY DEF Safe
<1> QED BY <1>1, AlwaysSafe, PTL

\* The peer a swap is started with, and kept with until its end, is the
\* signer of the RFQ that the accepted quote answers.
THEOREM QuotedPeerOnly == Spec => []NoHijack
<1>1. TypeOK /\ Safe => NoHijack
  BY DEF Safe
<1> QED BY <1>1, AlwaysSafe, PTL

-----------------------------------------------------------------------------
(* Locks.  A handler that starts a swap keeps its lock object over its       *)
(* awaits, and the end of a swap finds the lock through the maps: that both  *)
(* reach the lock that serves them takes the next two invariants.            *)

Records == /\ quotes \subseteq Quote
           /\ \A w \in quoting : w.until # None => w \in Quote
           /\ \A k \in Key : locks[k] # None => locks[k].quote.rfq.key = k

Serves(k) ==
    locks[k] # None /\ locks[k].state # "quoted" =>
        LET t == locks[k].channel
        IN  /\ t \in Trade /\ channelLock[t] = k
            /\ \A w \in Starting(t) : w.lock = locks[k].quote
            /\ Starting(t) # {} \/ Running(t) # {}

LocksOK == Records /\ \A k \in Key : Serves(k)

\* What is cleared is the lock under the key, and no reference to another.
LEMMA ClearOne ==
    ASSUME TypeOK, NEW k, ClearLock(k), NEW j \in Key, locks'[j] # None
    PROVE  /\ locks'[j] = locks[j] /\ (k \in Key => j # k)
           /\ \A u \in Trade : channelLock[u] = j => channelLock'[u] = j
<1> DEFINE lock == IF k = None THEN None ELSE locks[k]
<1>1. CASE lock = None
  <2>1. UNCHANGED <<locks, channelLock>>
    BY <1>1 DEF ClearLock
  <2>2. k \in Key => k # None
    BY MakerAssumption
  <2> QED BY <1>1, <2>1, <2>2
<1>2. CASE lock # None
  <2>1. /\ locks' = [locks EXCEPT ![k] = None] /\ k # None
        /\ channelLock' = [t \in Trade |->
               IF t = lock.channel /\ channelLock[t] = k THEN None ELSE channelLock[t]]
    BY <1>2 DEF ClearLock
  <2>2. k \in Key => locks'[k] = None
    BY <2>1 DEF TypeOK
  <2>3. locks'[j] = locks[j] /\ j # k
    BY <2>1 DEF TypeOK
  <2>4. \A u \in Trade : channelLock[u] = j => channelLock'[u] = j
    BY <2>1, <2>3
  <2> QED BY <2>3, <2>4
<1> QED BY <1>1, <1>2

\* The lock a handler writes to: it is still on file, or nothing is written.
LEMMA SetOne ==
    ASSUME TypeOK, NEW q \in quotes, NEW state, NEW channel, NEW deadline,
           SetLock(q, state, channel, deadline), NEW j \in Key
    PROVE  \/ locks'[j] = locks[j] /\ ~(q.rfq.key = j /\ OnFile(q))
           \/ /\ q.rfq.key = j /\ OnFile(q)
              /\ locks'[j] # None => /\ locks'[j].quote = q /\ locks'[j].state = state
                                     /\ locks'[j].channel = channel
<1> DEFINE new == [state |-> state, quote |-> q, channel |-> channel, deadline |-> deadline]
<1>1. new.quote = q /\ new.state = state /\ new.channel = channel
  OBVIOUS
<1>2. locks' = IF OnFile(q) THEN [locks EXCEPT ![q.rfq.key] = new] ELSE locks
  BY DEF SetLock
<1> HIDE DEF new
<1> QED BY <1>1, <1>2 DEF TypeOK

LEMMA RecordsStep == TypeOK /\ Records /\ [Next]_vars => Records'
<1> SUFFICES ASSUME TypeOK, Records, [Next]_vars PROVE Records' OBVIOUS
<1>t. \A q \in quotes : q.rfq.key \in Key
  BY RfqParts DEF TypeOK
<1>1. ASSUME UNCHANGED <<quotes, quoting>>,
             \A k \in Key : locks'[k] # None => locks'[k].quote.rfq.key = k
      PROVE  Records'
  BY <1>1 DEF Records
<1>2. ASSUME NEW r \in Rfq, RfqArrives(r) PROVE Records'
  <2>1. \A k \in Key : locks'[k] # None => locks'[k].quote.rfq.key = k
    BY <1>2, ClearOne DEF RfqArrives, Records
  <2>2. \A w \in quoting' : w.until # None => w \in Quote
    BY <1>2 DEF RfqArrives, Records
  <2> QED BY <1>2, <2>1, <2>2 DEF RfqArrives, Records
<1>3. ASSUME NEW r \in Rfq, QuoteSent(r) PROVE Records'
  <2> DEFINE new == [rfq |-> r, until |-> now + QuoteValid]
  <2>1. new \in Quote
    BY MakerAssumption DEF TypeOK, Quote
  <2>2. \A w \in quoting' : w \in quoting \/ w = new
    BY <1>3 DEF QuoteSent
  <2> HIDE DEF new
  <2> QED BY <1>3, <2>1, <2>2 DEF QuoteSent, Records, books
<1>4. ASSUME NEW q \in quoting, QuoteFiled(q) PROVE Records'
  <2> DEFINE new == [state |-> "quoted", quote |-> q, channel |-> None, deadline |-> 0]
  <2>1. locks' = [locks EXCEPT ![q.rfq.key] = new] /\ new.quote = q
    BY <1>4 DEF QuoteFiled
  <2> HIDE DEF new
  <2>2. \A k \in Key : locks'[k] # None => locks'[k].quote.rfq.key = k
    BY <2>1 DEF TypeOK, Records
  <2> QED BY <1>4, <2>2 DEF QuoteFiled, Records
<1>5. ASSUME NEW w \in quoting, QuoteDropped(w) PROVE Records'
  BY <1>5 DEF QuoteDropped, Records, books
<1>6. ASSUME NEW q \in quotes, NEW state, NEW channel, NEW deadline,
             SetLock(q, state, channel, deadline), UNCHANGED <<quotes, quoting>>
      PROVE  Records'
  <2>1. ASSUME NEW k \in Key, locks'[k] # None PROVE locks'[k].quote.rfq.key = k
    BY <1>6, <2>1, SetOne DEF Records
  <2> QED BY <1>1, <1>6, <2>1
<1>7. ASSUME NEW q \in quotes, NEW p \in Peer, AcceptArrives(q, p) PROVE Records'
  <2> DEFINE lock == locks[q.rfq.key]
  <2>1. UNCHANGED <<quotes, quoting>>
    BY <1>7 DEF AcceptArrives
  <2>2. CASE lock = None
    BY <1>1, <1>7, <2>1, <2>2 DEF AcceptArrives, Records
  <2>3. CASE lock # None
    <3>1. SetLock(lock.quote, "accepting", q.rfq.trade, now + SwapTimeout)
      BY <1>7, <2>3 DEF AcceptArrives
    <3>2. lock.quote \in quotes
      BY <1>t, <2>3 DEF TypeOK, Lock
    <3> QED BY <1>6, <2>1, <3>1, <3>2
  <2> QED BY <2>2, <2>3
<1>8. ASSUME NEW w \in inviting, InviteFails(w) \/ \E s \in Swap : SwapStarts(w, s)
      PROVE  Records'
  <2>1. UNCHANGED <<quotes, quoting>>
    BY <1>8 DEF InviteFails, SwapStarts
  <2>2. w.lock # None => w.lock \in quotes
    BY DEF TypeOK
  <2>3. CASE UNCHANGED locks
    BY <1>1, <2>1, <2>3 DEF Records
  <2>4. CASE w.lock # None /\ SetLock(w.lock, "quoted", None, 0)
    BY <1>6, <2>1, <2>2, <2>4
  <2>5. CASE /\ w.lock # None
             /\ SetLock(w.lock, "swapping", w.quote.rfq.trade, now + SwapTimeout)
    BY <1>6, <2>1, <2>2, <2>5
  <2> QED BY <1>8, <2>3, <2>4, <2>5 DEF InviteFails, SwapStarts
<1>9. ASSUME NEW s \in Swap, SettlementStarts(s) PROVE Records'
  BY <1>9 DEF SettlementStarts, Records, books, work
<1>10. ASSUME NEW k, ClearLock(k), UNCHANGED <<quotes, quoting>> PROVE Records'
  <2>1. \A j \in Key : locks'[j] # None => locks'[j] = locks[j]
    BY <1>10, ClearOne
  <2> QED BY <1>1, <1>10, <2>1 DEF Records
<1>11. ASSUME NEW s \in Swap, SwapEnds(s) \/ SwapTimesOut(s) PROVE Records'
  <2>1. UNCHANGED <<quotes, quoting>>
    BY <1>11 DEF SwapEnds, SwapTimesOut
  <2>2. \E k : ClearLock(k)
    BY <1>11 DEF SwapEnds, SwapTimesOut, Cleanup
  <2> QED BY <1>10, <2>1, <2>2
<1>12. ASSUME NEW k \in Key, Prunes(k) PROVE Records'
  BY <1>10, <1>12 DEF Prunes, work
<1>13. CASE Tick \/ UNCHANGED vars
  BY <1>13 DEF Tick, vars, Records, books, work
<1> QED BY <1>2, <1>3, <1>4, <1>5, <1>7, <1>8, <1>9, <1>11, <1>12, <1>13 DEF Next

\* A lock that stays what it is serves a trade whose handlers and swaps stay.
LEMMA ServesKept ==
    ASSUME NEW k \in Key, Serves(k), locks'[k] = locks[k],
           NEW t, t = locks[k].channel,
           t \in Trade => /\ channelLock'[t] = channelLock[t] \/ channelLock'[t] = k
                          /\ Starting(t)' = Starting(t) /\ Running(t)' = Running(t)
    PROVE  Serves(k)'
  BY DEF Serves

\* A lock with nothing in flight on its channel is only quoted.
LEMMA NoOneServed ==
    ASSUME NEW t \in Trade, Starting(t) = {}, Running(t) = {}, NEW k \in Key, Serves(k),
           locks[k] # None, locks[k].state # "quoted"
    PROVE  locks[k].channel # t
  BY DEF Serves

LEMMA ServesStep == TypeOK /\ Safe /\ LocksOK /\ [Next]_vars => LocksOK'
<1> SUFFICES ASSUME TypeOK, Safe, LocksOK, [Next]_vars, NEW j \in Key
             PROVE  Serves(j)'
  BY RecordsStep DEF LocksOK
<1>s. Serves(j) /\ Records
  BY DEF LocksOK
<1>t. \A q \in quotes : q # None /\ q.rfq.key \in Key
  BY RfqParts, MakerAssumption, <1>s DEF TypeOK, Records
<1>0. ASSUME UNCHANGED <<inviting, ctx>>, UNCHANGED <<locks, channelLock>> PROVE Serves(j)'
  BY <1>0, <1>s DEF Serves, Starting, Running, Live, TradeOf
<1>c. ASSUME UNCHANGED <<inviting, ctx>>, NEW k, ClearLock(k) PROVE Serves(j)'
  <2>1. CASE locks'[j] = None
    BY <2>1 DEF Serves
  <2>2. CASE locks'[j] # None
    <3>1. /\ locks'[j] = locks[j]
          /\ \A u \in Trade : channelLock[u] = j => channelLock'[u] = j
      BY <1>c, <2>2, ClearOne
    <3> QED BY <1>c, <1>s, <3>1 DEF Serves, Starting, Running, Live, TradeOf
  <2> QED BY <2>1, <2>2
<1>1. ASSUME NEW r \in Rfq, RfqArrives(r) \/ QuoteSent(r) PROVE Serves(j)'
  BY <1>0, <1>c, <1>1 DEF RfqArrives, QuoteSent, running, books
<1>2. ASSUME NEW q \in quoting, QuoteFiled(q) PROVE Serves(j)'
  <2> DEFINE new == [state |-> "quoted", quote |-> q, channel |-> None, deadline |-> 0]
  <2>1. locks' = [locks EXCEPT ![q.rfq.key] = new] /\ new.state = "quoted"
    BY <1>2 DEF QuoteFiled
  <2> HIDE DEF new
  <2>2. locks'[j] = locks[j] \/ locks'[j].state = "quoted"
    BY <2>1 DEF TypeOK
  <2>3. UNCHANGED <<inviting, ctx, channelLock>>
    BY <1>2 DEF QuoteFiled, running
  <2> QED BY <1>s, <2>2, <2>3 DEF Serves, Starting, Running, Live, TradeOf
<1>3. ASSUME NEW q \in quoting, QuoteDropped(q) PROVE Serves(j)'
  BY <1>0, <1>3 DEF QuoteDropped, running, books
<1>4. ASSUME NEW q \in quotes, NEW p \in Peer, AcceptArrives(q, p) PROVE Serves(j)'
  <2>t. PICK t : t = q.rfq.trade
    OBVIOUS
  <2>1. /\ t \in Trade /\ Starting(t) = {} /\ Running(t) = {}
        /\ \A u \in Trade \ {t} : Starting(u)' = Starting(u)
        /\ \A u \in Trade : Running(u)' = Running(u)
    BY <1>4, <2>t, AcceptTrade
  <2>2. PICK new : /\ Starting(t)' = {new}
                   /\ new.lock = IF locks[q.rfq.key] = None THEN None
                                                            ELSE locks[q.rfq.key].quote
    BY <1>4, <2>t, AcceptTrade
  <2>3. ASSUME locks[j] # None, locks[j].state # "quoted" PROVE locks[j].channel # t
    BY <1>s, <2>1, <2>3, NoOneServed
  <2>4. CASE locks[q.rfq.key] = None
    <3>1. UNCHANGED <<locks, channelLock>>
      BY <1>4, <2>4 DEF AcceptArrives
    <3> QED BY <1>s, <2>1, <2>3, <3>1, ServesKept DEF Serves
  <2>5. CASE locks[q.rfq.key] # None
    <3> DEFINE old == locks[q.rfq.key].quote
    <3>1. /\ SetLock(old, "accepting", t, now + SwapTimeout)
          /\ channelLock' = [channelLock EXCEPT ![t] = q.rfq.key]
      BY <1>4, <2>t, <2>5 DEF AcceptArrives
    <3>2. old \in quotes /\ old.rfq.key = q.rfq.key
      BY <1>s, <1>t, <2>5 DEF TypeOK, Lock, Records
    <3>3. OnFile(old)
      BY <2>5, <3>2 DEF OnFile
    <3>4. channelLock'[t] = q.rfq.key /\ \A u \in Trade \ {t} : channelLock'[u] = channelLock[u]
      BY <2>1, <3>1 DEF TypeOK
    <3>5. new.lock = old
      BY <2>2, <2>5
    <3> HIDE DEF old
    <3>6. CASE j = q.rfq.key
      <4>1. locks'[j] # None => /\ locks'[j].quote = old /\ locks'[j].channel = t
        BY <3>1, <3>2, <3>3, <3>6, SetOne
      <4> QED BY <2>1, <2>2, <3>4, <3>5, <3>6, <4>1 DEF Serves
    <3>7. CASE j # q.rfq.key
      <4>1. locks'[j] = locks[j]
        BY <3>1, <3>2, <3>7, SetOne
      <4> QED BY <1>s, <2>1, <2>3, <3>4, <4>1, ServesKept DEF Serves
    <3> QED BY <3>6, <3>7
  <2> QED BY <2>4, <2>5
<1>5. ASSUME NEW w \in inviting, InviteFails(w) PROVE Serves(j)'
  <2>t. PICK t : t = w.quote.rfq.trade
    OBVIOUS
  <2>1. /\ t \in Trade /\ Starting(t) = {w}
        /\ \A u \in Trade \ {t} : Starting(u)' = Starting(u)
        /\ \A u \in Trade : Running(u)' = Running(u)
    BY <1>5, <2>t, FailTrade
  <2>2. channelLock' = [channelLock EXCEPT ![t] = None]
    BY <1>5, <2>t DEF InviteFails
  <2>3. \A u \in Trade \ {t} : channelLock'[u] = channelLock[u]
    BY <2>1, <2>2 DEF TypeOK
  <2>4. ASSUME locks'[j] = locks[j],
               ~(w.lock # None /\ w.lock.rfq.key = j /\ OnFile(w.lock))
        PROVE  Serves(j)'
    <3>1. locks[j] # None /\ locks[j].state # "quoted" => locks[j].channel # t
      <4>1. ASSUME locks[j] # None, locks[j].state # "quoted", locks[j].channel = t
            PROVE  FALSE
        <5>1. w.lock = locks[j].quote
          BY <1>s, <2>1, <4>1 DEF Serves
        <5>2. locks[j].quote \in quotes /\ locks[j].quote.rfq.key = j
          BY <1>s, <4>1 DEF Records, TypeOK, Lock
        <5> QED BY <1>t, <2>4, <4>1, <5>1, <5>2 DEF OnFile
      <4> QED BY <4>1
    <3> QED BY <1>s, <2>1, <2>3, <2>4, <3>1, ServesKept DEF Serves
  <2>5. CASE w.lock = None
    BY <1>5, <2>4, <2>5 DEF InviteFails
  <2>6. CASE w.lock # None
    <3>1. SetLock(w.lock, "quoted", None, 0) /\ w.lock \in quotes
      BY <1>5, <2>6 DEF InviteFails, TypeOK
    <3>2. \/ locks'[j] = locks[j] /\ ~(w.lock.rfq.key = j /\ OnFile(w.lock))
          \/ locks'[j] # None => locks'[j].state = "quoted"
      BY <3>1, SetOne
    <3> QED BY <2>4, <3>2 DEF Serves
  <2> QED BY <2>5, <2>6
<1>6. ASSUME NEW w \in inviting, NEW s \in Swap, SwapStarts(w, s) PROVE Serves(j)'
  <2>t. PICK t : t = w.quote.rfq.trade
    OBVIOUS
  <2>1. /\ t \in Trade /\ Starting(t) = {w} /\ Running(t) = {}
        /\ Starting(t)' = {} /\ Running(t)' = {s}
        /\ \A u \in Trade \ {t} : Starting(u)' = Starting(u) /\ Running(u)' = Running(u)
    BY <1>6, <2>t, StartTrade
  <2>2. locks[j] # None /\ locks[j].state # "quoted" /\ locks[j].channel = t
            => w.lock = locks[j].quote /\ w.lock # None /\ w.lock.rfq.key = j /\ OnFile(w.lock)
    <3>1. ASSUME locks[j] # None, locks[j].state # "quoted", locks[j].channel = t
          PROVE  w.lock = locks[j].quote /\ w.lock # None /\ w.lock.rfq.key = j /\ OnFile(w.lock)
      <4>1. w.lock = locks[j].quote
        BY <1>s, <2>1, <3>1 DEF Serves
      <4>2. locks[j].quote \in quotes /\ locks[j].quote.rfq.key = j
        BY <1>s, <3>1 DEF Records, TypeOK, Lock
      <4> QED BY <1>t, <3>1, <4>1, <4>2 DEF OnFile
    <3> QED BY <3>1
  <2>3. CASE w.lock = None
    <3>1. UNCHANGED <<locks, channelLock>>
      BY <1>6, <2>3 DEF SwapStarts
    <3> QED BY <1>s, <2>1, <2>2, <2>3, <3>1, ServesKept DEF Serves
  <2>4. CASE w.lock # None
    <3>1. /\ SetLock(w.lock, "swapping", t, now + SwapTimeout) /\ w.lock \in quotes
          /\ channelLock' = [channelLock EXCEPT ![t] = w.lock.rfq.key]
      BY <1>6, <2>t, <2>4 DEF SwapStarts, TypeOK
    <3>2. /\ channelLock'[t] = w.lock.rfq.key
          /\ \A u \in Trade \ {t} : channelLock'[u] = channelLock[u]
      BY <2>1, <3>1 DEF TypeOK
    <3>3. \/ locks'[j] = locks[j] /\ ~(w.lock.rfq.key = j /\ OnFile(w.lock))
          \/ /\ w.lock.rfq.key = j
             /\ locks'[j] # None => locks'[j].channel = t
      BY <3>1, SetOne
    <3>4. CASE /\ w.lock.rfq.key = j
               /\ locks'[j] # None => locks'[j].channel = t
      BY <2>1, <3>2, <3>4 DEF Serves
    <3>5. CASE locks'[j] = locks[j] /\ ~(w.lock.rfq.key = j /\ OnFile(w.lock))
      BY <1>s, <2>1, <2>2, <3>2, <3>5, ServesKept DEF Serves
    <3> QED BY <3>3, <3>4, <3>5
  <2> QED BY <2>3, <2>4
<1>7. ASSUME NEW s \in Swap, SettlementStarts(s) PROVE Serves(j)'
  <2>1. \A u \in Trade : Starting(u)' = Starting(u) /\ Running(u)' = Running(u)
    BY <1>7, SettleTrade
  <2>2. UNCHANGED <<locks, channelLock>>
    BY <1>7 DEF SettlementStarts, books
  <2> QED BY <1>s, <2>1, <2>2 DEF Serves
<1>8. ASSUME NEW s \in Swap, SwapEnds(s) \/ SwapTimesOut(s) PROVE Serves(j)'
  <2>t. PICK t : t = TradeOf(s)
    OBVIOUS
  <2> DEFINE c == IF channelLock[t] # None THEN channelLock[t] ELSE tradeLock[t]
  <2>1. /\ t \in Trade /\ ClearLock(c)
        /\ \A u \in Trade \ {t} : Starting(u)' = Starting(u) /\ Running(u)' = Running(u)
    BY <1>8, <2>t, EndTrade
  <2>2. CASE locks'[j] = None
    BY <2>2 DEF Serves
  <2>3. CASE locks'[j] # None
    <3>1. j # None
      BY MakerAssumption
    <3>2. channelLock[t] = j => c = j
      BY <3>1
    <3> HIDE DEF c
    <3>3. /\ locks'[j] = locks[j] /\ c # j
          /\ \A u \in Trade : channelLock[u] = j => channelLock'[u] = j
      BY <2>1, <2>3, ClearOne
    <3>4. locks[j].state # "quoted" => locks[j].channel # t
      BY <1>s, <2>3, <3>2, <3>3 DEF Serves
    <3> QED BY <1>s, <2>1, <3>3, <3>4 DEF Serves
  <2> QED BY <2>2, <2>3
<1>9. ASSUME NEW k \in Key, Prunes(k) PROVE Serves(j)'
  BY <1>c, <1>9 DEF Prunes, running, work
<1>10. CASE Tick \/ UNCHANGED vars
  BY <1>0, <1>10 DEF Tick, vars, books, running, work
<1> QED BY <1>1, <1>2, <1>3, <1>4, <1>5, <1>6, <1>7, <1>8, <1>9, <1>10 DEF Next

LEMMA LocksInit == Init => LocksOK
  BY DEF Init, LocksOK, Records, Serves

LEMMA AlwaysServes == Spec => [](TypeOK /\ Safe /\ LocksOK)
<1>1. Init => TypeOK /\ Safe /\ LocksOK
  BY TypeInit, SafeInit, LocksInit
<1>2. TypeOK /\ Safe /\ LocksOK /\ [Next]_vars => (TypeOK /\ Safe /\ LocksOK)'
  BY TypeStep, SafeStep, ServesStep
<1> QED BY <1>1, <1>2, PTL DEF Spec

\* A lock that refuses the repost of an RFQ because a swap is starting or
\* running does so for a swap that is: whichever handlers interleave, the
\* failure of the start rolls it back and the end of the swap drops it.
THEOREM LocksServe == Spec => []LockServes
<1>1. TypeOK /\ Safe /\ LocksOK => LockServes
  BY DEF LocksOK, Serves, LockServes
<1> QED BY <1>1, AlwaysServes, PTL

-----------------------------------------------------------------------------
(* Capacity.  active is no count of the swaps that settle: the timeout of a  *)
(* swap gives nothing back, and the end of a swap that never settled gives   *)
(* back too much.  It never exceeds those that settle or timed out.          *)

Counted == {s \in Swap : ctx[s].phase \in {"settling", "expired"}}
CountOK == IsFiniteSet(Counted) /\ active <= Cardinality(Counted)

LEMMA CountMore ==
    ASSUME TypeOK, CountOK, NEW s, Counted' = Counted \cup {s}, active' \in Nat,
           active' <= active \/ (s \notin Counted /\ active' = active + 1)
    PROVE  CountOK'
<1>1. IsFiniteSet(Counted) /\ Cardinality(Counted) \in Nat /\ active <= Cardinality(Counted)
      /\ active \in Nat
  BY FS_CardinalityType DEF CountOK, TypeOK
<1>2. /\ IsFiniteSet(Counted \cup {s})
      /\ Cardinality(Counted \cup {s}) = IF s \in Counted THEN Cardinality(Counted)
                                                           ELSE Cardinality(Counted) + 1
  BY <1>1, FS_AddElement
<1>3. active' <= Cardinality(Counted \cup {s})
  BY <1>1, <1>2
<1> QED BY <1>2, <1>3 DEF CountOK

LEMMA CountStep == TypeOK /\ Safe /\ CountOK /\ [Next]_vars => CountOK'
<1> SUFFICES ASSUME TypeOK, Safe, CountOK, [Next]_vars PROVE CountOK' OBVIOUS
<1>0. ASSUME UNCHANGED <<ctx, active>> PROVE CountOK'
  BY <1>0 DEF CountOK, Counted
<1>1. ASSUME NEW r \in Rfq, RfqArrives(r) \/ QuoteSent(r) PROVE CountOK'
  BY <1>0, <1>1 DEF RfqArrives, QuoteSent, running, counts
<1>2. ASSUME NEW w \in quoting, QuoteFiled(w) \/ QuoteDropped(w) PROVE CountOK'
  BY <1>0, <1>2 DEF QuoteFiled, QuoteDropped, running, counts
<1>3. ASSUME NEW q \in quotes, NEW p \in Peer, AcceptArrives(q, p) PROVE CountOK'
  BY <1>0, <1>3 DEF AcceptArrives, counts
<1>4. ASSUME NEW w \in inviting, InviteFails(w) PROVE CountOK'
  BY <1>0, <1>4 DEF InviteFails, counts
<1>5. ASSUME NEW w \in inviting, NEW s \in Swap, SwapStarts(w, s) PROVE CountOK'
  <2>1. ctx'[s].phase = "open" /\ \A x \in Swap \ {s} : ctx'[x] = ctx[x]
    <3>1. PICK t : t = w.quote.rfq.trade
      OBVIOUS
    <3> QED BY <1>5, <3>1, StartTrade
  <2>2. ctx[s].phase = "idle"
    BY <1>5 DEF SwapStarts, Idle
  <2>3. Counted' = Counted
    BY <2>1, <2>2 DEF Counted
  <2> QED BY <1>5, <2>3 DEF SwapStarts, CountOK, counts
<1>6. ASSUME NEW s \in Swap, SettlementStarts(s) PROVE CountOK'
  <2>1. PICK ph \in {"skipped", "settling"} :
            /\ ctx' = [ctx EXCEPT ![s].phase = ph]
            /\ active' = IF ph = "settling" THEN active + 1 ELSE active
    BY <1>6 DEF SettlementStarts
  <2>2. ctx[s].phase = "open" /\ ctx[s] \in Context
    BY <1>6, LiveContext DEF SettlementStarts, Live
  <2>3. ctx'[s].phase = ph /\ \A x \in Swap \ {s} : ctx'[x] = ctx[x]
    BY <2>1, <2>2 DEF TypeOK, Context
  <2>4. s \notin Counted /\ Counted' = Counted \cup (IF ph = "settling" THEN {s} ELSE {})
    BY <2>2, <2>3 DEF Counted
  <2>5. active \in Nat /\ active' \in Nat
    BY <2>1 DEF TypeOK
  <2>6. CASE ph = "settling"
    BY <2>1, <2>4, <2>5, <2>6, CountMore
  <2>7. CASE ph = "skipped"
    BY <2>1, <2>4, <2>7 DEF CountOK
  <2> QED BY <2>6, <2>7
<1>7. ASSUME NEW s \in Swap, SwapEnds(s) PROVE CountOK'
  <2>1. PICK ph \in {"claimed", "canceled"} : Cleanup(s, ph) /\ active' = Released
    BY <1>7 DEF SwapEnds
  <2>2. ctx[s] \in Context
    BY <1>7, LiveContext DEF SwapEnds
  <2>3. ctx'[s].phase = ph /\ \A x \in Swap \ {s} : ctx'[x] = ctx[x]
    BY <2>1, <2>2 DEF Cleanup, TypeOK, Context
  <2>4. Counted' = Counted \ {s}
    BY <2>3 DEF Counted
  <2>5. IsFiniteSet(Counted) /\ Cardinality(Counted) \in Nat /\ active <= Cardinality(Counted)
        /\ active \in Nat
    BY FS_CardinalityType DEF CountOK, TypeOK
  <2>6. /\ IsFiniteSet(Counted \ {s})
        /\ Cardinality(Counted \ {s}) = IF s \in Counted THEN Cardinality(Counted) - 1
                                                          ELSE Cardinality(Counted)
    BY <2>5, FS_RemoveElement
  <2>7. s \in Counted => Cardinality(Counted) # 0
    BY <2>5, FS_EmptySet
  <2>8. active' <= Cardinality(Counted \ {s})
    BY <2>1, <2>5, <2>6, <2>7 DEF Released
  <2> QED BY <2>4, <2>6, <2>8 DEF CountOK
<1>8. ASSUME NEW s \in Swap, SwapTimesOut(s) PROVE CountOK'
  <2>1. Cleanup(s, "expired") /\ UNCHANGED active
    BY <1>8 DEF SwapTimesOut, counts
  <2>2. ctx[s] \in Context
    BY <1>8, LiveContext DEF SwapTimesOut
  <2>3. ctx'[s].phase = "expired" /\ \A x \in Swap \ {s} : ctx'[x] = ctx[x]
    BY <2>1, <2>2 DEF Cleanup, TypeOK, Context
  <2>4. Counted' = Counted \cup {s}
    BY <2>3 DEF Counted
  <2>5. active \in Nat /\ active' \in Nat /\ active' <= active
    BY <2>1 DEF TypeOK
  <2> QED BY <2>4, <2>5, CountMore
<1>9. ASSUME NEW k \in Key, Prunes(k) PROVE CountOK'
  BY <1>0, <1>9 DEF Prunes, running, counts
<1>10. CASE Tick \/ UNCHANGED vars
  BY <1>0, <1>10 DEF Tick, vars, running, counts
<1> QED BY <1>1, <1>2, <1>3, <1>4, <1>5, <1>6, <1>7, <1>8, <1>9, <1>10 DEF Next

\* Capacity that no trade used up comes back: with trades to go and no swap
\* left, none of which timed out, the maker quotes again.
THEOREM CapacityComesBack == Spec => []CapacityReturns
<1>1. Init => TypeOK /\ Safe /\ CountOK
  <2>1. Init => CountOK
    <3> SUFFICES ASSUME Init PROVE CountOK OBVIOUS
    <3>1. Counted = {}
      BY DEF Init, Counted, Idle
    <3> QED BY <3>1, FS_EmptySet DEF Init, CountOK
  <2> QED BY <2>1, TypeInit, SafeInit
<1>2. TypeOK /\ Safe /\ CountOK /\ [Next]_vars => (TypeOK /\ Safe /\ CountOK)'
  BY TypeStep, SafeStep, CountStep
<1>3. TypeOK /\ Safe /\ CountOK => CapacityReturns
  <2> SUFFICES ASSUME TypeOK, CountOK, completed < MaxTrades,
                      \A s \in Swap : ~Live(s) /\ ctx[s].phase # "expired"
               PROVE  CapacityLeft
    BY DEF CapacityReturns
  <2>1. Counted = {}
    BY DEF Counted, Live
  <2>2. active = 0 /\ completed \in Nat
    BY <2>1, FS_EmptySet DEF CountOK, TypeOK
  <2> QED BY <2>2, MakerAssumption DEF CapacityLeft
<1> QED BY <1>1, <1>2, <1>3, PTL DEF Spec
=============================================================================
