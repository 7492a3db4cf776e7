--------------------------- MODULE TakerRfqProofs ---------------------------
(***************************************************************************)
(* The taker's negotiation, for any makers, offers, quotes and flags, any  *)
(* number of trades and faults.                                            *)
(*                                                                         *)
(* The accept of a cycle is sent, answered or given up, sent again and     *)
(* heard while quotes, invitations and the deadline go on: what keeps all  *)
(* of that to one maker and one trade is what each part of the commitment  *)
(* says of the others (Committed), and that no accept is out for a trade   *)
(* whose cycle has not begun (OneAccept).                                  *)
(***************************************************************************)
EXTENDS TakerRfq, TLAPS

Answer == [rfq : {"cur", "old"}, terms : Quotes, fresh : BOOLEAN]

Head == {"idle", "listen", "start", "posting"}

Types ==
    /\ pc \in Head \cup {"open", "swap", "exit", "dead"}
    /\ deal \in Deal
    /\ trades \in Nat /\ completed \in Nat /\ active \in {0, 1}
    /\ chosen \in Commitment \cup {None}
    /\ accepting \in BOOLEAN /\ joining \in BOOLEAN
    /\ quote \in [Makers -> Answer \cup {None}]
    /\ accepts \subseteq Makers \X Nat /\ invites \subseteq accepts

\* What is followed is within the flags.
WithinOwn == deal.fee <= Own.fee /\ Own.min <= deal.min /\ deal.max <= Own.max

\* What the parts of a commitment say of each other.
Committed ==
    /\ trades = completed /\ completed <= MaxTrades
    /\ pc \in {"listen", "start", "posting"} => chosen = None
    /\ pc \in Head \cup {"exit"} => active = 0
    /\ pc = "exit" => completed = MaxTrades
    /\ pc = "swap" => chosen # None /\ <<chosen.maker, Trade>> \in accepts
    /\ joining => /\ pc = "open" /\ chosen # None
                  /\ <<chosen.maker, Trade>> \in accepts
    /\ accepting \/ active = 1 => chosen # None /\ pc \in {"open", "swap", "dead"}
    /\ accepting => active = 0
    /\ chosen # None /\ pc \in {"open", "swap", "dead"} => completed < MaxTrades

\* The accepts that are out for the trade of this cycle are for its maker.
OneAccept ==
    /\ \A a \in accepts :
          /\ a[2] <= Trade
          /\ a[2] = Trade => /\ pc \in {"open", "swap", "dead"}
                             /\ chosen # None /\ a[1] = chosen.maker
    /\ \A a, b \in accepts : a[2] = b[2] => a = b

IInv == Types /\ WithinOwn /\ WithinFlags /\ Committed /\ OneAccept

-----------------------------------------------------------------------------
\* A step that leaves the cycle and the commitment as they are.
LEMMA Frame ==
    ASSUME IInv,
           UNCHANGED <<pc, deal, trades, completed, active, chosen, accepting, joining, accepts>>,
           invites' \subseteq accepts,
           quote' \in [Makers -> Answer \cup {None}]
    PROVE  IInv'
  BY DEF IInv, Types, WithinOwn, WithinFlags, Committed, OneAccept, Trade

\* A step to another part of the cycle's head, or to its end without a trade.
LEMMA HeadStep ==
    ASSUME IInv, pc \in Head, chosen' = None \/ (pc' \in {"idle", "exit"} /\ chosen' = chosen),
           pc' \in Head \cup {"exit", "open", "dead"},
           pc' = "exit" => completed = MaxTrades,
           deal' \in Deal, WithinOwn',
           UNCHANGED <<trades, completed, active, accepting, joining, accepts, invites>>,
           quote' \in [Makers -> Answer \cup {None}]
    PROVE  IInv'
<1> USE DEF IInv
<1>1. Types'
  BY DEF Types
<1>2. WithinFlags'
  BY DEF WithinFlags
<1>3. ~accepting /\ ~joining /\ active = 0
  BY DEF Committed, Types, Head
<1>4. \A a \in accepts : a[2] # Trade
  BY DEF OneAccept, Head
<1>5. Committed'
  BY <1>3 DEF Committed, Trade, Head
<1>6. OneAccept'
  BY <1>4 DEF OneAccept, Trade
<1> QED BY <1>1, <1>2, <1>5, <1>6

LEMMA HeadSteps ==
    ASSUME IInv,
           \/ Begins \/ Exits \/ Posts \/ Posted \/ StartFails
           \/ \E o \in Offers, until \in {"never", "later"} : FollowsOffer(o, until)
    PROVE  IInv'
<1>0. /\ deal \in Deal /\ WithinOwn /\ Own \in Deal /\ Offers \subseteq Deal
      /\ quote \in [Makers -> Answer \cup {None}]
      /\ pc \in {"listen", "start", "posting"} => chosen = None
      /\ trades = completed /\ completed <= MaxTrades
      /\ completed \in Nat /\ MaxTrades \in Nat
  BY TakerAssumption DEF IInv, Types, Committed
<1>1. CASE Begins
  <2>1. /\ pc = "idle" /\ pc' \in {"listen", "start"} /\ deal' = Own /\ chosen' = None
        /\ UNCHANGED <<trades, completed, active, accepting, joining, accepts, invites>>
        /\ quote' = [m \in Makers |-> None]
    BY <1>1 DEF Begins
  <2>2. WithinOwn'
    <3>1. Own.min <= Own.min /\ Own.fee <= Own.fee /\ Own.max <= Own.max
      BY <1>0 DEF Deal
    <3> QED BY <2>1, <3>1 DEF WithinOwn
  <2> QED BY <1>0, <2>1, <2>2, HeadStep DEF Head
<1>2. CASE Exits
  <2>1. /\ pc = "idle" /\ pc' = "exit" /\ trades >= MaxTrades
        /\ UNCHANGED <<deal, trades, completed, active, chosen, accepting, joining, accepts,
                       invites, quote>>
    BY <1>2 DEF Exits, cycle, commitment, makers
  <2>2. completed = MaxTrades
    BY <1>0, <2>1
  <2> QED BY <1>0, <2>1, <2>2, HeadStep DEF Head, WithinOwn
<1>3. CASE Posts \/ Posted \/ StartFails
  <2>1. /\ pc \in {"start", "posting"} /\ pc' \in {"idle", "posting", "open", "dead"}
        /\ UNCHANGED <<deal, trades, completed, active, chosen, accepting, joining, accepts,
                       invites, quote>>
    BY <1>3 DEF Posts, Posted, StartFails, cycle, commitment, makers
  <2> QED BY <1>0, <2>1, HeadStep DEF Head, WithinOwn
<1>4. ASSUME NEW o \in Offers, NEW until, FollowsOffer(o, until) PROVE IInv'
  <2>1. /\ pc = "listen" /\ pc' = "start" /\ deal' = o /\ Matches(o)
        /\ UNCHANGED <<trades, completed, active, chosen, accepting, joining, accepts,
                       invites, quote>>
    BY <1>4 DEF FollowsOffer, commitment, makers
  <2>2. WithinOwn'
    BY <2>1 DEF Matches, WithinOwn
  <2> QED BY <1>0, <2>1, <2>2, HeadStep DEF Head
<1> QED BY <1>1, <1>2, <1>3, <1>4

\* The quote that is committed to, with or without its accept on the way.
LEMMA QuoteStep ==
    ASSUME IInv, NEW m \in Makers, HearsQuote(m)
    PROVE  IInv'
<1> USE DEF IInv
<1> DEFINE new == [maker |-> m, terms |-> quote[m].terms]
<1>1. /\ pc = "open" /\ chosen = None /\ quote[m] # None
      /\ Fits(quote[m].terms, deal) /\ InBounds(quote[m].terms.btc)
      /\ completed + active < MaxTrades
      /\ chosen' = new /\ accepting' = TRUE
      /\ accepts' = accepts \/ accepts' = accepts \cup {<<m, Trade>>}
      /\ UNCHANGED <<pc, deal, trades, completed, active, joining, quote, invites>>
  BY DEF HearsQuote, Uncommitted, CapacityLeft, SendsAccept, cycle, makers
<1>2. new \in Commitment /\ new # None /\ new.maker = m /\ new.terms = quote[m].terms
  <2>1. quote[m].terms \in Quotes
    BY <1>1 DEF Types, Answer
  <2>2. new \in Commitment
    BY <2>1 DEF Commitment
  <2>3. None \notin Commitment
    BY TakerAssumption
  <2> QED BY <2>2, <2>3
<1> HIDE DEF new
<1>3. ~accepting /\ ~joining /\ active = 0 /\ Trade \in Nat /\ MaxTrades \in Nat
  BY <1>1, TakerAssumption DEF Committed, Types, Trade
<1>4. \A a \in accepts : a[2] # Trade
  BY <1>1 DEF OneAccept
<1>5. Types'
  BY <1>1, <1>2, <1>3 DEF Types
<1>6. WithinFlags'
  <2> DEFINE q == quote[m].terms
  <2>1. /\ q.fee <= deal.fee /\ q.window <= deal.max
        /\ deal.min <= q.window \/ Own.min <= q.window
        /\ q.fee \in Nat /\ q.window \in Nat
    <3>1. q \in Quotes
      BY <1>1 DEF Types, Answer
    <3>2. q.fee \in Nat /\ q.window \in Nat
      BY <3>1, TakerAssumption
    <3>3. deal.min \in Nat /\ deal.max \in Nat
      BY DEF Types, Deal
    <3> QED BY <1>1, <3>2, <3>3 DEF Fits
  <2>2. /\ deal.fee \in Nat /\ deal.min \in Nat /\ deal.max \in Nat
        /\ Own.fee \in Nat /\ Own.min \in Nat /\ Own.max \in Nat
    BY TakerAssumption DEF Types, Deal
  <2>3. deal.fee <= Own.fee /\ Own.min <= deal.min /\ deal.max <= Own.max
    BY DEF WithinOwn
  <2> HIDE DEF q
  <2>4. q.fee <= Own.fee /\ q.window \in Own.min .. Own.max
    BY <2>1, <2>2, <2>3
  <2> QED BY <1>1, <1>2, <2>4 DEF WithinFlags, q
<1>7. WithinOwn'
  BY <1>1 DEF WithinOwn
<1>8. Committed'
  BY <1>1, <1>2, <1>3 DEF Committed, Types
<1>9. OneAccept'
  <2>1. Trade' = Trade
    BY <1>1 DEF Trade
  <2>2. \A a \in accepts' : a \in accepts \/ (a[1] = m /\ a[2] = Trade /\ a = <<m, Trade>>)
    BY <1>1
  <2>3. \A a \in accepts : a[2] <= Trade
    BY DEF OneAccept
  <2>4. \A a \in accepts' : a[2] <= Trade /\ (a[2] = Trade => a[1] = m)
    BY <1>3, <1>4, <2>2, <2>3
  <2>5. ASSUME NEW a \in accepts', NEW b \in accepts', a[2] = b[2] PROVE a = b
    BY <1>4, <2>2, <2>5 DEF OneAccept
  <2> QED BY <1>1, <1>2, <2>1, <2>4, <2>5 DEF OneAccept
<1> QED BY <1>5, <1>6, <1>7, <1>8, <1>9

\* The send is answered or given up, repeated; the invitation is followed.
LEMMA CommitmentSteps ==
    ASSUME IInv,
           \/ AcceptSent \/ AcceptFails \/ AcceptResent \/ Joined \/ JoinFails
           \/ \E m \in Makers : HearsInvite(m)
    PROVE  IInv'
<1> USE DEF IInv
<1>1. CASE AcceptSent \/ AcceptFails
  <2>1. /\ accepting /\ accepting' = FALSE
        /\ active' = active + 1 \/ active' = active
        /\ UNCHANGED <<pc, deal, trades, completed, chosen, joining, accepts, invites, quote>>
    BY <1>1 DEF AcceptSent, AcceptFails, cycle, makers
  <2>2. active = 0
    BY <2>1 DEF Committed
  <2>3. active' \in {0, 1} /\ chosen # None /\ pc \in {"open", "swap", "dead"}
    BY <2>1, <2>2 DEF Committed
  <2>4. Types' /\ WithinOwn' /\ WithinFlags'
    BY <2>1, <2>3 DEF Types, WithinOwn, WithinFlags
  <2>5. Committed'
    BY <2>1, <2>3 DEF Committed, Trade, Head
  <2>6. OneAccept'
    BY <2>1 DEF OneAccept, Trade
  <2> QED BY <2>4, <2>5, <2>6
<1>2. CASE AcceptResent
  <2> DEFINE new == <<chosen.maker, Trade>>
  <2>1. /\ pc = "open" /\ chosen # None /\ accepts' = accepts \cup {new}
        /\ UNCHANGED <<pc, deal, trades, completed, active, chosen, accepting, joining,
                       invites, quote>>
    BY <1>2 DEF AcceptResent, ResendsAccept, SendsAccept, cycle, commitment, makers
  <2>2. Trade \in Nat /\ Trade' = Trade /\ chosen.maker \in Makers
    BY <2>1 DEF Types, Trade, Commitment
  <2>3. new \in Makers \X Nat /\ new[1] = chosen.maker /\ new[2] = Trade
    BY <2>2
  <2>4. Types' /\ WithinOwn' /\ WithinFlags'
    BY <2>1, <2>3 DEF Types, WithinOwn, WithinFlags
  <2>5. Committed'
    BY <2>1, <2>2 DEF Committed
  <2>6. \A a \in accepts : a \in Makers \X Nat
    BY DEF Types
  <2>7. \A a \in accepts : a[2] = Trade => a = new
    <3>1. ASSUME NEW a \in accepts, a[2] = Trade PROVE a = new
      <4>1. a[1] = chosen.maker /\ a = <<a[1], a[2]>>
        BY <2>6, <3>1 DEF OneAccept
      <4> QED BY <3>1, <4>1
    <3> QED BY <3>1
  <2> HIDE DEF new
  <2>8. OneAccept'
    <3>1. \A a \in accepts' : a \in accepts \/ a = new
      BY <2>1
    <3>2. \A a \in accepts' : a[2] <= Trade /\ (a[2] = Trade => a[1] = chosen.maker)
      BY <2>2, <2>3, <3>1 DEF OneAccept
    <3>3. ASSUME NEW a \in accepts', NEW b \in accepts', a[2] = b[2] PROVE a = b
      BY <2>3, <2>7, <3>1, <3>3 DEF OneAccept
    <3> QED BY <2>1, <2>2, <3>2, <3>3 DEF OneAccept
  <2> QED BY <2>4, <2>5, <2>8
<1>3. ASSUME NEW m \in Makers, HearsInvite(m) PROVE IInv'
  <2>1. /\ pc = "open" /\ <<m, Trade>> \in invites /\ chosen # None /\ chosen.maker = m
        /\ joining' = TRUE
        /\ UNCHANGED <<pc, deal, trades, completed, active, chosen, accepting, accepts,
                       invites, quote>>
    BY <1>3 DEF HearsInvite, cycle, makers
  <2>2. <<chosen.maker, Trade>> \in accepts
    BY <2>1 DEF Types
  <2> QED BY <2>1, <2>2 DEF Types, WithinOwn, WithinFlags, Committed, OneAccept, Trade, Head
<1>4. CASE Joined \/ JoinFails
  <2>1. /\ joining /\ joining' = FALSE /\ pc' \in {pc, "swap"}
        /\ UNCHANGED <<deal, trades, completed, active, chosen, accepting, accepts,
                       invites, quote>>
    BY <1>4 DEF Joined, JoinFails, cycle, makers
  <2>2. pc = "open" /\ chosen # None /\ <<chosen.maker, Trade>> \in accepts
    BY <2>1 DEF Committed
  <2> QED BY <2>1, <2>2 DEF Types, WithinOwn, WithinFlags, Committed, OneAccept, Trade, Head
<1> QED BY <1>1, <1>2, <1>3, <1>4

LEMMA SwapSteps ==
    ASSUME IInv, SwapDone \/ SwapFails
    PROVE  IInv'
<1> USE DEF IInv
<1>1. CASE SwapDone
  <2>1. /\ pc = "swap" /\ ~accepting /\ pc' = "idle"
        /\ completed' = completed + 1 /\ trades' = trades + 1 /\ active' = Released
        /\ UNCHANGED <<deal, chosen, accepting, joining, accepts, invites, quote>>
    BY <1>1 DEF SwapDone, makers
  <2>2. /\ ~joining /\ chosen # None /\ completed < MaxTrades /\ active' = 0
        /\ completed \in Nat /\ trades = completed /\ MaxTrades \in Nat
    BY <2>1, TakerAssumption DEF Committed, Types, Released
  <2>3. Types' /\ WithinOwn' /\ WithinFlags'
    BY <2>1, <2>2 DEF Types, Head, WithinOwn, WithinFlags
  <2>4. Committed'
    BY <2>1, <2>2 DEF Committed, Head
  <2>5. OneAccept'
    <3>1. Trade' = Trade + 1 /\ Trade \in Nat
      BY <2>1, <2>2 DEF Trade
    <3>2. \A a \in accepts : a[2] \in Nat /\ a[2] <= Trade
      BY DEF OneAccept, Types
    <3>3. \A a \in accepts : a[2] <= Trade' /\ a[2] # Trade'
      BY <3>1, <3>2
    <3> QED BY <2>1, <3>3 DEF OneAccept
  <2> QED BY <2>3, <2>4, <2>5
<1>2. CASE SwapFails
  <2>1. /\ pc = "swap" /\ pc' = "dead"
        /\ UNCHANGED <<deal, trades, completed, active, chosen, accepting, joining, accepts,
                       invites, quote>>
    BY <1>2 DEF SwapFails, cycle, commitment, makers
  <2> QED BY <2>1 DEF Types, WithinOwn, WithinFlags, Committed, OneAccept, Trade, Head
<1> QED BY <1>1, <1>2

LEMMA OtherSteps ==
    ASSUME IInv,
           \/ Reposts \/ Reposted \/ DeadlinePasses \/ EnforceTimeout \/ OfferLapses
           \/ MakersNext \/ UNCHANGED vars
    PROVE  IInv'
<1>0. /\ quote \in [Makers -> Answer \cup {None}]
      /\ invites \subseteq accepts
  BY DEF IInv, Types
<1>1. CASE Reposts
  <2>1. quote' = quote \/ quote' = [m \in Makers |-> IF quote[m] = None THEN None
                                          ELSE [quote[m] EXCEPT !.rfq = "old"]]
    BY <1>1 DEF Reposts
  <2>2. quote' \in [Makers -> Answer \cup {None}]
    <3>1. \A a \in Answer : [a EXCEPT !.rfq = "old"] \in Answer
      BY DEF Answer
    <3> QED BY <1>0, <2>1, <3>1
  <2> QED BY <1>0, <1>1, <2>2, Frame DEF Reposts, cycle, commitment
<1>2. CASE Reposted \/ DeadlinePasses \/ EnforceTimeout \/ OfferLapses \/ UNCHANGED vars
  <2>1. UNCHANGED <<pc, deal, trades, completed, active, chosen, accepting, joining, accepts,
                    invites, quote>>
    BY <1>2 DEF Reposted, DeadlinePasses, EnforceTimeout, OfferLapses, vars, cycle, commitment,
                makers
  <2> QED BY <1>0, <2>1, Frame
<1>3. ASSUME NEW m \in Makers, NEW r \in {"cur", "old"}, NEW q \in Quotes,
             MakerQuotes(m, r, q)
      PROVE  IInv'
  <2>1. quote' = [quote EXCEPT ![m] = [rfq |-> r, terms |-> q, fresh |-> TRUE]]
    BY <1>3 DEF MakerQuotes
  <2>2. quote' \in [Makers -> Answer \cup {None}]
    <3>1. [rfq |-> r, terms |-> q, fresh |-> TRUE] \in Answer
      BY DEF Answer
    <3> QED BY <1>0, <2>1, <3>1
  <2> QED BY <1>0, <1>3, <2>2, Frame DEF MakerQuotes, cycle, commitment
<1>4. ASSUME NEW m \in Makers, QuoteExpires(m) PROVE IInv'
  <2>1. quote[m] # None /\ quote' = [quote EXCEPT ![m].fresh = FALSE]
    BY <1>4 DEF QuoteExpires
  <2>2. quote' \in [Makers -> Answer \cup {None}]
    <3>1. [quote[m] EXCEPT !.fresh = FALSE] \in Answer
      BY <1>0, <2>1 DEF Answer
    <3> QED BY <1>0, <2>1, <3>1
  <2> QED BY <1>0, <1>4, <2>2, Frame DEF QuoteExpires, cycle, commitment
<1>5. ASSUME NEW m \in Makers, MakerInvites(m) \/ MakerStops(m) PROVE IInv'
  <2>1. /\ invites' \subseteq accepts
        /\ UNCHANGED <<pc, deal, trades, completed, active, chosen, accepting, joining,
                       accepts, quote>>
    BY <1>0, <1>5 DEF MakerInvites, MakerStops, cycle, commitment
  <2> QED BY <1>0, <2>1, Frame
<1> QED BY <1>1, <1>2, <1>3, <1>4, <1>5 DEF MakersNext

LEMMA InvInit == Init => IInv
<1> SUFFICES ASSUME Init PROVE IInv
  OBVIOUS
<1> USE TakerAssumption DEF Init
<1>1. Types
  BY DEF Types, Head
<1>2. WithinOwn
  BY DEF WithinOwn, Deal
<1>3. WithinFlags
  BY DEF WithinFlags
<1>4. Committed /\ OneAccept
  BY DEF Committed, OneAccept
<1> QED BY <1>1, <1>2, <1>3, <1>4 DEF IInv

LEMMA InvStep == IInv /\ [Next]_vars => IInv'
<1> SUFFICES ASSUME IInv, [Next]_vars PROVE IInv'
  OBVIOUS
<1>1. CASE TakerNext
  BY <1>1, HeadSteps, QuoteStep, CommitmentSteps, SwapSteps, OtherSteps DEF TakerNext
<1> QED BY <1>1, OtherSteps DEF Next

\* The invariant holds in every state of the negotiation.
THEOREM Invariant == Spec => []IInv
<1> QED BY InvInit, InvStep, PTL DEF Spec

\* One maker gets an accept in a cycle, whatever is quoted, repeated or lost,
\* and the swap that is joined is the one with that maker.
THEOREM OneMakerPerCycle == Spec => []OneMaker
<1>1. IInv => OneMaker
  BY DEF IInv, OneAccept, Committed, OneMaker
<1> QED BY <1>1, Invariant, PTL

\* The terms committed to are within the flags, whichever offers this cycle
\* and the ones before it followed.
THEOREM FlagsHold == Spec => []WithinFlags
<1>1. IInv => WithinFlags
  BY DEF IInv
<1> QED BY <1>1, Invariant, PTL

\* Never more trades than --max-trades, none counted while no cycle has a
\* commitment, and the process exits only when all of them are done.
THEOREM CapacityHolds == Spec => []Capacity
<1>1. IInv => Capacity
  <2> SUFFICES ASSUME IInv PROVE Capacity
    OBVIOUS
  <2>1. completed + active <= MaxTrades
    BY TakerAssumption DEF IInv, Committed, Types
  <2> QED BY <2>1 DEF IInv, Committed, Capacity, Head
<1> QED BY <1>1, Invariant, PTL
=============================================================================
