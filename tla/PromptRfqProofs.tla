---------------------------- MODULE PromptRfqProofs ----------------------------
(***************************************************************************)
(* The negotiation of the prompt daemon, for any trades, quotes and lines  *)
(* and any number of faults.                                               *)
(*                                                                         *)
(* What was said takes its listing, and the lock of the listing says so,   *)
(* until the trade is canceled (Sold); so does a tool that is about to say *)
(* it (Taking).  A tool that fails gives back the lock it created, which   *)
(* is harmless as long as it works alone (Alone, First).                   *)
(***************************************************************************)
EXTENDS PromptRfq, WellFoundedInduction, TLAPS

\* What the maker's quotes and invites are for: a line, or none.
Some == Line \cup {None}

\* A tool that runs, whatever its number.
Shape(t) ==
    t \in [op : Op, trade : Trade, bid : Bid, pc : Point, live : BOOLEAN, created : BOOLEAN,
           id : {t.id}]

\* Which tools run for whom, and how far each gets.
Role(t) ==
    /\ t.op = "accept" => side = "taker" /\ t.trade = Own
    /\ t.op = "invite" => side = "maker" /\ t.bid \in Some
    /\ t.op = "quote" => side = "maker" /\ t.trade \in Theirs /\ t.bid \in Some
    /\ t.op = "cancel" => t.bid = None
    /\ t.op \in {"cancel", "rfq"} => ~t.live
    /\ t.op = "rfq" => t.pc = "send"
    /\ t.pc \in {"lock", "sent"} => t.op \in {"accept", "invite"}
    /\ t.pc = "join" => t.op = "invite"
    /\ t.created => Locking(t) /\ t.pc \in {"send", "sent", "join"}
    /\ t.pc \in {"sent", "join"} => MessageOf(t) \in said

Workers == \A t \in tools : Shape(t) /\ Role(t)

\* Which messages there are on either side.
Fits(m) ==
    /\ m.kind = "quote" /\ side = "maker" => m.trade \in Theirs /\ m.bid \in Some
    /\ m.kind = "accept" /\ m.trade = Own => side = "taker"
    /\ m.kind = "invite" /\ side = "maker" => m.bid \in Some

Words == log \subseteq said /\ said \subseteq Message /\ \A m \in said : Fits(m)

Taken(l) == lock[l].state # "free"
Named(l) == Taken(l) => IF l = Own THEN lock[l].trade = Own ELSE lock[l].bid = l

Locks ==
    /\ side \in {"taker", "maker"} /\ joined \subseteq Trade
    /\ file \in [Trade -> {"none", "rfq", "active", "claimed", "canceled"}]
    /\ lock \in [Listing -> ListingLock]
    /\ \A l \in Listing : Named(l)

\* The lock of l is held for the trade and the bid of x, a message or a tool.
Holds(l, x) == Taken(l) /\ lock[l].trade = x.trade /\ lock[l].bid = x.bid

\* What was said that takes l.
Claims(l) ==
    {m \in said : IF l = Own THEN m.kind = "accept" /\ m.trade = Own
                  ELSE side = "maker" /\ m.kind = "invite" /\ m.bid = l}

\* Nothing went wrong with l that the locks cannot mend.
Good(l) == Clean /\ (l = Own \/ "late" \notin seen)

Sold == \A l \in Listing : Good(l) => \A m \in Claims(l) : Over(m.trade) \/ Holds(l, m)

\* A tool that has, or needs no longer, its lock.
Active(t) == Locking(t) /\ t.pc \in {"send", "sent", "join"}

Taking ==
    \A t \in tools : Active(t) /\ Good(ListingOf(t)) => Over(t.trade) \/ Holds(ListingOf(t), t)

\* Unless the operator or a late tool interferes, one tool runs at a time.
Alone ==
    "overlap" \notin seen => \A t \in tools : t.op # "rfq" =>
        t.live /\ busy /\ \A u \in tools : u.op # "rfq" => u = t

\* A tool that still may delete the lock it created is the first to use it.
Creator(t) == t.created /\ t.pc = "send"
First ==
    "overlap" \notin seen => \A t \in tools : Creator(t) /\ Good(ListingOf(t)) =>
        \A m \in Claims(ListingOf(t)) : Over(m.trade)

\* And it does not see its trade canceled.
Apart ==
    "overlap" \notin seen =>
        /\ \A t \in Trade : Over(t) => t \in joined
        /\ \A t \in tools : Locking(t) /\ t.pc # "start" => t.trade \notin joined
        /\ \A l \in Listing : Taken(l) => ~Over(lock[l].trade)

\* A lock in flight is accounted for.
Backed(l) ==
    \/ \E t \in tools : Creator(t) /\ ListingOf(t) = l /\ Holds(l, t)
    \/ \E m \in Claims(l) : Holds(l, m)
Returns == "crash" \notin seen => \A l \in Listing : lock[l].state = "in_flight" => Backed(l)

IInv == Workers /\ Words /\ Locks /\ Sold /\ Taking /\ Alone /\ First /\ Apart /\ Returns

-----------------------------------------------------------------------------
LEMMA Distinct ==
    /\ Own \notin Line /\ None \notin Line /\ Own \notin Theirs
    /\ Quotes \cap Line = {} /\ Line \subseteq Listing /\ Own \in Listing
    /\ Own \in Trade /\ Theirs \subseteq Trade /\ None \in Bid /\ Line \subseteq Bid
    /\ Quotes \subseteq Bid /\ Some \subseteq Bid
    /\ \A l \in Listing : l = Own \/ l \in Line
<1>1. \A n \in Line : n \in Nat
  BY PromptRfqAssumption DEF Line
<1> QED BY <1>1, PromptRfqAssumption DEF Listing, Trade, Bid, Some

LEMMA Moved ==
    ASSUME NEW t, Shape(t), NEW pc \in Point
    PROVE  LET x == [t EXCEPT !.pc = pc]
           IN  /\ Shape(x) /\ x.pc = pc /\ x.op = t.op /\ x.trade = t.trade /\ x.bid = t.bid
               /\ x.live = t.live /\ x.created = t.created /\ x.id = t.id
BY DEF Shape

\* The listing an active tool takes.
LEMMA ActiveListing ==
    ASSUME Workers, NEW t \in tools, Locking(t)
    PROVE  /\ ListingOf(t) \in Listing
           /\ t.op = "accept" => ListingOf(t) = Own
           /\ t.op # "accept" => t.op = "invite" /\ ListingOf(t) \in Line /\ ListingOf(t) = t.bid
BY Distinct DEF Workers, Role, Locking, ListingOf, Some

\* Faults are remembered, and cancels heard.
LEMMA Remembered ==
    ASSUME seen \subseteq seen', said \subseteq said'
    PROVE  /\ \A l : Good(l)' => Good(l)
           /\ \A t : Over(t) => Over(t)'
BY DEF Good, Clean, Over

\* What a tool is to the invariant, before and after a step.
Mirror(t, u) ==
    /\ u.op = t.op /\ u.trade = t.trade /\ u.bid = t.bid /\ u.created = t.created
    /\ u.pc = t.pc \/ {u.pc, t.pc} \subseteq {"sent", "join"}

LEMMA MirrorActs ==
    ASSUME NEW t, NEW u, Mirror(t, u)
    PROVE  /\ Active(u) => Active(t)
           /\ Creator(u) <=> Creator(t)
           /\ ListingOf(u) = ListingOf(t)
           /\ \A l : Holds(l, u) <=> Holds(l, t)
BY DEF Mirror, Active, Creator, ListingOf, Holds, Locking

\* Each part of the invariant survives what does not concern it.
LEMMA WorkersKept ==
    ASSUME IInv, said \subseteq said', side' = side,
           \A u \in tools' : u \in tools \/ (Shape(u) /\ Role(u)')
    PROVE  Workers'
<1> SUFFICES ASSUME NEW u \in tools' PROVE Shape(u) /\ Role(u)'
  BY DEF Workers
<1>1. CASE u \in tools
  BY <1>1 DEF IInv, Workers, Role
<1>2. CASE u \notin tools
  BY <1>2
<1> QED BY <1>1, <1>2

LEMMA WordsKept ==
    ASSUME IInv, side' = side, said \subseteq said', log' \subseteq said',
           \A m \in said' : m \in said \/ (m \in Message /\ Fits(m))
    PROVE  Words'
BY DEF IInv, Words, Fits

LEMMA SoldKept ==
    ASSUME IInv, said \subseteq said', seen \subseteq seen',
           \A l \in Listing : Good(l)' => \A x : Holds(l, x) => Over(x.trade)' \/ Holds(l, x)',
           \A l \in Listing : Good(l)' =>
              \A m \in Claims(l)' : m \in Claims(l) \/ Over(m.trade)' \/ Holds(l, m)'
    PROVE  Sold'
<1> SUFFICES ASSUME NEW l \in Listing, Good(l)', NEW m \in Claims(l)'
             PROVE  Over(m.trade)' \/ Holds(l, m)'
  BY DEF Sold
<1>1. Good(l) /\ (Over(m.trade) => Over(m.trade)')
  BY Remembered
<1>2. CASE m \in Claims(l)
  <2>1. Over(m.trade) \/ Holds(l, m)
    BY <1>1, <1>2 DEF IInv, Sold
  <2> QED BY <1>1, <2>1
<1>3. CASE m \notin Claims(l)
  BY <1>3
<1> QED BY <1>2, <1>3

LEMMA TakingKept ==
    ASSUME IInv, said \subseteq said', seen \subseteq seen',
           \A l \in Listing : Good(l)' => \A x : Holds(l, x) => Over(x.trade)' \/ Holds(l, x)',
           \A u \in tools' : Active(u) /\ Good(ListingOf(u))' =>
              \/ \E t \in tools : Mirror(t, u)
              \/ Over(u.trade)' \/ Holds(ListingOf(u), u)'
    PROVE  Taking'
<1> SUFFICES ASSUME NEW u \in tools', Active(u), Good(ListingOf(u))'
             PROVE  Over(u.trade)' \/ Holds(ListingOf(u), u)'
  BY DEF Taking, Active, Locking, ListingOf
<1>1. CASE \E t \in tools : Mirror(t, u)
  <2>1. PICK t \in tools : Mirror(t, u)
    BY <1>1
  <2>2. Active(t) /\ ListingOf(u) = ListingOf(t) /\ t.trade = u.trade
    BY <2>1, MirrorActs DEF Mirror
  <2>3. ListingOf(t) \in Listing
    BY <2>2, ActiveListing DEF IInv, Active
  <2>4. Good(ListingOf(t))
    BY <2>2, Remembered
  <2>5. Over(t.trade) \/ Holds(ListingOf(t), t)
    BY <2>2, <2>4 DEF IInv, Taking
  <2>6. Over(u.trade) \/ Holds(ListingOf(u), u)
    BY <2>1, <2>2, <2>5, MirrorActs
  <2> QED BY <2>2, <2>3, <2>6, Remembered
<1>2. CASE ~\E t \in tools : Mirror(t, u)
  BY <1>2
<1> QED BY <1>1, <1>2

LEMMA FirstKept ==
    ASSUME IInv, said \subseteq said', seen \subseteq seen',
           \A l \in Listing : Claims(l)' = Claims(l),
           \A u \in tools' : Creator(u) => \E t \in tools : Mirror(t, u)
    PROVE  First'
<1> SUFFICES ASSUME "overlap" \notin seen', NEW u \in tools', Creator(u), Good(ListingOf(u))',
                    NEW m \in Claims(ListingOf(u))'
             PROVE  Over(m.trade)'
  BY DEF First, Creator, ListingOf
<1>1. PICK t \in tools : Mirror(t, u)
  OBVIOUS
<1>2. Creator(t) /\ ListingOf(u) = ListingOf(t)
  BY <1>1, MirrorActs
<1>3. ListingOf(t) \in Listing
  BY <1>2, ActiveListing DEF IInv, Workers, Role, Creator
<1>4. Good(ListingOf(t)) /\ m \in Claims(ListingOf(t)) /\ "overlap" \notin seen
  BY <1>2, <1>3, Remembered
<1>5. Over(m.trade)
  BY <1>2, <1>4 DEF IInv, First
<1> QED BY <1>5, Remembered

LEMMA ReturnsKept ==
    ASSUME IInv, seen \subseteq seen',
           \A l \in Listing : Claims(l) \subseteq Claims(l)',
           "crash" \notin seen' => \A l \in Listing : lock'[l].state = "in_flight" =>
              \/ Backed(l)'
              \/ /\ lock'[l] = lock[l]
                 /\ \A t \in tools : Creator(t) /\ ListingOf(t) = l => \E u \in tools' : Mirror(t, u)
    PROVE  Returns'
<1> SUFFICES ASSUME "crash" \notin seen', NEW l \in Listing, lock'[l].state = "in_flight",
                    lock'[l] = lock[l],
                    \A t \in tools : Creator(t) /\ ListingOf(t) = l => \E u \in tools' : Mirror(t, u)
             PROVE  Backed(l)'
  BY DEF Returns
<1>1. Backed(l)
  BY DEF IInv, Returns
<1>2. \A x : Holds(l, x) => Holds(l, x)'
  BY DEF Holds, Taken
<1>3. CASE \E m \in Claims(l) : Holds(l, m)
  BY <1>2, <1>3 DEF Backed
<1>4. ASSUME NEW t \in tools, Creator(t), ListingOf(t) = l, Holds(l, t)
      PROVE  Backed(l)'
  <2>1. PICK u \in tools' : Mirror(t, u)
    BY <1>4
  <2>2. Creator(u) /\ ListingOf(u) = l /\ Holds(l, u)
    BY <1>4, <2>1, MirrorActs
  <2>3. Holds(l, u)'
    BY <1>2, <2>2
  <2> QED BY <2>2, <2>3 DEF Backed
<1> QED BY <1>1, <1>3, <1>4 DEF Backed

\* What can be said without taking a listing or ending a trade.
Harmless(m) ==
    /\ m \in Message
    /\ \/ m.kind \in {"offer", "rfq", "claimed"}
       \/ m.kind = "quote" /\ (side = "maker" => m.trade \in Theirs /\ m.bid \in Some)
       \/ m.kind = "accept" /\ m.trade # Own
       \/ m.kind = "invite" /\ side = "taker"

LEMMA ClaimsKept ==
    ASSUME IInv, side' = side, said \subseteq said',
           \A m \in said' : m \in said \/ Harmless(m)
    PROVE  /\ \A l \in Listing : Claims(l)' = Claims(l)
           /\ \A t : Over(t)' <=> Over(t)
<1>1. \A l \in Listing : Claims(l)' = Claims(l)
  BY Distinct DEF Claims, Harmless
<1>2. \A t : Say("cancel", t, None) \in said' => Say("cancel", t, None) \in said
  BY DEF Harmless, Say
<1> QED BY <1>1, <1>2 DEF Over

\* A step that takes no lock and gives none back.
LEMMA QuietStep ==
    ASSUME IInv, side' = side, lock' = lock, joined' = joined, seen \subseteq seen',
           file' \in [Trade -> {"none", "rfq", "active", "claimed", "canceled"}],
           said \subseteq said', log' \subseteq said',
           \A m \in said' : m \in said \/ Harmless(m),
           \A u \in tools' : u \in tools \/ (Shape(u) /\ Role(u)'),
           \A u \in tools' : Active(u) => \/ \E t \in tools : Mirror(t, u)
                                          \/ ~u.created /\ Holds(ListingOf(u), u),
           "crash" \notin seen' => \A t \in tools : Creator(t) => \E u \in tools' : Mirror(t, u),
           "overlap" \notin seen' =>
              \A u \in tools' : Locking(u) /\ u.pc # "start" => u.trade \notin joined,
           Alone'
    PROVE  IInv'
<1>1. Workers'
  BY WorkersKept
<1>2. \A m \in said' : m \in said \/ (m \in Message /\ Fits(m))
  BY DEF Harmless, Fits
<1>3. Words'
  BY <1>2, WordsKept
<1>4. Locks'
  BY DEF IInv, Locks, Named, Taken
<1>5. /\ \A l \in Listing : Claims(l)' = Claims(l)
      /\ \A t : Over(t)' <=> Over(t)
  BY ClaimsKept
<1>6. \A l, x : Holds(l, x) <=> Holds(l, x)'
  BY DEF Holds, Taken
<1>7. Sold'
  BY <1>5, <1>6, SoldKept
<1>8. Taking'
  <2>1. \A u \in tools' : Active(u) => \/ \E t \in tools : Mirror(t, u)
                                       \/ Holds(ListingOf(u), u)'
    BY <1>6
  <2> QED BY <1>6, <2>1, TakingKept
<1>9. First'
  <2>1. \A u \in tools' : Creator(u) => \E t \in tools : Mirror(t, u)
    <3> SUFFICES ASSUME NEW u \in tools', Creator(u) PROVE \E t \in tools : Mirror(t, u)
      OBVIOUS
    <3>1. Role(u)'
      BY <1>1 DEF Workers
    <3>2. Active(u) /\ u.created
      BY <3>1 DEF Role, Creator, Active, Locking
    <3> QED BY <3>2
  <2> QED BY <1>5, <2>1, FirstKept
<1>10. Returns'
  BY <1>5, ReturnsKept
<1>11. Apart'
  <2> SUFFICES ASSUME "overlap" \notin seen' PROVE Apart'
    BY DEF Apart
  <2>1. /\ \A t \in Trade : Over(t) => t \in joined
        /\ \A l \in Listing : Taken(l) => ~Over(lock[l].trade)
    BY DEF IInv, Apart
  <2> QED BY <1>5, <2>1 DEF Apart, Taken
<1> QED BY <1>1, <1>3, <1>4, <1>7, <1>8, <1>9, <1>10, <1>11 DEF IInv

\* A tool goes on alone, or ends.
LEMMA AloneKept ==
    ASSUME IInv, seen \subseteq seen', NEW t \in tools,
           \/ busy' = (busy /\ ~t.live) /\ tools' = Rest(t)
           \/ /\ busy' = busy
              /\ \E x : tools' = Rest(t) \cup {x} /\ x.op = t.op /\ x.live = t.live /\ t.op # "rfq"
    PROVE  Alone'
<1> SUFFICES ASSUME "overlap" \notin seen' PROVE Alone'
  BY DEF Alone
<1>1. \A u \in tools : u.op # "rfq" => u.live /\ busy /\ \A v \in tools : v.op # "rfq" => v = u
  BY DEF IInv, Alone
<1>2. t.op = "rfq" => ~t.live
  BY DEF IInv, Workers, Role
<1>3. CASE busy' = (busy /\ ~t.live) /\ tools' = Rest(t)
  <2>1. \A u \in tools' : u \in tools /\ u # t
    BY <1>3 DEF Rest
  <2>2. ASSUME NEW u \in tools', u.op # "rfq" PROVE t.op = "rfq"
    BY <1>1, <2>1, <2>2
  <2>3. ASSUME NEW u \in tools', u.op # "rfq"
        PROVE  u.live /\ busy' /\ \A v \in tools' : v.op # "rfq" => v = u
    <3>1. ~t.live
      BY <1>2, <2>2, <2>3
    <3> QED BY <1>1, <1>3, <2>1, <2>3, <3>1
  <2> QED BY <2>3 DEF Alone
<1>4. ASSUME busy' = busy, NEW x, tools' = Rest(t) \cup {x}, x.op = t.op, x.live = t.live,
             t.op # "rfq"
      PROVE  Alone'
  <2>1. \A u \in tools' : u.op # "rfq" => u = x
    BY <1>1, <1>4 DEF Rest
  <2>2. x.live /\ busy'
    BY <1>1, <1>4
  <2> QED BY <2>1, <2>2 DEF Alone
<1> QED BY <1>3, <1>4

-----------------------------------------------------------------------------
(* Steps that leave the locks alone.                                         *)

Others == <<side, said, lock, file, joined, seen>>

\* A tool moves to a point where it is what it was, or not active.
LEMMA MovesStep ==
    ASSUME IInv, UNCHANGED <<Others, busy>>, log' \subseteq said, NEW t \in tools, NEW x, tools' = Rest(t) \cup {x},
           Shape(x), Role(x), x.op = t.op, x.live = t.live, t.op # "rfq",
           Active(x) => Mirror(t, x) \/ (~x.created /\ Holds(ListingOf(x), x)),
           Creator(t) => Mirror(t, x),
           "overlap" \notin seen => (Locking(x) /\ x.pc # "start" => x.trade \notin joined)
    PROVE  IInv'
<1>1. /\ side' = side /\ lock' = lock /\ joined' = joined /\ seen' = seen /\ said' = said
      /\ file' = file
  BY DEF Others
<1>2. \A u \in tools' : u = x \/ (u \in tools /\ u # t)
  BY DEF Rest
<1>3. \A u \in tools : u = t \/ u \in tools'
  BY DEF Rest
<1>4. \A u : Mirror(u, u)
  BY DEF Mirror
<1>5. Alone'
  BY <1>1, AloneKept
<1>6. /\ file \in [Trade -> {"none", "rfq", "active", "claimed", "canceled"}]
      /\ "overlap" \notin seen =>
            \A u \in tools : Locking(u) /\ u.pc # "start" => u.trade \notin joined
  BY DEF IInv, Words, Locks, Apart
<1>7. Role(x)'
  BY <1>1 DEF Role
<1>8. \A u \in tools' : Active(u) => \/ \E v \in tools : Mirror(v, u)
                                     \/ ~u.created /\ Holds(ListingOf(u), u)
  BY <1>2, <1>4
<1>9. \A v \in tools : Creator(v) => \E u \in tools' : Mirror(v, u)
  <2>1. x \in tools'
    OBVIOUS
  <2> QED BY <1>3, <1>4, <2>1
<1>10. "overlap" \notin seen' =>
          \A u \in tools' : Locking(u) /\ u.pc # "start" => u.trade \notin joined
  BY <1>1, <1>2, <1>6
<1>11. \A u \in tools' : u \in tools \/ (Shape(u) /\ Role(u)')
  BY <1>2, <1>7
<1> HIDE DEF IInv
<1> QED BY <1>1, <1>5, <1>6, <1>8, <1>9, <1>10, <1>11, QuietStep

\* A tool that keeps no lock to itself ends.
LEMMA EndsStep ==
    ASSUME IInv, UNCHANGED <<side, lock, joined>>, seen \subseteq seen',
           file' \in [Trade -> {"none", "rfq", "active", "claimed", "canceled"}],
           said \subseteq said', log' \subseteq said',
           \A m \in said' : m \in said \/ Harmless(m),
           NEW t \in tools, tools' = Rest(t), busy' = (busy /\ ~t.live), ~Creator(t)
    PROVE  IInv'
<1>1. \A u \in tools' : u \in tools /\ u # t
  BY DEF Rest
<1>2. \A u \in tools : u = t \/ u \in tools'
  BY DEF Rest
<1>3. \A u : Mirror(u, u)
  BY DEF Mirror
<1>4. Alone'
  BY AloneKept
<1>5. "overlap" \notin seen' =>
          \A u \in tools' : Locking(u) /\ u.pc # "start" => u.trade \notin joined
  BY <1>1 DEF IInv, Apart
<1>6. \A u \in tools' : Active(u) => \E v \in tools : Mirror(v, u)
  BY <1>1, <1>3
<1>7. \A v \in tools : Creator(v) => \E u \in tools' : Mirror(v, u)
  BY <1>2, <1>3
<1> HIDE DEF IInv
<1> QED BY <1>1, <1>4, <1>5, <1>6, <1>7, QuietStep

LEMMA EndOf ==
    ASSUME NEW t, Drops(t) \/ TriesAgain(t) \/ Succeeds(t)
    PROVE  tools' = Rest(t) /\ busy' = (busy /\ ~t.live)
BY DEF Drops, TriesAgain, Succeeds

\* A tool ends and nothing else happens.
LEMMA StopsStep ==
    ASSUME IInv, UNCHANGED <<Others, log>>, NEW t \in tools, ~Creator(t),
           Drops(t) \/ TriesAgain(t) \/ Succeeds(t)
    PROVE  IInv'
<1>1. /\ tools' = Rest(t) /\ busy' = (busy /\ ~t.live)
  BY EndOf
<1>2. /\ UNCHANGED <<side, lock, joined, seen, said, file>> /\ log' \subseteq said
      /\ file \in [Trade -> {"none", "rfq", "active", "claimed", "canceled"}]
  BY DEF Others, IInv, Words, Locks
<1> HIDE DEF IInv
<1> QED BY <1>1, <1>2, EndsStep

LEMMA RefusedStep ==
    ASSUME IInv, NEW t \in tools, Refused(t)
    PROVE  IInv'
<1>1. UNCHANGED <<Others, log>> /\ (Drops(t) \/ TriesAgain(t)) /\ ~Creator(t)
  BY DEF Refused, Others, Creator
<1> QED BY <1>1, StopsStep

\* The first free line is a line.
LEMMA LineOfSome ==
    ASSUME NEW t, t.bid \in Some
    PROVE  LineOf(t) \in Some
<1>1. ASSUME FreeLine # {}
      PROVE  (CHOOSE l \in FreeLine : \A k \in FreeLine : l <= k) \in Line
  <2>1. FreeLine \subseteq Line /\ FreeLine \subseteq Nat
    BY PromptRfqAssumption DEF FreeLine, Line
  <2>2. \E l \in FreeLine : \A k \in FreeLine : <<k, l>> \notin OpToRel(<, Nat)
    BY <1>1, <2>1, NatLessThanWellFounded, WFMin, Zenon
  <2>3. PICK l \in FreeLine : \A k \in FreeLine : <<k, l>> \notin OpToRel(<, Nat)
    BY <2>2, Zenon
  <2>4. \A k \in FreeLine : ~(k < l)
    BY <2>1, <2>3, Zenon DEF OpToRel
  <2>5. \A k \in FreeLine : l <= k
    BY <2>1, <2>4
  <2> QED BY <2>1, <2>5
<1> QED BY <1>1 DEF LineOf, Some

LEMMA QuoteChecksStep ==
    ASSUME IInv, NEW t \in tools, QuoteChecks(t)
    PROVE  IInv'
<1>1. t.op = "quote" /\ t.pc = "start" /\ UNCHANGED <<Others, log>>
  BY DEF QuoteChecks, Others
<1>2. CASE Drops(t)
  BY <1>1, <1>2, StopsStep DEF Creator
<1>3. CASE tools' = Rest(t) \cup {[t EXCEPT !.bid = LineOf(t), !.pc = "send"]} /\ busy' = busy
  <2> DEFINE x == [t EXCEPT !.bid = LineOf(t), !.pc = "send"]
  <2>1. Shape(t) /\ Role(t)
    BY DEF IInv, Workers
  <2>2. LineOf(t) \in Some /\ LineOf(t) \in Bid
    BY <1>1, <2>1, LineOfSome, Distinct DEF Role
  <2>3. /\ Shape(x) /\ x.op = "quote" /\ x.trade = t.trade /\ x.bid = LineOf(t) /\ x.pc = "send"
        /\ x.live = t.live /\ x.created = t.created
    BY <1>1, <2>1, <2>2 DEF Shape, Point
  <2> HIDE DEF x
  <2>4. Role(x)
    BY <1>1, <2>1, <2>2, <2>3 DEF Role
  <2>5. ~Active(x) /\ ~Creator(t) /\ ~Locking(x)
    BY <1>1, <2>3 DEF Active, Creator, Locking
  <2>6. log' \subseteq said /\ UNCHANGED <<Others, busy>> /\ tools' = Rest(t) \cup {x}
    BY <1>1, <1>3 DEF IInv, Words, x
  <2> HIDE DEF IInv
  <2> QED BY <1>1, <2>3, <2>4, <2>5, <2>6, MovesStep
<1> QED BY <1>2, <1>3 DEF QuoteChecks, automation

\* A tool moves and nothing else happens.
LEMMA GoesStep ==
    ASSUME IInv, UNCHANGED <<Others, busy>>, log' \subseteq said,
           NEW t \in tools, NEW pc \in Point, Moves(t, pc),
           t.op # "rfq", ~Creator(t),
           t.pc = "start" => (pc \in {"lock", "send"} /\ ~t.created),
           pc \in {"lock", "sent"} => t.op \in {"accept", "invite"},
           pc = "join" => t.op = "invite",
           pc \in {"lock", "start"} => ~t.created,
           pc \in {"sent", "join"} => MessageOf(t) \in said,
           (Locking(t) /\ pc \in {"send", "sent", "join"}) =>
               \/ {pc, t.pc} \subseteq {"sent", "join"}
               \/ ~t.created /\ Holds(ListingOf(t), t),
           "overlap" \notin seen => (Locking(t) /\ pc # "start" => t.trade \notin joined)
    PROVE  IInv'
<1> DEFINE x == [t EXCEPT !.pc = pc]
<1>1. Shape(t) /\ Role(t)
  BY DEF IInv, Workers
<1>2. /\ Shape(x) /\ x.pc = pc /\ x.op = t.op /\ x.trade = t.trade /\ x.bid = t.bid
      /\ x.live = t.live /\ x.created = t.created
  BY <1>1, Moved
<1>3. tools' = Rest(t) \cup {x}
  BY DEF Moves
<1> HIDE DEF x
<1>4. Locking(x) = Locking(t) /\ ListingOf(x) = ListingOf(t) /\ MessageOf(x) = MessageOf(t)
  BY <1>2 DEF Locking, ListingOf, MessageOf
<1>5. Role(x)
  BY <1>1, <1>2, <1>4 DEF Role, Point
<1>6. Active(x) => Mirror(t, x) \/ (~x.created /\ Holds(ListingOf(x), x))
  BY <1>2, <1>4 DEF Active, Mirror, Holds
<1>7. "overlap" \notin seen => (Locking(x) /\ x.pc # "start" => x.trade \notin joined)
  BY <1>2, <1>4
<1> HIDE DEF IInv
<1> QED BY <1>2, <1>3, <1>5, <1>6, <1>7, MovesStep

LEMMA ChecksStep ==
    ASSUME IInv, NEW t \in tools, AcceptChecks(t) \/ InviteChecks(t) \/ CancelChecks(t)
    PROVE  IInv'
<1>1. /\ t.op \in {"accept", "invite", "cancel"} /\ t.pc = "start" /\ UNCHANGED <<Others, log>>
      /\ \/ Drops(t) \/ Succeeds(t)
         \/ /\ busy' = busy
            /\ \/ Moves(t, "lock") /\ t.op # "cancel" /\ ~SwapChannel(t.trade)
               \/ Moves(t, "send") /\ t.op = "cancel"
  BY DEF AcceptChecks, InviteChecks, CancelChecks, Others, automation, InFlight
<1>2. /\ log' \subseteq said /\ ~Creator(t) /\ ~t.created
  BY <1>1 DEF IInv, Words, Workers, Role, Creator
<1>3. CASE Drops(t) \/ Succeeds(t)
  BY <1>1, <1>2, <1>3, StopsStep
<1>4. CASE busy' = busy /\ Moves(t, "lock") /\ t.op # "cancel" /\ ~SwapChannel(t.trade)
  <2>1. "lock" \in Point /\ t.trade \notin joined
    BY <1>4 DEF Point, SwapChannel
  <2> HIDE DEF IInv
  <2> QED BY <1>1, <1>2, <1>4, <2>1, GoesStep
<1>5. CASE busy' = busy /\ Moves(t, "send") /\ t.op = "cancel"
  <2>1. "send" \in Point /\ ~Locking(t)
    BY <1>5 DEF Point, Locking
  <2> HIDE DEF IInv
  <2> QED BY <1>1, <1>2, <1>5, <2>1, GoesStep
<1> QED BY <1>1, <1>3, <1>4, <1>5

LEMMA InvitePostedStep ==
    ASSUME IInv, NEW t \in tools, InvitePosted(t)
    PROVE  IInv'
<1>1. /\ t.pc = "sent" /\ t.op = "invite" /\ log' = log \cup {MessageOf(t)} /\ Moves(t, "join")
      /\ UNCHANGED <<Others, busy>>
  BY DEF InvitePosted, Others, automation
<1>2. MessageOf(t) \in said /\ log \subseteq said /\ ~Creator(t) /\ "join" \in Point
  BY <1>1 DEF IInv, Words, Workers, Role, Creator, Point
<1>3. "overlap" \notin seen => (Locking(t) => t.trade \notin joined)
  BY <1>1 DEF IInv, Apart
<1> HIDE DEF IInv
<1> QED BY <1>1, <1>2, <1>3, GoesStep

LEMMA PostsStep ==
    ASSUME IInv, NEW t \in tools, Posts(t), t.op # "cancel"
    PROVE  IInv'
<1>1. /\ t.pc = "send" /\ t.op \in {"rfq", "quote"} /\ Succeeds(t)
      /\ said' = said \cup {MessageOf(t)} /\ log' = log \cup {MessageOf(t)}
      /\ file' = IF t.op = "rfq" THEN [file EXCEPT ![t.trade] = "rfq"] ELSE file
      /\ UNCHANGED <<side, lock, joined, seen>>
  BY DEF Posts
<1>2. Shape(t) /\ Role(t) /\ log \subseteq said
  BY DEF IInv, Workers, Words
<1>3. Harmless(MessageOf(t))
  BY <1>1, <1>2 DEF Harmless, MessageOf, Say, Message, Kind, Shape, Role
<1>4. file' \in [Trade -> {"none", "rfq", "active", "claimed", "canceled"}]
  BY <1>1, <1>2 DEF IInv, Locks, Shape
<1>5. ~Creator(t) /\ tools' = Rest(t) /\ busy' = (busy /\ ~t.live)
  BY <1>1, <1>2, EndOf DEF Creator, Role, Locking
<1>6. said \subseteq said' /\ log' \subseteq said' /\ \A m \in said' : m \in said \/ Harmless(m)
  BY <1>1, <1>2, <1>3
<1> HIDE DEF IInv
<1> QED BY <1>1, <1>4, <1>5, <1>6, EndsStep

\* A call inside a tool fails, and there is no lock to give back.
LEMMA FailsStep ==
    ASSUME IInv, NEW t \in tools, Fails(t), ~Undoes(t)
    PROVE  IInv'
<1>1. UNCHANGED <<side, lock, joined, said, log, file>> /\ seen \subseteq seen' /\ TriesAgain(t)
  BY DEF Fails, Fault
<1>2. ~Creator(t)
  BY DEF IInv, Workers, Role, Undoes, Creator
<1>3. tools' = Rest(t) /\ busy' = (busy /\ ~t.live)
  BY <1>1, EndOf
<1>4. /\ file' \in [Trade -> {"none", "rfq", "active", "claimed", "canceled"}]
      /\ log' \subseteq said' /\ said' = said
  BY <1>1 DEF IInv, Words, Locks
<1> HIDE DEF IInv
<1> QED BY <1>1, <1>2, <1>3, <1>4, EndsStep

\* The tools run on, but nobody waits for some of them.
LEMMA Orphaned ==
    ASSUME IInv, UNCHANGED <<side, log, said, lock, file, joined>>, seen \subseteq seen',
           "overlap" \in seen',
           \A u \in tools' : \E t \in tools : u = t \/ u = [t EXCEPT !.live = FALSE],
           \A t \in tools : t \in tools' \/ [t EXCEPT !.live = FALSE] \in tools'
    PROVE  IInv'
<1>1. ASSUME NEW t \in tools
      PROVE  /\ Shape([t EXCEPT !.live = FALSE]) /\ Role([t EXCEPT !.live = FALSE])'
             /\ Mirror(t, [t EXCEPT !.live = FALSE])
  <2> DEFINE x == [t EXCEPT !.live = FALSE]
  <2>1. Shape(t) /\ Role(t)
    BY DEF IInv, Workers
  <2>2. /\ Shape(x) /\ x.op = t.op /\ x.trade = t.trade /\ x.bid = t.bid /\ x.pc = t.pc
        /\ x.live = FALSE /\ x.created = t.created
    BY <2>1 DEF Shape
  <2> HIDE DEF x
  <2>3. Locking(x) = Locking(t) /\ MessageOf(x) = MessageOf(t)
    BY <2>2 DEF Locking, MessageOf
  <2>4. Role(x)'
    BY <2>1, <2>2, <2>3 DEF Role
  <2>5. Mirror(t, x)
    BY <2>2 DEF Mirror
  <2> QED BY <2>2, <2>4, <2>5 DEF x
<1>2. \A t : Mirror(t, t)
  BY DEF Mirror
<1>3. \A u \in tools' : u \in tools \/ (Shape(u) /\ Role(u)')
  BY <1>1
<1>4. \A u \in tools' : \E t \in tools : Mirror(t, u)
  BY <1>1, <1>2
<1>5. \A t \in tools : \E u \in tools' : Mirror(t, u)
  BY <1>1, <1>2
<1>6. /\ file' \in [Trade -> {"none", "rfq", "active", "claimed", "canceled"}]
      /\ log' \subseteq said' /\ said' = said
  BY DEF IInv, Words, Locks
<1>7. Alone'
  BY DEF Alone
<1> HIDE DEF IInv
<1> QED BY <1>3, <1>4, <1>5, <1>6, <1>7, QuietStep

LEMMA TimesOutStep ==
    ASSUME IInv, NEW t \in tools, TimesOut(t)
    PROVE  IInv'
<1>1. /\ UNCHANGED <<side, log, said, lock, file, joined>>
      /\ seen' = seen \cup {"overlap"}
      /\ tools' = Rest(t) \cup {[t EXCEPT !.live = FALSE]}
  BY DEF TimesOut, Fault
<1>2. \A u \in tools' : \E v \in tools : u = v \/ u = [v EXCEPT !.live = FALSE]
  BY <1>1 DEF Rest
<1>3. \A v \in tools : v \in tools' \/ [v EXCEPT !.live = FALSE] \in tools'
  BY <1>1 DEF Rest
<1> HIDE DEF IInv
<1> QED BY <1>1, <1>2, <1>3, Orphaned

LEMMA RestartStep ==
    ASSUME IInv, Restart
    PROVE  IInv'
<1>1. /\ UNCHANGED <<side, log, said, lock, file, joined>>
      /\ seen' = seen \cup {"overlap"}
      /\ tools' = {[t EXCEPT !.live = FALSE] : t \in tools}
  BY DEF Restart, Fault
<1> HIDE DEF IInv
<1> QED BY <1>1, Orphaned

LEMMA CrashStep ==
    ASSUME IInv, Crash
    PROVE  IInv'
<1>1. /\ UNCHANGED <<side, said, lock, file, joined>> /\ log' = {} /\ tools' = {}
      /\ seen' = seen \cup {"crash"}
  BY DEF Crash, Fault
<1>2. file' \in [Trade -> {"none", "rfq", "active", "claimed", "canceled"}] /\ Alone'
  BY <1>1 DEF IInv, Locks, Alone
<1> HIDE DEF IInv
<1> QED BY <1>1, <1>2, QuietStep

\* Something is heard or posted, or goes on file; the tools stay.
LEMMA TellsStep ==
    ASSUME IInv, UNCHANGED <<side, lock, joined, busy, tools, seen>>,
           file' \in [Trade -> {"none", "rfq", "active", "claimed", "canceled"}],
           \/ UNCHANGED <<said, log>>
           \/ \E m : Harmless(m) /\ said' = said \cup {m} /\ log' = log \cup {m}
    PROVE  IInv'
<1>1. /\ said \subseteq said' /\ log' \subseteq said'
      /\ \A m \in said' : m \in said \/ Harmless(m)
  BY DEF IInv, Words
<1>2. \A t : Mirror(t, t)
  BY DEF Mirror
<1>3. Alone'
  BY DEF IInv, Alone
<1>4. "overlap" \notin seen' =>
         \A u \in tools' : Locking(u) /\ u.pc # "start" => u.trade \notin joined
  BY DEF IInv, Apart
<1> HIDE DEF IInv
<1> QED BY <1>1, <1>2, <1>3, <1>4, QuietStep

LEMMA HearsStep ==
    ASSUME IInv, NEW m \in Message, Hears(m)
    PROVE  IInv'
<1>1. /\ MaySay(m) /\ said' = said \cup {m} /\ log' = log \cup {m}
      /\ UNCHANGED <<side, lock, file, joined, busy, tools, seen>>
  BY DEF Hears, automation
<1>2. Harmless(m)
  <2>1. CASE m.kind = "accept"
    <3>1. Say("quote", m.trade, m.bid) \in said /\ side = "maker"
      BY <1>1, <2>1 DEF MaySay
    <3>2. Fits(Say("quote", m.trade, m.bid))
      BY <3>1 DEF IInv, Words
    <3>3. m.trade \in Theirs
      BY <3>1, <3>2 DEF Fits, Say
    <3> QED BY <2>1, <3>3, Distinct DEF Harmless
  <2>2. CASE m.kind # "accept"
    BY <1>1, <2>2 DEF MaySay, Harmless
  <2> QED BY <2>1, <2>2
<1>3. file' \in [Trade -> {"none", "rfq", "active", "claimed", "canceled"}]
  BY <1>1 DEF IInv, Locks
<1> HIDE DEF IInv
<1> QED BY <1>1, <1>2, <1>3, TellsStep

LEMMA TellingStep ==
    ASSUME IInv, PostsOffer \/ \E t \in Trade : HearsRepost(t) \/ Settling(t)
    PROVE  IInv'
<1>1. /\ UNCHANGED <<side, lock, joined, busy, tools, seen>>
      /\ \/ UNCHANGED <<said, log, file>>
         \/ UNCHANGED <<said, log>> /\ \E t \in Trade : file' = [file EXCEPT ![t] = "active"]
         \/ /\ UNCHANGED file
            /\ said' = said \cup {Say("offer", Own, None)}
            /\ log' = log \cup {Say("offer", Own, None)}
  BY DEF PostsOffer, HearsRepost, Settling, automation
<1>2. Harmless(Say("offer", Own, None))
  BY Distinct DEF Harmless, Say, Message, Kind
<1>3. file' \in [Trade -> {"none", "rfq", "active", "claimed", "canceled"}]
  BY <1>1 DEF IInv, Locks
<1> HIDE DEF IInv
<1> QED BY <1>1, <1>2, <1>3, TellsStep

\* A tool starts.
LEMMA StartsStep ==
    ASSUME IInv, UNCHANGED <<side, log, said, lock, file, joined>>, seen \subseteq seen',
           NEW x, tools' = tools \cup {x}, Shape(x), Role(x), ~Active(x), ~x.created,
           Locking(x) => x.pc = "start", Alone'
    PROVE  IInv'
<1>1. \A t : Mirror(t, t)
  BY DEF Mirror
<1>2. \A u \in tools' : u = x \/ u \in tools
  OBVIOUS
<1>3. Role(x)'
  BY DEF Role
<1>4. "overlap" \notin seen' =>
         \A u \in tools' : Locking(u) /\ u.pc # "start" => u.trade \notin joined
  BY DEF IInv, Apart
<1>5. /\ file' \in [Trade -> {"none", "rfq", "active", "claimed", "canceled"}]
      /\ log' \subseteq said' /\ said' = said
  BY DEF IInv, Words, Locks
<1> HIDE DEF IInv
<1> QED BY <1>1, <1>2, <1>3, <1>4, <1>5, QuietStep

LEMMA PostsRfqStep ==
    ASSUME IInv, PostsRfq
    PROVE  IInv'
<1> DEFINE x == [Call("rfq", Own, None, FALSE) EXCEPT !.pc = "send"]
<1>1. /\ tools' = tools \cup {x} /\ UNCHANGED <<side, log, said, lock, file, joined, busy, seen>>
  BY DEF PostsRfq, automation
<1>2. /\ Shape(x) /\ x.op = "rfq" /\ x.pc = "send" /\ ~x.live /\ ~x.created
  BY Distinct DEF Call, Shape, Op, Point
<1> HIDE DEF x
<1>3. Role(x) /\ ~Active(x) /\ ~Locking(x)
  BY <1>2 DEF Role, Active, Locking
<1>4. Alone'
  BY <1>1, <1>2 DEF IInv, Alone
<1> HIDE DEF IInv
<1> QED BY <1>1, <1>2, <1>3, <1>4, StartsStep

\* What a tool is called for.
LEMMA Called ==
    ASSUME IInv, NEW op \in Op, NEW t \in Trade, NEW b \in Bid, NEW live \in BOOLEAN,
           Due(op, t, b) \/ (op = "cancel" /\ b = None /\ ~live)
             \/ (op = "quote" /\ side = "maker" /\ t \in Theirs /\ b = None)
             \/ (op = "accept" /\ side = "taker" /\ t = Own)
             \/ (op = "invite" /\ side = "maker" /\ Say("quote", t, b) \in said)
    PROVE  LET x == Call(op, t, b, live)
           IN  /\ Shape(x) /\ Role(x) /\ ~Active(x) /\ ~x.created /\ x.pc = "start"
               /\ x.op = op /\ x.live = live /\ op # "rfq"
<1> DEFINE x == Call(op, t, b, live)
<1>1. /\ Shape(x) /\ x.op = op /\ x.trade = t /\ x.bid = b /\ x.pc = "start"
      /\ x.live = live /\ ~x.created
  BY DEF Call, Shape, Point
<1> HIDE DEF x
<1>2. ASSUME side = "maker", Say("quote", t, b) \in said PROVE b \in Some
  <2>1. Fits(Say("quote", t, b))
    BY <1>2 DEF IInv, Words
  <2> QED BY <1>2, <2>1 DEF Fits, Say
<1>3. 1 \in Bid => 1 \in Some
  BY PromptRfqAssumption DEF Bid, Some
<1>4. /\ op # "rfq"
      /\ op = "accept" => side = "taker" /\ t = Own
      /\ op = "invite" => side = "maker" /\ b \in Some
      /\ op = "quote" => side = "maker" /\ t \in Theirs /\ b \in Some
      /\ op = "cancel" => b = None /\ ~live
  <2>1. CASE Due(op, t, b)
    <3>1. op \in {"quote", "accept", "invite", "join"}
      BY <2>1 DEF Due
    <3>2. op = "invite" => side = "maker" /\ Say("quote", t, b) \in said
      BY <2>1 DEF Due, IInv, Words
    <3>3. op = "quote" => side = "maker" /\ t \in Theirs /\ (b = 1 \/ b = None)
      BY <2>1 DEF Due
    <3>4. op = "accept" => side = "taker" /\ t = Own
      BY <2>1 DEF Due
    <3>5. None \in Some
      BY DEF Some
    <3> QED BY <1>2, <1>3, <3>1, <3>2, <3>3, <3>4, <3>5
  <2>2. CASE ~Due(op, t, b)
    BY <1>2, <2>2 DEF Some
  <2> QED BY <2>1, <2>2
<1>5. Role(x) /\ ~Active(x)
  BY <1>1, <1>4 DEF Role, Active
<1> QED BY <1>1, <1>4, <1>5 DEF x

LEMMA TicksStep ==
    ASSUME IInv, NEW op \in Op, NEW t \in Trade, NEW b \in Bid, Ticks(op, t, b)
    PROVE  IInv'
<1> DEFINE x == Call(op, t, b, TRUE)
<1>1. /\ ~busy /\ busy' = TRUE /\ Due(op, t, b) /\ tools' = tools \cup {x}
      /\ UNCHANGED <<side, log, said, lock, file, joined, seen>>
  BY DEF Ticks
<1>2. /\ Shape(x) /\ Role(x) /\ ~Active(x) /\ ~x.created /\ x.pc = "start" /\ x.live
  BY <1>1, Called
<1> HIDE DEF x
<1>3. Alone'
  BY <1>1, <1>2 DEF IInv, Alone
<1> HIDE DEF IInv
<1> QED BY <1>1, <1>2, <1>3, StartsStep

LEMMA ByHandStep ==
    ASSUME IInv, NEW op \in Op, NEW t \in Trade, NEW b \in Bid, ByHand(op, t, b)
    PROVE  IInv'
<1> DEFINE x == Call(op, t, b, FALSE)
<1>1. /\ \/ op = "cancel" /\ b = None
         \/ op = "quote" /\ side = "maker" /\ t \in Theirs /\ b = None
         \/ op = "accept" /\ side = "taker" /\ t = Own
         \/ op = "invite" /\ side = "maker" /\ Say("quote", t, b) \in said
      /\ tools' = tools \cup {x} /\ seen' = seen \cup {"overlap"}
      /\ UNCHANGED <<side, log, said, lock, file, joined>>
  BY DEF ByHand, Fault
<1>2. /\ Shape(x) /\ Role(x) /\ ~Active(x) /\ ~x.created /\ x.pc = "start"
  BY <1>1, Called
<1> HIDE DEF x
<1>3. Alone'
  BY <1>1 DEF Alone
<1> HIDE DEF IInv
<1> QED BY <1>1, <1>2, <1>3, StartsStep

-----------------------------------------------------------------------------
(* Locks are taken, used and given back.                                     *)

LEMMA Locked ==
    ASSUME IInv, NEW t \in tools, Locking(t)
    PROVE  /\ ListingOf(t) \in Listing /\ HeldBy(t) \in ListingLock
           /\ t.op # "rfq" /\ t.op \in {"accept", "invite"}
           /\ IF ListingOf(t) = Own THEN t.op = "accept" /\ t.trade = Own /\ side = "taker"
              ELSE t.op = "invite" /\ ListingOf(t) \in Line /\ t.bid = ListingOf(t)
                     /\ side = "maker"
<1>1. Shape(t) /\ Role(t) /\ Workers
  BY DEF IInv, Workers
<1>2. /\ ListingOf(t) \in Listing
      /\ t.op = "accept" => ListingOf(t) = Own
      /\ t.op # "accept" => t.op = "invite" /\ ListingOf(t) \in Line /\ ListingOf(t) = t.bid
  BY <1>1, ActiveListing
<1>3. HeldBy(t) \in ListingLock
  BY <1>1 DEF HeldBy, ListingLock, Shape
<1> QED BY <1>1, <1>2, <1>3, Distinct DEF Role

\* What a tool says, once it said it, takes its listing; nothing else of it does.
LEMMA SaysOf ==
    ASSUME IInv, NEW t \in tools, t.op \in {"accept", "invite"}
    PROVE  /\ MessageOf(t) \in Message /\ Fits(MessageOf(t))
           /\ MessageOf(t).trade = t.trade /\ MessageOf(t).bid = t.bid
           /\ MessageOf(t).kind = t.op
           /\ \A l \in Listing :
                 (IF l = Own THEN MessageOf(t).kind = "accept" /\ MessageOf(t).trade = Own
                  ELSE side = "maker" /\ MessageOf(t).kind = "invite" /\ MessageOf(t).bid = l)
                 <=> (Locking(t) /\ l = ListingOf(t))
<1>1. Shape(t) /\ Role(t)
  BY DEF IInv, Workers
<1>2. MessageOf(t) = [kind |-> t.op, trade |-> t.trade, bid |-> t.bid]
  BY DEF MessageOf, Say
<1>3. MessageOf(t) \in Message /\ Fits(MessageOf(t))
  BY <1>1, <1>2 DEF Message, Kind, Shape, Role, Fits
<1>4. \A l \in Listing :
         (IF l = Own THEN MessageOf(t).kind = "accept" /\ MessageOf(t).trade = Own
          ELSE side = "maker" /\ MessageOf(t).kind = "invite" /\ MessageOf(t).bid = l)
         <=> (Locking(t) /\ l = ListingOf(t))
  BY <1>1, <1>2, Distinct DEF Role, Locking, ListingOf, Some
<1> QED BY <1>2, <1>3, <1>4

LEMMA TakesStep ==
    ASSUME IInv, NEW t \in tools, t.pc = "lock", Locking(t), Available(t),
           lock' = [lock EXCEPT ![ListingOf(t)] = HeldBy(t)],
           tools' = Rest(t) \cup {[t EXCEPT !.pc = "send", !.created = TRUE]},
           UNCHANGED <<side, log, said, file, joined, seen, busy>>
    PROVE  IInv'
<1> DEFINE x == [t EXCEPT !.pc = "send", !.created = TRUE]
           k == ListingOf(t)
<1>1. /\ k \in Listing /\ HeldBy(t) \in ListingLock /\ t.op # "rfq"
      /\ t.op \in {"accept", "invite"}
      /\ IF k = Own THEN t.op = "accept" /\ t.trade = Own ELSE t.bid = k
  BY Locked
<1>2. Shape(t) /\ Role(t)
  BY DEF IInv, Workers
<1>3. /\ Shape(x) /\ x.op = t.op /\ x.trade = t.trade /\ x.bid = t.bid /\ x.pc = "send"
      /\ x.live = t.live /\ x.created
  BY <1>2 DEF Shape, Point
<1>4. lock[k] = Free /\ lock' = [lock EXCEPT ![k] = HeldBy(t)] /\ tools' = Rest(t) \cup {x}
  BY DEF Available
<1>5. ListingOf(x) = k /\ Locking(x) /\ HeldBy(t).state = "in_flight"
      /\ HeldBy(t).trade = t.trade /\ HeldBy(t).bid = t.bid
  BY <1>3 DEF ListingOf, Locking, HeldBy
<1> HIDE DEF x, k
<1>6. /\ \A l \in Listing : lock'[l] = IF l = k THEN HeldBy(t) ELSE lock[l]
      /\ lock' \in [Listing -> ListingLock]
  BY <1>1, <1>4 DEF IInv, Locks
<1>7. \A u \in tools' : u = x \/ (u \in tools /\ u # t)
  BY <1>4 DEF Rest
<1>8. \A u \in tools : u = t \/ u \in tools'
  BY <1>4 DEF Rest
<1>9. ~Taken(k) /\ Taken(k)' /\ \A l \in Listing \ {k} : Taken(l)' <=> Taken(l)
  BY <1>1, <1>4, <1>5, <1>6 DEF Taken, Free
<1>10. /\ ~\E y : Holds(k, y)
       /\ \A l \in Listing \ {k} : \A y : Holds(l, y)' <=> Holds(l, y)
       /\ Holds(k, x)'
  BY <1>1, <1>3, <1>5, <1>6, <1>9 DEF Holds
<1>11. \A y : Mirror(y, y)
  BY DEF Mirror
<1>12. ~Creator(t)
  BY DEF Creator
<1>13. Workers'
  <2>1. Role(x)'
    BY <1>2, <1>3, <1>5 DEF Role
  <2> QED BY <1>3, <1>7, <2>1, WorkersKept
<1>14. Words'
  BY DEF IInv, Words, Fits
<1>15. Locks'
  <2>1. \A l \in Listing : Named(l)'
    BY <1>1, <1>5, <1>6, <1>9 DEF IInv, Locks, Named
  <2> QED BY <1>6, <2>1 DEF IInv, Locks
<1>16. \A l \in Listing : Claims(l)' = Claims(l)
  BY DEF Claims
<1>17. Sold'
  BY <1>10, <1>16, SoldKept
<1>18. Taking'
  <2>1. \A u \in tools' : u = x \/ \E v \in tools : Mirror(v, u)
    BY <1>7, <1>11
  <2> QED BY <1>5, <1>10, <2>1, TakingKept
<1>19. First'
  <2> SUFFICES ASSUME "overlap" \notin seen, NEW u \in tools', Creator(u), Good(ListingOf(u)),
                      NEW m \in Claims(ListingOf(u))
               PROVE  Over(m.trade)
    BY DEF First, Good, Clean, Claims, Over
  <2>1. CASE u = x
    BY <1>1, <1>5, <1>10, <2>1 DEF IInv, Sold
  <2>2. CASE u # x
    BY <1>7, <2>2 DEF IInv, First
  <2> QED BY <2>1, <2>2
<1>20. Returns'
  <2>1. Backed(k)'
    BY <1>3, <1>4, <1>5, <1>10 DEF Backed, Creator
  <2>2. \A l \in Listing \ {k} :
           /\ lock'[l] = lock[l]
           /\ \A v \in tools : Creator(v) /\ ListingOf(v) = l => \E u \in tools' : Mirror(v, u)
    BY <1>6, <1>8, <1>11, <1>12
  <2> QED BY <1>16, <2>1, <2>2, ReturnsKept
<1>21. Alone'
  BY <1>1, <1>3, <1>4, AloneKept
<1>22. Apart'
  <2> SUFFICES ASSUME "overlap" \notin seen PROVE Apart'
    BY DEF Apart
  <2>1. /\ \A y \in Trade : Over(y) => y \in joined
        /\ \A u \in tools : Locking(u) /\ u.pc # "start" => u.trade \notin joined
        /\ \A l \in Listing : Taken(l) => ~Over(lock[l].trade)
    BY DEF IInv, Apart
  <2>2. t.trade \notin joined /\ t.trade \in Trade
    BY <1>2, <2>1 DEF Shape
  <2>3. ~Over(t.trade)
    BY <2>1, <2>2
  <2>4. \A l \in Listing : Taken(l)' => ~Over(lock'[l].trade)
    BY <1>5, <1>6, <1>9, <2>1, <2>3
  <2>5. \A u \in tools' : Locking(u) /\ u.pc # "start" => u.trade \notin joined
    BY <1>3, <1>7, <2>1, <2>2
  <2> QED BY <2>1, <2>4, <2>5 DEF Apart, Over
<1> QED BY <1>13, <1>14, <1>15, <1>17, <1>18, <1>19, <1>20, <1>21, <1>22 DEF IInv

LEMMA TakesLockStep ==
    ASSUME IInv, NEW t \in tools, TakesLock(t)
    PROVE  IInv'
<1>1. t.pc = "lock" /\ UNCHANGED <<side, log, said, file, joined, seen>>
  BY DEF TakesLock
<1>2. Role(t) /\ ~t.created /\ ~Creator(t) /\ t.op \in {"accept", "invite"}
  BY <1>1 DEF IInv, Workers, Role, Creator
<1>3. CASE (~Locking(t) \/ Replays(t)) /\ Moves(t, "send") /\ UNCHANGED <<lock, automation>>
  <2>1. UNCHANGED <<Others, busy>> /\ log' \subseteq said
    BY <1>1, <1>3 DEF Others, automation, IInv, Words
  <2>2. Locking(t) => Holds(ListingOf(t), t)
    <3> SUFFICES ASSUME Locking(t) PROVE Holds(ListingOf(t), t)
      OBVIOUS
    <3>1. /\ ListingOf(t) \in Listing
          /\ IF ListingOf(t) = Own THEN t.op = "accept" ELSE t.op = "invite" /\ t.bid = ListingOf(t)
      BY Locked
    <3>2. /\ lock[ListingOf(t)].state = "in_flight" /\ lock[ListingOf(t)].trade = t.trade
          /\ t.op = "accept" => lock[ListingOf(t)].bid = t.bid
      BY <1>3 DEF Replays
    <3>3. Taken(ListingOf(t)) /\ Named(ListingOf(t))
      BY <3>1, <3>2 DEF Taken, IInv, Locks
    <3> QED BY <3>1, <3>2, <3>3 DEF Holds, Named
  <2>3. "overlap" \notin seen => (Locking(t) => t.trade \notin joined)
    BY <1>1 DEF IInv, Apart
  <2>4. "send" \in Point
    BY DEF Point
  <2> HIDE DEF IInv
  <2> QED BY <1>1, <1>2, <1>3, <2>1, <2>2, <2>3, <2>4, GoesStep
<1>4. CASE /\ Locking(t) /\ Available(t)
           /\ lock' = [lock EXCEPT ![ListingOf(t)] = HeldBy(t)]
           /\ tools' = Rest(t) \cup {[t EXCEPT !.pc = "send", !.created = TRUE]}
           /\ UNCHANGED automation
  <2>1. busy' = busy
    BY <1>4 DEF automation
  <2> HIDE DEF IInv
  <2> QED BY <1>1, <1>4, <2>1, TakesStep
<1>5. CASE Drops(t) /\ UNCHANGED lock
  <2>1. UNCHANGED <<Others, log>>
    BY <1>1, <1>5 DEF Others
  <2> HIDE DEF IInv
  <2> QED BY <1>2, <1>5, <2>1, StopsStep
<1> QED BY <1>3, <1>4, <1>5 DEF TakesLock

LEMMA SendsStep ==
    ASSUME IInv, NEW t \in tools, Sends(t)
    PROVE  IInv'
<1> DEFINE x == [t EXCEPT !.pc = "sent"]
           m == MessageOf(t)
<1>1. /\ t.pc = "send" /\ t.op \in {"accept", "invite"}
      /\ said' = said \cup {m} /\ tools' = Rest(t) \cup {x}
      /\ UNCHANGED <<side, log, lock, file, joined, busy, seen>>
  BY DEF Sends, Moves, automation
<1>2. Shape(t) /\ Role(t) /\ t.op # "rfq"
  BY <1>1 DEF IInv, Workers
<1>3. /\ Shape(x) /\ x.op = t.op /\ x.trade = t.trade /\ x.bid = t.bid /\ x.pc = "sent"
      /\ x.live = t.live /\ x.created = t.created
  BY <1>2 DEF Shape, Point
<1>4. /\ m \in Message /\ Fits(m) /\ m.trade = t.trade /\ m.bid = t.bid /\ m.kind = t.op
      /\ \A l \in Listing :
            (IF l = Own THEN m.kind = "accept" /\ m.trade = Own
             ELSE side = "maker" /\ m.kind = "invite" /\ m.bid = l)
            <=> (Locking(t) /\ l = ListingOf(t))
  BY <1>1, SaysOf
<1>5. ListingOf(x) = ListingOf(t) /\ Locking(x) = Locking(t) /\ MessageOf(x) = m
  BY <1>3 DEF ListingOf, Locking, MessageOf
<1> HIDE DEF x, m
<1>6. \A l \in Listing : Claims(l)' = IF Locking(t) /\ l = ListingOf(t) THEN Claims(l) \cup {m}
                                      ELSE Claims(l)
  BY <1>1, <1>4 DEF Claims
<1>7. \A u \in tools' : u = x \/ (u \in tools /\ u # t)
  BY <1>1 DEF Rest
<1>8. \A u \in tools : u = t \/ u \in tools'
  BY <1>1 DEF Rest
<1>9. /\ \A y : Over(y)' <=> Over(y)
      /\ \A l, y : Holds(l, y)' <=> Holds(l, y)
      /\ \A l : Holds(l, x) <=> Holds(l, t)
      /\ \A l : Holds(l, m) <=> Holds(l, t)
  BY <1>1, <1>3, <1>4 DEF Over, Say, Holds, Taken
<1>10. \A l \in Listing : Locking(t) /\ l = ListingOf(t) /\ Good(l)' => Over(t.trade) \/ Holds(l, t)
  <2>1. \A l : Good(l)' <=> Good(l)
    BY <1>1 DEF Good, Clean
  <2>2. Locking(t) => Active(t)
    BY <1>1 DEF Active
  <2> QED BY <2>1, <2>2 DEF IInv, Taking
<1>11. \A y : Mirror(y, y)
  BY DEF Mirror
<1>12. Workers'
  <2>1. Role(x)'
    BY <1>1, <1>2, <1>3, <1>5 DEF Role, Locking
  <2> QED BY <1>1, <1>3, <1>7, <2>1, WorkersKept
<1>13. Words'
  BY <1>1, <1>4, WordsKept DEF IInv, Words
<1>14. Locks'
  BY <1>1 DEF IInv, Locks, Named, Taken
<1>15. Sold'
  <2>1. ASSUME NEW l \in Listing, Good(l)', NEW n \in Claims(l)'
        PROVE  n \in Claims(l) \/ Over(n.trade)' \/ Holds(l, n)'
    <3>1. CASE Locking(t) /\ l = ListingOf(t) /\ n = m
      BY <1>4, <1>9, <1>10, <2>1, <3>1
    <3>2. CASE ~(Locking(t) /\ l = ListingOf(t) /\ n = m)
      BY <1>6, <2>1, <3>2
    <3> QED BY <3>1, <3>2
  <2> QED BY <1>1, <1>9, <2>1, SoldKept
<1>16. Taking'
  <2>1. ASSUME NEW u \in tools', Active(u), Good(ListingOf(u))'
        PROVE  (\E v \in tools : Mirror(v, u)) \/ Over(u.trade)' \/ Holds(ListingOf(u), u)'
    <3>1. CASE u = x
      <4>1. Locking(t) /\ ListingOf(t) \in Listing
        BY <1>5, <2>1, <3>1, Locked DEF Active
      <4> QED BY <1>3, <1>5, <1>9, <1>10, <2>1, <3>1, <4>1
    <3>2. CASE u # x
      BY <1>7, <1>11, <3>2
    <3> QED BY <3>1, <3>2
  <2> QED BY <1>1, <1>9, <2>1, TakingKept
<1>17. First'
  <2>1. ASSUME "overlap" \notin seen, NEW u \in tools', Creator(u) PROVE FALSE
    <3>1. u \in tools /\ u # t
      BY <1>3, <1>7, <2>1 DEF Creator
    <3>2. u.op # "rfq"
      BY <2>1, <3>1 DEF IInv, Workers, Role, Creator, Locking
    <3> QED BY <1>2, <2>1, <3>1, <3>2 DEF IInv, Alone
  <2> QED BY <1>1, <2>1 DEF First
<1>18. Returns'
  <2> SUFFICES ASSUME "crash" \notin seen, NEW l \in Listing, lock[l].state = "in_flight"
               PROVE  Backed(l)'
    BY <1>1 DEF Returns
  <2>1. Backed(l)
    BY DEF IInv, Returns
  <2>2. CASE \E n \in Claims(l) : Holds(l, n)
    BY <1>6, <1>9, <2>2 DEF Backed
  <2>3. ASSUME NEW v \in tools, Creator(v), ListingOf(v) = l, Holds(l, v) PROVE Backed(l)'
    <3>1. CASE v = t
      <4>1. Locking(t)
        BY <1>2, <2>3, <3>1 DEF Role, Creator
      <4> QED BY <1>6, <1>9, <2>3, <3>1, <4>1 DEF Backed
    <3>2. CASE v # t
      BY <1>8, <1>9, <2>3, <3>2 DEF Backed
    <3> QED BY <3>1, <3>2
  <2> QED BY <2>1, <2>2, <2>3 DEF Backed
<1>19. Alone'
  BY <1>1, <1>2, <1>3, AloneKept
<1>20. Apart'
  <2> SUFFICES ASSUME "overlap" \notin seen PROVE Apart'
    BY <1>1 DEF Apart
  <2>1. /\ \A y \in Trade : Over(y) => y \in joined
        /\ \A u \in tools : Locking(u) /\ u.pc # "start" => u.trade \notin joined
        /\ \A l \in Listing : Taken(l) => ~Over(lock[l].trade)
    BY DEF IInv, Apart
  <2>2. Locking(x) => x.trade \notin joined
    BY <1>1, <1>3, <1>5, <2>1
  <2> QED BY <1>1, <1>7, <1>9, <2>1, <2>2 DEF Apart, Taken
<1> QED BY <1>12, <1>13, <1>14, <1>15, <1>16, <1>17, <1>18, <1>19, <1>20 DEF IInv

\* What a tool said is confirmed: its lock is written again and the tool ends.
LEMMA ConfirmsStep ==
    ASSUME IInv, NEW t \in tools, Locking(t), t.pc \in {"sent", "join"},
           lock' = [lock EXCEPT ![ListingOf(t)] = HeldBy(t)],
           tools' = Rest(t), busy' = (busy /\ ~t.live),
           joined' = joined \/ joined' = joined \cup {t.trade},
           seen \subseteq seen', seen' \subseteq seen \cup {"late"},
           t.op = "invite" /\ Over(t.trade) => "late" \in seen',
           UNCHANGED <<side, said, file>>, log' \subseteq said
    PROVE  IInv'
<1> DEFINE k == ListingOf(t)
           m == MessageOf(t)
<1>1. /\ k \in Listing /\ HeldBy(t) \in ListingLock /\ t.op # "rfq"
      /\ t.op \in {"accept", "invite"}
      /\ IF k = Own THEN t.op = "accept" /\ t.trade = Own ELSE t.op = "invite" /\ t.bid = k
  BY Locked
<1>2. Shape(t) /\ Role(t) /\ m \in said
  BY DEF IInv, Workers, Role
<1>3. /\ m.trade = t.trade /\ m.bid = t.bid
      /\ (IF k = Own THEN m.kind = "accept" /\ m.trade = Own
          ELSE side = "maker" /\ m.kind = "invite" /\ m.bid = k)
  BY <1>1, SaysOf
<1>4. HeldBy(t).state = "in_flight" /\ HeldBy(t).trade = t.trade /\ HeldBy(t).bid = t.bid
  BY DEF HeldBy
<1> HIDE DEF k, m
<1>5. /\ \A l \in Listing : lock'[l] = IF l = k THEN HeldBy(t) ELSE lock[l]
      /\ lock' \in [Listing -> ListingLock]
  BY <1>1 DEF IInv, Locks, k
<1>6. /\ \A l \in Listing : Claims(l)' = Claims(l)
      /\ \A y : Over(y)' <=> Over(y)
      /\ m \in Claims(k)
  BY <1>2, <1>3 DEF Claims, Over
<1>7. /\ \A l \in Listing \ {k} : \A y : Holds(l, y)' <=> Holds(l, y)
      /\ \A y : y.trade = t.trade /\ y.bid = t.bid => Holds(k, y)'
  BY <1>1, <1>4, <1>5 DEF Holds, Taken
<1>8. \A u \in tools' : u \in tools /\ u # t
  BY DEF Rest
<1>9. \A u \in tools : u = t \/ u \in tools'
  BY DEF Rest
<1>10. \A y : Mirror(y, y)
  BY DEF Mirror
<1>11. ~Creator(t)
  BY DEF Creator
<1>12. \A l \in Listing : Good(l)' => \A y : Holds(l, y) => Over(y.trade)' \/ Holds(l, y)'
  <2> SUFFICES ASSUME Good(k)', NEW y, Holds(k, y) PROVE Over(y.trade) \/ Holds(k, y)'
    BY <1>6, <1>7
  <2>1. Good(k) /\ Active(t)
    BY Remembered DEF Active
  <2>2. Over(t.trade) \/ Holds(k, t)
    BY <2>1 DEF IInv, Taking, k
  <2>3. CASE Holds(k, t)
    BY <1>7, <2>3 DEF Holds
  <2>4. CASE Over(t.trade)
    <3>1. k = Own
      BY <1>1, <2>4, Distinct DEF Good
    <3>2. Taken(k) => lock[k].trade = Own
      BY <1>1, <3>1 DEF IInv, Locks, Named
    <3> QED BY <1>1, <2>4, <3>1, <3>2 DEF Holds
  <2> QED BY <2>2, <2>3, <2>4
<1>13. Workers'
  BY <1>8, WorkersKept
<1>14. Words'
  BY DEF IInv, Words, Fits
<1>15. Locks'
  <2>1. \A l \in Listing : Named(l)'
    BY <1>1, <1>4, <1>5 DEF IInv, Locks, Named, Taken
  <2>2. joined' \subseteq Trade
    BY <1>2 DEF IInv, Locks, Shape
  <2> QED BY <1>5, <2>1, <2>2 DEF IInv, Locks
<1>16. Sold'
  BY <1>6, <1>12, SoldKept
<1>17. Taking'
  BY <1>8, <1>10, <1>12, TakingKept
<1>18. First'
  BY <1>6, <1>8, <1>10, FirstKept
<1>19. Returns'
  <2>1. Backed(k)'
    BY <1>3, <1>6, <1>7, <1>1 DEF Backed
  <2>2. \A l \in Listing \ {k} :
           /\ lock'[l] = lock[l]
           /\ \A v \in tools : Creator(v) /\ ListingOf(v) = l => \E u \in tools' : Mirror(v, u)
    BY <1>5, <1>9, <1>10, <1>11
  <2> QED BY <1>6, <2>1, <2>2, ReturnsKept
<1>20. Alone'
  BY AloneKept
<1>21. Apart'
  <2> SUFFICES ASSUME "overlap" \notin seen PROVE Apart'
    BY DEF Apart
  <2>1. /\ \A y \in Trade : Over(y) => y \in joined
        /\ \A u \in tools : Locking(u) /\ u.pc # "start" => u.trade \notin joined
        /\ \A l \in Listing : Taken(l) => ~Over(lock[l].trade)
    BY DEF IInv, Apart
  <2>2. t.trade \in Trade /\ t.trade \notin joined
    BY <1>2, <2>1 DEF Shape
  <2>3. \A l \in Listing : Taken(l)' => ~Over(lock'[l].trade)
    BY <1>4, <1>5, <2>1, <2>2 DEF Taken
  <2>4. \A u \in tools' : Locking(u) /\ u.pc # "start" => u.trade \notin joined'
    <3>1. ASSUME NEW u \in tools', Locking(u) PROVE FALSE
      <4>1. u.op # "rfq" /\ u \in tools /\ u # t
        BY <1>8, <3>1 DEF Locking
      <4> QED BY <1>1, <4>1 DEF IInv, Alone
    <3> QED BY <3>1
  <2>5. \A y \in Trade : Over(y) => y \in joined'
    BY <2>1
  <2> QED BY <1>6, <2>3, <2>4, <2>5 DEF Apart
<1> QED BY <1>13, <1>14, <1>15, <1>16, <1>17, <1>18, <1>19, <1>20, <1>21 DEF IInv

LEMMA AcceptPostedStep ==
    ASSUME IInv, NEW t \in tools, AcceptPosted(t)
    PROVE  IInv'
<1>1. /\ t.pc = "sent" /\ t.op = "accept" /\ log' = log \cup {MessageOf(t)}
      /\ lock' = [lock EXCEPT ![Own] = HeldBy(t)] /\ Succeeds(t)
      /\ UNCHANGED <<side, said, file, joined, seen>>
  BY DEF AcceptPosted
<1>2. tools' = Rest(t) /\ busy' = (busy /\ ~t.live)
  BY <1>1, EndOf
<1>3. ListingOf(t) = Own /\ Locking(t) /\ log' \subseteq said
  BY <1>1 DEF ListingOf, Locking, IInv, Words, Workers, Role
<1> HIDE DEF IInv
<1> QED BY <1>1, <1>2, <1>3, ConfirmsStep

LEMMA JoinsStep ==
    ASSUME IInv, NEW t \in tools, Joins(t)
    PROVE  IInv'
<1>1. /\ t.pc = "join" \/ (t.op = "join" /\ t.pc = "start")
      /\ joined' = joined \cup {t.trade}
      /\ lock' = IF Locking(t) THEN [lock EXCEPT ![ListingOf(t)] = HeldBy(t)] ELSE lock
      /\ seen' = IF Locking(t) /\ Over(t.trade) THEN seen \cup {"late"} ELSE seen
      /\ Succeeds(t) /\ UNCHANGED <<side, log, said, file>>
  BY DEF Joins
<1>2. tools' = Rest(t) /\ busy' = (busy /\ ~t.live)
  BY <1>1, EndOf
<1>3. log' \subseteq said /\ t.trade \in Trade /\ t.op # "rfq"
  BY <1>1 DEF IInv, Words, Workers, Shape, Role
<1>4. CASE Locking(t)
  <2>1. t.pc = "join"
    BY <1>1, <1>4 DEF Locking
  <2>2. seen \subseteq seen' /\ seen' \subseteq seen \cup {"late"}
        /\ (t.op = "invite" /\ Over(t.trade) => "late" \in seen')
    BY <1>1, <1>4
  <2> HIDE DEF IInv
  <2> QED BY <1>1, <1>2, <1>3, <1>4, <2>1, <2>2, ConfirmsStep
<1>5. CASE ~Locking(t)
  <2>1. UNCHANGED <<side, lock, said, file, seen>> /\ said' = said /\ seen' = seen /\ side' = side
    BY <1>1, <1>5
  <2>2. \A u \in tools' : u \in tools /\ u # t
    BY <1>2 DEF Rest
  <2>3. \A u \in tools : u = t \/ u \in tools'
    BY <1>2 DEF Rest
  <2>4. \A y : Mirror(y, y)
    BY DEF Mirror
  <2>5. /\ \A l \in Listing : Claims(l)' = Claims(l)
        /\ \A y : Over(y)' <=> Over(y)
        /\ \A l, y : Holds(l, y)' <=> Holds(l, y)
    BY <2>1 DEF Claims, Over, Holds, Taken
  <2>6. ~Creator(t)
    BY <1>1 DEF Creator
  <2>7. Workers'
    BY <2>1, <2>2, WorkersKept
  <2>8. Words' /\ Locks'
    BY <1>1, <1>3, <2>1 DEF IInv, Words, Fits, Locks, Named, Taken
  <2>9. Sold' /\ Taking'
    BY <2>1, <2>2, <2>4, <2>5, SoldKept, TakingKept
  <2>10. First' /\ Returns'
    BY <2>1, <2>2, <2>3, <2>4, <2>5, <2>6, FirstKept, ReturnsKept
  <2>11. Alone'
    BY <1>2, <2>1, AloneKept
  <2>12. Apart'
    <3> SUFFICES ASSUME "overlap" \notin seen PROVE Apart'
      BY <2>1 DEF Apart
    <3>1. /\ \A y \in Trade : Over(y) => y \in joined
          /\ \A l \in Listing : Taken(l) => ~Over(lock[l].trade)
      BY DEF IInv, Apart
    <3>2. ASSUME NEW u \in tools', Locking(u) PROVE FALSE
      <4>1. u.op # "rfq" /\ u \in tools /\ u # t
        BY <2>2, <3>2 DEF Locking
      <4> QED BY <1>3, <4>1 DEF IInv, Alone
    <3> QED BY <1>1, <2>1, <2>5, <3>1, <3>2 DEF Apart, Taken
  <2> QED BY <2>7, <2>8, <2>9, <2>10, <2>11, <2>12 DEF IInv
<1> QED BY <1>4, <1>5

\* A tool that fails gives its lock back.
LEMMA UndoesStep ==
    ASSUME IInv, NEW t \in tools, Fails(t), Undoes(t)
    PROVE  IInv'
<1> DEFINE k == ListingOf(t)
<1>1. /\ lock' = [lock EXCEPT ![k] = Free] /\ TriesAgain(t)
      /\ seen' = seen \cup {IF t.pc = "sent" THEN "ambiguous" ELSE "fails"}
      /\ UNCHANGED <<side, log, said, file, joined>>
  BY DEF Fails, Fault
<1>2. tools' = Rest(t) /\ busy' = (busy /\ ~t.live)
  BY <1>1, EndOf
<1>3. /\ Locking(t) /\ t.created /\ t.pc \in {"send", "sent"} /\ k \in Listing /\ t.op # "rfq"
  BY Locked DEF Undoes
<1> HIDE DEF k
<1>4. Free \in ListingLock /\ Free.state = "free"
  BY Distinct DEF Free, ListingLock
<1>5. /\ \A l \in Listing : lock'[l] = IF l = k THEN Free ELSE lock[l]
      /\ lock' \in [Listing -> ListingLock]
  BY <1>1, <1>3, <1>4 DEF IInv, Locks
<1>6. /\ \A l \in Listing : Claims(l)' = Claims(l)
      /\ \A y : Over(y)' <=> Over(y)
  BY <1>1 DEF Claims, Over
<1>7. /\ \A l \in Listing \ {k} : \A y : Holds(l, y)' <=> Holds(l, y)
      /\ \A l \in Listing \ {k} : Taken(l)' <=> Taken(l)
      /\ ~Taken(k)'
  BY <1>3, <1>4, <1>5 DEF Holds, Taken
<1>8. \A u \in tools' : u \in tools /\ u # t
  BY <1>2 DEF Rest
<1>9. \A u \in tools : u = t \/ u \in tools'
  BY <1>2 DEF Rest
<1>10. \A y : Mirror(y, y)
  BY DEF Mirror
<1>11. \A l : Good(l)' => Good(l) /\ "overlap" \notin seen /\ t.pc = "send"
  BY <1>1, <1>3 DEF Good, Clean
<1>12. "overlap" \notin seen => \A u \in tools' : ~Locking(u)
  <2>1. ASSUME "overlap" \notin seen, NEW u \in tools', Locking(u) PROVE FALSE
    <3>1. u.op # "rfq" /\ u \in tools /\ u # t
      BY <1>8, <2>1 DEF Locking
    <3> QED BY <1>3, <2>1, <3>1 DEF IInv, Alone
  <2> QED BY <2>1
<1>13. Workers'
  BY <1>1, <1>8, WorkersKept
<1>14. Words'
  BY <1>1 DEF IInv, Words, Fits
<1>15. Locks'
  <2>1. \A l \in Listing : Named(l)'
    BY <1>5, <1>7 DEF IInv, Locks, Named
  <2> QED BY <1>1, <1>5, <2>1 DEF IInv, Locks
<1>16. Sold'
  <2> SUFFICES ASSUME NEW l \in Listing, Good(l)', NEW m \in Claims(l)
               PROVE  Over(m.trade) \/ Holds(l, m)'
    BY <1>6 DEF Sold
  <2>1. Good(l) /\ "overlap" \notin seen /\ t.pc = "send"
    BY <1>11
  <2>2. CASE l = k
    BY <1>3, <2>1, <2>2 DEF IInv, First, Creator, k
  <2>3. CASE l # k
    BY <1>7, <2>1, <2>3 DEF IInv, Sold
  <2> QED BY <2>2, <2>3
<1>17. Taking'
  <2>1. \A u \in tools' : ~(Active(u) /\ Good(ListingOf(u))')
    BY <1>11, <1>12 DEF Active
  <2> QED BY <2>1 DEF Taking
<1>18. First'
  <2>1. \A u \in tools' : Creator(u) => Locking(u)
    BY <1>8 DEF IInv, Workers, Role, Creator
  <2> QED BY <1>1, <1>12, <2>1 DEF First
<1>19. Returns'
  <2>1. lock'[k].state # "in_flight"
    BY <1>3, <1>4, <1>5
  <2>2. \A l \in Listing \ {k} :
           /\ lock'[l] = lock[l]
           /\ \A v \in tools : Creator(v) /\ ListingOf(v) = l => \E u \in tools' : Mirror(v, u)
    BY <1>5, <1>9, <1>10 DEF k
  <2>3. seen \subseteq seen'
    BY <1>1
  <2> QED BY <1>6, <2>1, <2>2, <2>3, ReturnsKept
<1>20. Alone'
  <2>1. seen \subseteq seen'
    BY <1>1
  <2> QED BY <1>2, <2>1, AloneKept
<1>21. Apart'
  <2> SUFFICES ASSUME "overlap" \notin seen PROVE Apart'
    BY <1>1 DEF Apart
  <2>1. /\ \A y \in Trade : Over(y) => y \in joined
        /\ \A l \in Listing : Taken(l) => ~Over(lock[l].trade)
    BY DEF IInv, Apart
  <2>2. \A l \in Listing : Taken(l)' => ~Over(lock'[l].trade)
    BY <1>5, <1>7, <2>1
  <2> QED BY <1>1, <1>6, <1>12, <2>1, <2>2 DEF Apart
<1> QED BY <1>13, <1>14, <1>15, <1>16, <1>17, <1>18, <1>19, <1>20, <1>21 DEF IInv

\* A trade is canceled or claimed: its locks are free or filled.
LEMMA SettlesStep ==
    ASSUME IInv, NEW t \in Trade, UNCHANGED <<side, joined, seen>>,
           file' \in [Trade -> {"none", "rfq", "active", "claimed", "canceled"}],
           \/ said' = said \cup {Say("cancel", t, None)} /\ log' = log \cup {Say("cancel", t, None)}
              /\ lock' = ReleasedBy(t) /\ ("overlap" \notin seen => t \in joined)
           \/ said' = said \cup {Say("claimed", t, None)}
              /\ log' = log \cup {Say("claimed", t, None)} /\ lock' = FilledBy(t),
           \A u \in tools' : u \in tools,
           \A u \in tools : Creator(u) => u \in tools', Alone'
    PROVE  IInv'
<1>1. /\ \A l \in Listing : Claims(l)' = Claims(l)
      /\ \A y : Over(y) => Over(y)'
      /\ \A y : Over(y)' => Over(y) \/ (y = t /\ ("overlap" \notin seen => t \in joined))
      /\ said \subseteq said' /\ log' \subseteq said'
      /\ \A m \in said' : m \in said \/ (m \in Message /\ Fits(m))
  BY Distinct DEF Claims, Over, Say, IInv, Words, Message, Kind, Fits
<1>2. /\ lock' \in [Listing -> ListingLock]
      /\ \A l \in Listing :
            \/ lock'[l] = lock[l] /\ (Taken(l) /\ lock[l].trade = t => (Over(t)' => Over(t)))
            \/ Taken(l) /\ lock[l].trade = t /\ ~Taken(l)' /\ lock'[l].state = "free" /\ Over(t)'
            \/ /\ Taken(l) /\ Taken(l)' /\ lock'[l].state = "filled" /\ (Over(t)' => Over(t))
               /\ lock'[l].trade = lock[l].trade /\ lock'[l].bid = lock[l].bid
  <2>1. lock \in [Listing -> ListingLock]
    BY DEF IInv, Locks
  <2>2. CASE lock' = ReleasedBy(t) /\ said' = said \cup {Say("cancel", t, None)}
    <3>1. Over(t)' /\ Free \in ListingLock /\ Free.state = "free"
      BY <2>2, Distinct DEF Over, Free, ListingLock
    <3>2. \A l \in Listing : lock'[l] = IF Taken(l) /\ lock[l].trade = t THEN Free ELSE lock[l]
      BY <2>2 DEF ReleasedBy, Taken
    <3>3. lock' \in [Listing -> ListingLock]
      BY <2>1, <2>2, <3>1 DEF ReleasedBy
    <3> QED BY <3>1, <3>2, <3>3 DEF Taken
  <2>3. CASE lock' = FilledBy(t) /\ said' = said \cup {Say("claimed", t, None)}
    <3>1. Over(t)' => Over(t)
      BY <2>3 DEF Over, Say
    <3>2. \A l \in Listing : lock'[l] = IF Taken(l) /\ lock[l].trade = t
                                        THEN [lock[l] EXCEPT !.state = "filled"] ELSE lock[l]
      BY <2>3 DEF FilledBy, Taken
    <3>3. \A l \in Listing : /\ [lock[l] EXCEPT !.state = "filled"] \in ListingLock
                             /\ [lock[l] EXCEPT !.state = "filled"].state = "filled"
                             /\ [lock[l] EXCEPT !.state = "filled"].trade = lock[l].trade
                             /\ [lock[l] EXCEPT !.state = "filled"].bid = lock[l].bid
      BY <2>1 DEF ListingLock
    <3>4. lock' \in [Listing -> ListingLock]
      BY <2>1, <2>3, <3>3 DEF FilledBy
    <3> QED BY <3>1, <3>2, <3>3, <3>4 DEF Taken
  <2> QED BY <2>2, <2>3
<1>3. \A l \in Listing : \A y : Holds(l, y) => Over(y.trade)' \/ Holds(l, y)'
  BY <1>2 DEF Holds, Taken
<1>4. \A y : Mirror(y, y)
  BY DEF Mirror
<1>5. Workers'
  BY <1>1, WorkersKept
<1>6. Words'
  BY <1>1, WordsKept
<1>7. Locks'
  <2>1. \A l \in Listing : Named(l)'
    BY <1>2 DEF IInv, Locks, Named, Taken
  <2> QED BY <1>2, <2>1 DEF IInv, Locks
<1>8. Sold' /\ Taking'
  BY <1>1, <1>3, <1>4, SoldKept, TakingKept
<1>9. First'
  BY <1>1, <1>4, FirstKept
<1>10. Returns'
  <2>1. \A l \in Listing : lock'[l].state = "in_flight" => lock'[l] = lock[l]
    BY <1>2
  <2> QED BY <1>1, <1>4, <2>1, ReturnsKept
<1>11. Apart'
  <2> SUFFICES ASSUME "overlap" \notin seen PROVE Apart'
    BY DEF Apart
  <2>1. /\ \A y \in Trade : Over(y) => y \in joined
        /\ \A u \in tools : Locking(u) /\ u.pc # "start" => u.trade \notin joined
        /\ \A l \in Listing : Taken(l) => ~Over(lock[l].trade)
    BY DEF IInv, Apart
  <2>2. ASSUME NEW l \in Listing, Taken(l)', NEW y, y = lock'[l].trade, Over(y)'
        PROVE  FALSE
    <3>1. Taken(l) /\ y = lock[l].trade /\ (y = t => (Over(t)' => Over(t)))
      BY <1>2, <2>2 DEF Taken
    <3>2. ~Over(y)
      BY <2>1, <3>1
    <3>3. y = t
      BY <1>1, <2>2, <3>2
    <3> QED BY <2>2, <3>1, <3>2, <3>3
  <2>3. \A l \in Listing : Taken(l)' => ~Over(lock[l].trade)'
    BY <2>2
  <2>4. /\ \A y \in Trade : Over(y)' => y \in joined'
        /\ \A u \in tools' : Locking(u) /\ u.pc # "start" => u.trade \notin joined'
    BY <1>1, <2>1
  <2> QED BY <2>3, <2>4 DEF Apart
<1> QED BY <1>5, <1>6, <1>7, <1>8, <1>9, <1>10, <1>11 DEF IInv

LEMMA TradeEndsStep ==
    ASSUME IInv, NEW t \in Trade, Claimed(t) \/ HearsCancel(t)
    PROVE  IInv'
<1>1. /\ UNCHANGED <<side, joined, busy, tools, seen>>
      /\ \/ said' = said \cup {Say("cancel", t, None)} /\ log' = log \cup {Say("cancel", t, None)}
            /\ lock' = ReleasedBy(t) /\ t \in joined /\ file' = [file EXCEPT ![t] = "canceled"]
         \/ said' = said \cup {Say("claimed", t, None)}
            /\ log' = log \cup {Say("claimed", t, None)} /\ lock' = FilledBy(t)
            /\ file' = [file EXCEPT ![t] = "claimed"]
  BY DEF Claimed, HearsCancel, automation
<1>2. file' \in [Trade -> {"none", "rfq", "active", "claimed", "canceled"}] /\ Alone'
  BY <1>1 DEF IInv, Locks, Alone
<1> HIDE DEF IInv
<1> QED BY <1>1, <1>2, SettlesStep

LEMMA CancelPostedStep ==
    ASSUME IInv, NEW t \in tools, Posts(t), t.op = "cancel"
    PROVE  IInv'
<1>1. /\ t.pc = "send" /\ Succeeds(t)
      /\ said' = said \cup {MessageOf(t)} /\ log' = log \cup {MessageOf(t)}
      /\ file' = [file EXCEPT ![t.trade] = "canceled"] /\ lock' = ReleasedBy(t.trade)
      /\ UNCHANGED <<side, joined, seen>>
  BY DEF Posts
<1>2. Shape(t) /\ Role(t)
  BY DEF IInv, Workers
<1>3. MessageOf(t) = Say("cancel", t.trade, None) /\ ~Creator(t) /\ t.trade \in Trade
  BY <1>2 DEF MessageOf, Role, Shape, Creator, Locking
<1>4. "overlap" \in seen
  BY <1>2 DEF IInv, Alone, Role
<1>5. file' \in [Trade -> {"none", "rfq", "active", "claimed", "canceled"}]
  BY <1>1 DEF IInv, Locks
<1>6. tools' = Rest(t)
  BY <1>1, EndOf
<1>7. Alone'
  BY <1>1, <1>4 DEF Alone
<1>8. (\A u \in tools' : u \in tools) /\ \A u \in tools : Creator(u) => u \in tools'
  BY <1>3, <1>6 DEF Rest
<1> HIDE DEF IInv
<1> QED BY <1>1, <1>3, <1>4, <1>5, <1>7, <1>8, SettlesStep

-----------------------------------------------------------------------------
LEMMA InvInit == Init => IInv
<1> SUFFICES ASSUME Init PROVE IInv
  OBVIOUS
<1>1. /\ side \in {"taker", "maker"} /\ log = {} /\ said = {} /\ tools = {} /\ joined = {}
      /\ lock = [l \in Listing |-> Free] /\ file = [t \in Trade |-> "none"]
  BY DEF Init
<1>2. Free \in ListingLock /\ Free.state = "free"
  BY Distinct DEF Free, ListingLock
<1>3. \A l \in Listing : lock[l].state = "free" /\ Claims(l) = {}
  BY <1>1, <1>2 DEF Claims
<1>4. Workers /\ Words
  BY <1>1 DEF Workers, Words
<1>5. Locks
  BY <1>1, <1>2, <1>3 DEF Locks, Named, Taken
<1>6. Sold /\ Taking /\ Alone /\ First /\ Returns
  BY <1>1, <1>3 DEF Sold, Taking, Alone, First, Returns
<1>7. Apart
  BY <1>1, <1>3 DEF Apart, Over, Taken
<1> QED BY <1>4, <1>5, <1>6, <1>7 DEF IInv

LEMMA WorksStep ==
    ASSUME IInv, NEW t \in tools, Works(t)
    PROVE  IInv'
<1>1. CASE Refused(t)
  BY <1>1, RefusedStep
<1>2. CASE QuoteChecks(t)
  BY <1>2, QuoteChecksStep
<1>3. CASE AcceptChecks(t) \/ InviteChecks(t) \/ CancelChecks(t)
  BY <1>3, ChecksStep
<1>4. CASE TakesLock(t)
  BY <1>4, TakesLockStep
<1>5. CASE Sends(t)
  BY <1>5, SendsStep
<1>6. CASE AcceptPosted(t)
  BY <1>6, AcceptPostedStep
<1>7. CASE InvitePosted(t)
  BY <1>7, InvitePostedStep
<1>8. CASE Joins(t)
  BY <1>8, JoinsStep
<1>9. CASE Posts(t)
  BY <1>9, PostsStep, CancelPostedStep
<1> QED BY <1>1, <1>2, <1>3, <1>4, <1>5, <1>6, <1>7, <1>8, <1>9 DEF Works

LEMMA InvStep == IInv /\ [Next]_vars => IInv'
<1> SUFFICES ASSUME IInv, [Next]_vars PROVE IInv'
  OBVIOUS
<1>1. CASE PostsOffer \/ \E t \in Trade : HearsRepost(t) \/ Settling(t)
  BY <1>1, TellingStep
<1>2. CASE PostsRfq
  BY <1>2, PostsRfqStep
<1>3. ASSUME NEW op \in Op, NEW t \in Trade, NEW b \in Bid, Ticks(op, t, b) \/ ByHand(op, t, b)
      PROVE  IInv'
  BY <1>3, TicksStep, ByHandStep
<1>4. ASSUME NEW t \in tools, Works(t) PROVE IInv'
  BY <1>4, WorksStep
<1>5. ASSUME NEW t \in tools, Fails(t) PROVE IInv'
  BY <1>5, FailsStep, UndoesStep
<1>6. ASSUME NEW t \in tools, TimesOut(t) PROVE IInv'
  BY <1>6, TimesOutStep
<1>7. ASSUME NEW m \in Message, Hears(m) PROVE IInv'
  BY <1>7, HearsStep
<1>8. ASSUME NEW t \in Trade, Claimed(t) \/ HearsCancel(t) PROVE IInv'
  BY <1>8, TradeEndsStep
<1>9. CASE Crash
  BY <1>9, CrashStep
<1>10. CASE Restart
  BY <1>10, RestartStep
<1>11. CASE UNCHANGED vars
  <2>1. /\ UNCHANGED <<side, lock, joined, busy, tools, seen, said, log, file>>
    BY <1>11 DEF vars, automation
  <2>2. file' \in [Trade -> {"none", "rfq", "active", "claimed", "canceled"}]
    BY <2>1 DEF IInv, Locks
  <2> HIDE DEF IInv
  <2> QED BY <2>1, <2>2, TellsStep
<1> HIDE DEF IInv
<1> QED BY <1>1, <1>2, <1>3, <1>4, <1>5, <1>6, <1>7, <1>8, <1>9, <1>10, <1>11 DEF Next

\* The invariant, in every behaviour of the daemon.
THEOREM Invariant == Spec => []IInv
BY InvInit, InvStep, PTL DEF Spec

\* No two quotes of the own trade are accepted while it goes on, whatever tools
\* overlap or fail, unless a send fails although the message went out, or a
\* tool fails where another works (rfq_trade locks of quote_accept).
THEOREM AcceptsOneQuote == Spec => []OneQuoteAccepted
<1>1. IInv => OneQuoteAccepted
  <2> SUFFICES ASSUME IInv, Clean, ~Over(Own), NEW m \in said, NEW n \in said,
                      m.kind = "accept", m.trade = Own, n.kind = "accept", n.trade = Own
               PROVE  m = n
    BY DEF OneQuoteAccepted
  <2>1. Own \in Listing /\ Good(Own) /\ m \in Claims(Own) /\ n \in Claims(Own)
    BY Distinct DEF Good, Claims
  <2>2. Holds(Own, m) /\ Holds(Own, n)
    BY <2>1 DEF IInv, Sold
  <2>3. m \in Message /\ n \in Message /\ m.bid = n.bid
    BY <2>2 DEF Holds, IInv, Words
  <2> QED BY <2>3 DEF Message
<1> QED BY <1>1, Invariant, PTL

\* No line is sold to two trades that both go on, as long as no tool takes its
\* line again after its trade was canceled (offer_line locks of swap_invite).
THEOREM SellsLineOnce == Spec => []LineSoldOnce
<1>1. IInv => LineSoldOnce
  <2> SUFFICES ASSUME IInv, Clean, "late" \notin seen, side = "maker",
                      NEW m \in said, NEW n \in said, m.kind = "invite", n.kind = "invite",
                      m.bid = n.bid, m.bid # None, ~Over(m.trade), ~Over(n.trade)
               PROVE  m.trade = n.trade
    BY DEF LineSoldOnce
  <2>1. Fits(m) /\ m.bid \in Line
    BY DEF IInv, Words, Fits, Some
  <2>2. /\ m.bid \in Listing /\ m.bid # Own /\ Good(m.bid)
        /\ m \in Claims(m.bid) /\ n \in Claims(m.bid)
    BY <2>1, Distinct DEF Good, Claims
  <2>3. Holds(m.bid, m) /\ Holds(m.bid, n)
    BY <2>2 DEF IInv, Sold
  <2> QED BY <2>3 DEF Holds
<1> QED BY <1>1, Invariant, PTL

\* Without a crash no lock stays behind: what is in flight has a tool at work or
\* its message out, and its trade goes on where tools do not overlap
\* (releaseListingLocksByTrade, and the catch blocks of the tools).
THEOREM LocksAreReturned == Spec => []LocksReturn
<1>1. IInv => LocksReturn
  <2> SUFFICES ASSUME IInv, "crash" \notin seen, NEW l \in Listing,
                      lock[l].state = "in_flight"
               PROVE  \/ \E t \in tools : Locking(t) /\ ListingOf(t) = l
                      \/ /\ \/ l = Own /\ Say("accept", Own, lock[l].bid) \in said
                            \/ l # Own /\ Say("invite", lock[l].trade, l) \in said
                         /\ Over(lock[l].trade) => "overlap" \in seen
    BY DEF LocksReturn
  <2>1. Backed(l)
    BY DEF IInv, Returns
  <2>2. CASE \E t \in tools : Creator(t) /\ ListingOf(t) = l /\ Holds(l, t)
    BY <2>2 DEF IInv, Workers, Role, Creator
  <2>3. ASSUME NEW m \in Claims(l), Holds(l, m)
        PROVE  /\ \/ l = Own /\ Say("accept", Own, lock[l].bid) \in said
                  \/ l # Own /\ Say("invite", lock[l].trade, l) \in said
               /\ Over(lock[l].trade) => "overlap" \in seen
    <3>1. m \in said /\ m \in Message
      BY DEF Claims, IInv, Words
    <3>2. m = Say(m.kind, m.trade, m.bid)
      BY <3>1 DEF Message, Say
    <3>3. Taken(l) => ("overlap" \notin seen => ~Over(lock[l].trade))
      BY DEF IInv, Apart
    <3> QED BY <2>3, <3>1, <3>2, <3>3 DEF Claims, Holds
  <2> QED BY <2>1, <2>2, <2>3 DEF Backed
<1> QED BY <1>1, Invariant, PTL
=============================================================================
