------------------------- MODULE SidechannelProofs -------------------------
(***************************************************************************)
(* The invite-only channel, for any owner and guests, any texts and hops   *)
(* and any number of faults.                                               *)
(*                                                                         *)
(* An invite proves that its guest was invited wherever it turns up, so    *)
(* nobody authorizes a peer that was not (Members, Carried).  A text is    *)
(* dropped as a duplicate only where it was delivered, as long as its      *)
(* sender stays authorized and its reader welcomed (Counted, Pending).     *)
(***************************************************************************)
EXTENDS Sidechannel, SequenceTheorems, TLAPS

\* What is under way from one peer to another, in whatever order.
On(w, l) == {w[l][i] : i \in DOMAIN w[l]}

Types ==
    /\ trusts \in [Peers -> SUBSET Peers] /\ knows \in [Peers -> SUBSET Peers]
    /\ seen \in [Peers -> SUBSET said] /\ said \subseteq Texts
    /\ got \in [Peers -> [Texts -> Nat]]
    /\ wire \in [Wires -> Seq(Message)]
    /\ holds \subseteq Guests

\* A peer delivers what it remembers, once.
Counted == \A p \in Peers, m \in Texts : got[p][m] <= 1 /\ (got[p][m] = 1 => m \in seen[p])

Invited(p) == Owner \in trusts[p]

\* Every peer trusts itself and perhaps the owner; whoever is known, holds an
\* invite or was handed a text was invited.
Members ==
    /\ Invited(Owner)
    /\ \A p \in Peers : trusts[p] \subseteq {p, Owner} /\ \A q \in knows[p] : Invited(q)
    /\ \A g \in holds : Invited(g)
    /\ \A p \in Peers, m \in Texts : got[p][m] # 0 => Invited(p)

\* What a message is, wherever it is.
Carried ==
    \A l \in Wires : \A m \in On(wire, l) :
        /\ m.invite # None => Invited(m.invite)
        /\ IF m.kind = "text" THEN m.id \in said /\ Invited(l[2]) ELSE m.id = None

Pending ==
    \A d \in due :
        /\ d[1] \in said /\ <<d[2], d[3]>> \in Wires /\ d = <<d[1], d[2], d[3]>>
        /\ d[3] \in welcomed /\ Authorized(d[3], d[2])
        /\ \/ got[d[3]][d[1]] = 1
           \/ d[1] \notin seen[d[3]] /\ \E m \in On(wire, <<d[2], d[3]>>) : m.id = d[1]

IInv == Types /\ Counted /\ Members /\ Carried /\ Pending

-----------------------------------------------------------------------------
(* Wires.                                                                    *)

Ways == [Wires -> Seq(Message)]

LEMMA PostOn ==
    ASSUME NEW w \in Ways, NEW p, NEW Q, NEW m \in Message
    PROVE  /\ Post(w, p, Q, m) \in Ways
           /\ \A l \in Wires : On(Post(w, p, Q, m), l) =
                 IF l[1] = p /\ l[2] \in Q THEN On(w, l) \cup {m} ELSE On(w, l)
<1> DEFINE v == Post(w, p, Q, m)
<1>1. ASSUME NEW l \in Wires
      PROVE  /\ v[l] \in Seq(Message)
             /\ On(v, l) = IF l[1] = p /\ l[2] \in Q THEN On(w, l) \cup {m} ELSE On(w, l)
  <2>0. w[l] \in Seq(Message)
    BY DEF Ways
  <2>1. v[l] = IF l[1] = p /\ l[2] \in Q THEN Append(w[l], m) ELSE w[l]
    BY DEF Post
  <2>2. CASE l[1] = p /\ l[2] \in Q
    <3>1. v[l] = Append(w[l], m)
      BY <2>1, <2>2
    <3>2. /\ Append(w[l], m) \in Seq(Message) /\ Len(w[l]) \in Nat
          /\ DOMAIN w[l] = 1 .. Len(w[l])
          /\ DOMAIN Append(w[l], m) = 1 .. Len(w[l]) + 1
          /\ \A i \in 1 .. Len(w[l]) : Append(w[l], m)[i] = w[l][i]
          /\ Append(w[l], m)[Len(w[l]) + 1] = m
      BY <2>0
    <3>3. {Append(w[l], m)[i] : i \in DOMAIN Append(w[l], m)}
              = {w[l][i] : i \in DOMAIN w[l]} \cup {m}
      <4>1. 1 .. Len(w[l]) + 1 = (1 .. Len(w[l])) \cup {Len(w[l]) + 1}
        BY <3>2
      <4> QED BY <3>2, <4>1
    <3> QED BY <2>2, <3>1, <3>2, <3>3 DEF On
  <2>3. CASE ~(l[1] = p /\ l[2] \in Q)
    BY <2>0, <2>1, <2>3 DEF On
  <2> QED BY <2>2, <2>3
<1>2. v \in Ways
  BY <1>1 DEF Post, Ways
<1> QED BY <1>1, <1>2

LEMMA TailOn ==
    ASSUME NEW w \in Ways, NEW k \in Wires, w[k] # <<>>
    PROVE  LET v == [w EXCEPT ![k] = Tail(@)]
           IN  /\ v \in Ways
               /\ Head(w[k]) \in Message /\ Head(w[k]) \in On(w, k)
               /\ \A l \in Wires : On(v, l) \subseteq On(w, l)
               /\ On(w, k) \subseteq On(v, k) \cup {Head(w[k])}
               /\ \A l \in Wires \ {k} : On(v, l) = On(w, l)
<1> DEFINE v == [w EXCEPT ![k] = Tail(@)]
<1>1. w[k] \in Seq(Message)
  BY DEF Ways
<1>2. /\ Head(w[k]) \in Message /\ Tail(w[k]) \in Seq(Message)
      /\ Len(Tail(w[k])) = Len(w[k]) - 1
      /\ \A i \in 1 .. Len(Tail(w[k])) : Tail(w[k])[i] = w[k][i + 1]
  BY <1>1, HeadTailProperties
<1>3. /\ Len(w[k]) \in Nat \ {0} /\ DOMAIN w[k] = 1 .. Len(w[k])
      /\ DOMAIN Tail(w[k]) = 1 .. Len(w[k]) - 1 /\ Head(w[k]) = w[k][1]
  BY <1>1, <1>2
<1>4. v \in Ways /\ v[k] = Tail(w[k]) /\ \A l \in Wires \ {k} : v[l] = w[l]
  BY <1>2 DEF Ways
<1>5. Head(w[k]) \in On(w, k)
  BY <1>3 DEF On
<1>6. \A l \in Wires \ {k} : On(v, l) = On(w, l)
  BY <1>4 DEF On
<1>7. On(v, k) \subseteq On(w, k)
  <2> SUFFICES ASSUME NEW i \in 1 .. Len(w[k]) - 1 PROVE Tail(w[k])[i] \in On(w, k)
    BY <1>3, <1>4 DEF On
  <2>1. i + 1 \in DOMAIN w[k] /\ Tail(w[k])[i] = w[k][i + 1]
    BY <1>2, <1>3
  <2> QED BY <2>1 DEF On
<1>8. On(w, k) \subseteq On(v, k) \cup {Head(w[k])}
  <2> SUFFICES ASSUME NEW i \in 1 .. Len(w[k]), i # 1 PROVE w[k][i] \in On(v, k)
    BY <1>3 DEF On
  <2>1. i - 1 \in DOMAIN Tail(w[k]) /\ Tail(w[k])[i - 1] = w[k][i]
    BY <1>2, <1>3
  <2> QED BY <1>4, <2>1 DEF On
<1>9. \A l \in Wires : On(v, l) \subseteq On(w, l)
  <2> HIDE DEF v
  <2> QED BY <1>6, <1>7
<1> QED BY <1>2, <1>4, <1>5, <1>6, <1>8, <1>9

-----------------------------------------------------------------------------
(* What a step may leave as it is.                                           *)

LEMMA CarriedKept ==
    ASSUME IInv, said \subseteq said',
           \A q : Owner \in trusts[q] => Owner \in trusts'[q],
           \A l \in Wires : On(wire', l) \subseteq On(wire, l)
    PROVE  Carried'
  BY DEF IInv, Carried, Invited

LEMMA PendingKept ==
    ASSUME IInv, due' \subseteq due, said \subseteq said',
           \A d \in due' : /\ d[3] \in welcomed' /\ Authorized(d[3], d[2])'
                           /\ got'[d[3]] = got[d[3]] /\ seen'[d[3]] = seen[d[3]]
                           /\ On(wire, <<d[2], d[3]>>) \subseteq On(wire', <<d[2], d[3]>>)
    PROVE  Pending'
<1> SUFFICES ASSUME NEW d \in due'
             PROVE  /\ d[1] \in said' /\ <<d[2], d[3]>> \in Wires /\ d = <<d[1], d[2], d[3]>>
                    /\ d[3] \in welcomed' /\ Authorized(d[3], d[2])'
                    /\ \/ got'[d[3]][d[1]] = 1
                       \/ /\ d[1] \notin seen'[d[3]]
                          /\ \E m \in On(wire', <<d[2], d[3]>>) : m.id = d[1]
  BY DEF Pending
<1>1. d \in due
  OBVIOUS
<1> QED BY <1>1 DEF IInv, Pending

\* A step of joins: members, and what they know, only grow.
LEMMA MembersGrow ==
    ASSUME IInv, NEW g \in Peers, OwnerJoins \/ StrangerJoins(g) \/ (g \in Guests /\ GuestJoins(g))
    PROVE  IInv'
<1>0. /\ UNCHANGED <<expired, seen, got, links, session, wire, said, due>>
      /\ welcomed \subseteq welcomed'
      /\ \/ UNCHANGED <<trusts, knows, holds>>
         \/ /\ g \in Guests
            /\ holds' = holds \cup {g}
            /\ trusts' = [trusts EXCEPT ![g] = @ \cup {Owner}]
            /\ knows' = [knows EXCEPT ![g] = @ \cup {Owner}]
  BY DEF OwnerJoins, StrangerJoins, GuestJoins, keys
<1>1. Owner \in Peers /\ Guests \subseteq Peers
  BY DEF Peers
<1>2. /\ trusts' \in [Peers -> SUBSET Peers] /\ knows' \in [Peers -> SUBSET Peers]
      /\ holds' \subseteq Guests
      /\ \A p \in Peers : /\ trusts[p] \subseteq trusts'[p] /\ trusts'[p] \subseteq trusts[p] \cup {Owner}
                          /\ knows[p] \subseteq knows'[p] /\ knows'[p] \subseteq knows[p] \cup {Owner}
      /\ holds' \subseteq holds \cup {g} /\ (holds' # holds => Owner \in trusts'[g])
  <2>1. CASE UNCHANGED <<trusts, knows, holds>>
    BY <2>1 DEF IInv, Types
  <2>2. CASE /\ g \in Guests
             /\ holds' = holds \cup {g}
             /\ trusts' = [trusts EXCEPT ![g] = @ \cup {Owner}]
             /\ knows' = [knows EXCEPT ![g] = @ \cup {Owner}]
    <3>1. trusts \in [Peers -> SUBSET Peers] /\ knows \in [Peers -> SUBSET Peers]
      BY DEF IInv, Types
    <3>2. trusts' \in [Peers -> SUBSET Peers] /\ knows' \in [Peers -> SUBSET Peers]
      BY <1>1, <2>2, <3>1
    <3>3. \A p \in Peers : /\ trusts'[p] = IF p = g THEN trusts[p] \cup {Owner} ELSE trusts[p]
                           /\ knows'[p] = IF p = g THEN knows[p] \cup {Owner} ELSE knows[p]
      BY <2>2, <3>1
    <3> QED BY <1>1, <2>2, <3>2, <3>3 DEF IInv, Types
  <2> QED BY <1>0, <2>1, <2>2
<1>3. Types'
  BY <1>0, <1>2 DEF IInv, Types
<1>4. Counted'
  BY <1>0 DEF IInv, Counted
<1>5. Members'
  <2>1. Invited(Owner)' /\ \A p \in Peers : Invited(p) => Invited(p)'
    BY <1>1, <1>2 DEF IInv, Members, Invited
  <2>2. \A p \in Peers : trusts'[p] \subseteq {p, Owner}
    BY <1>2 DEF IInv, Members
  <2>3. \A p \in Peers : \A q \in knows'[p] : Invited(q)'
    BY <1>2, <2>1 DEF IInv, Members, Types
  <2>4. \A h \in holds' : Invited(h)'
    BY <1>1, <1>2, <2>1 DEF IInv, Members, Types, Invited
  <2>5. \A p \in Peers, m \in Texts : got'[p][m] # 0 => Invited(p)'
    BY <1>0, <2>1 DEF IInv, Members
  <2> QED BY <2>1, <2>2, <2>3, <2>4, <2>5 DEF Members
<1>6. Carried'
  <2>1. \A l \in Wires : l[2] \in Peers
    BY DEF Wires
  <2>2. \A l \in Wires : \A m \in On(wire, l) : m.invite # None => m.invite \in Peers
    <3>1. \A l \in Wires : wire[l] \in Seq(Message)
      BY DEF IInv, Types
    <3>2. \A l \in Wires : On(wire, l) \subseteq Message
      BY <3>1, ElementOfSeq, LenProperties DEF On
    <3> QED BY <1>1, <3>2 DEF Message
  <2> QED BY <1>0, <1>2, <2>1, <2>2 DEF IInv, Carried, Invited, On
<1>7. Pending'
  <2>1. \A d \in due : d[2] \in Peers /\ d[3] \in Peers
    BY DEF IInv, Pending, Wires
  <2>2. \A d \in due : Authorized(d[3], d[2])'
    BY <1>0, <1>2, <2>1 DEF IInv, Pending, Authorized
  <2>3. \A d \in due : d[3] \in welcomed'
    BY <1>0 DEF IInv, Pending
  <2> QED BY <1>0, <2>2, <2>3, PendingKept DEF On
<1> QED BY <1>3, <1>4, <1>5, <1>6, <1>7 DEF IInv

-----------------------------------------------------------------------------
(* Steps that add to the wires.                                              *)

\* A control message tells of an invited peer, or of none.
Control(m) ==
    /\ m \in Message /\ m.kind # "text" /\ m.id = None
    /\ m.invite # None => Invited(m.invite)

\* v is w with control messages added.
Adds(w, v) ==
    /\ v \in Ways
    /\ \A l \in Wires : /\ On(w, l) \subseteq On(v, l)
                        /\ \A m \in On(v, l) : m \in On(w, l) \/ Control(m)

LEMMA AddsPost ==
    ASSUME NEW w \in Ways, NEW v, Adds(w, v), NEW p, NEW Q, NEW m, Control(m)
    PROVE  Adds(w, Post(v, p, Q, m))
<1>1. v \in Ways /\ m \in Message
  BY DEF Adds, Control
<1>2. /\ Post(v, p, Q, m) \in Ways
      /\ \A l \in Wires : On(Post(v, p, Q, m), l) =
            IF l[1] = p /\ l[2] \in Q THEN On(v, l) \cup {m} ELSE On(v, l)
  BY <1>1, PostOn
<1> QED BY <1>2 DEF Adds

LEMMA WelcomeAndAuth ==
    ASSUME IInv
    PROVE  /\ Control(Welcome)
           /\ \A p \in holds : Control(Auth(p))
<1>1. RelayTtl \in 0 .. RelayTtl /\ None \notin Guests
  BY SidechannelAssumption
<1> QED BY <1>1 DEF IInv, Types, Members, Control, Welcome, Auth, Message

LEMMA AddsKeeps ==
    ASSUME IInv, Adds(wire, wire'),
           UNCHANGED <<keys, knows, holds, welcomed, seen, got, said, due>>
    PROVE  IInv'
<1>1. Types'
  BY DEF IInv, Types, Adds, Ways, keys
<1>2. Counted' /\ Members'
  BY DEF IInv, Counted, Members, Invited, keys
<1>3. Carried'
  BY DEF IInv, Carried, Adds, Control, Invited, keys
<1>4. Pending'
  <2>1. \A d \in due : /\ <<d[2], d[3]>> \in Wires /\ d[3] \in welcomed /\ Authorized(d[3], d[2])
    BY DEF IInv, Pending
  <2>2. \A d \in due : Authorized(d[3], d[2])'
    BY <2>1 DEF Authorized, keys
  <2>3. \A d \in due : On(wire, <<d[2], d[3]>>) \subseteq On(wire', <<d[2], d[3]>>)
    BY <2>1 DEF Adds
  <2> QED BY <2>1, <2>2, <2>3, PendingKept
<1> QED BY <1>1, <1>2, <1>3, <1>4 DEF IInv

LEMMA OpensStep ==
    ASSUME IInv, NEW p \in Peers, NEW q \in Peers, Opens(p, q)
    PROVE  IInv'
<1> DEFINE w1 == SendWelcome(wire, p, q)
           w2 == SendAuth(w1, p, q)
           w3 == SendWelcome(w2, q, p)
           w4 == SendAuth(w3, q, p)
<1>0. wire \in Ways /\ Adds(wire, wire)
  BY DEF IInv, Types, Ways, Adds
<1>1. Adds(wire, w1)
  BY <1>0, AddsPost, WelcomeAndAuth DEF SendWelcome
<1>2. Adds(wire, w2)
  <2> HIDE DEF w1
  <2> QED BY <1>0, <1>1, AddsPost, WelcomeAndAuth DEF SendAuth
<1>3. Adds(wire, w3)
  <2> HIDE DEF w2
  <2> QED BY <1>0, <1>2, AddsPost, WelcomeAndAuth DEF SendWelcome
<1>4. Adds(wire, w4)
  <2> HIDE DEF w3
  <2> QED BY <1>0, <1>3, AddsPost, WelcomeAndAuth DEF SendAuth
<1>5. /\ wire' = w4
      /\ UNCHANGED <<keys, knows, holds, welcomed, seen, got, said, due>>
  BY DEF Opens
<1> QED BY <1>4, <1>5, AddsKeeps

LEMMA PingsStep ==
    ASSUME IInv, NEW g \in Guests, Pings(g)
    PROVE  IInv'
<1>1. /\ g \in holds /\ wire' = Post(wire, g, Open(g), Auth(g))
      /\ UNCHANGED <<keys, knows, holds, welcomed, seen, got, said, due>>
  BY DEF Pings
<1>2. wire \in Ways /\ Adds(wire, wire)
  BY DEF IInv, Types, Ways, Adds
<1>3. Adds(wire, wire')
  BY <1>1, <1>2, AddsPost, WelcomeAndAuth
<1> QED BY <1>1, <1>3, AddsKeeps

LEMMA SaysStep ==
    ASSUME IInv, NEW p \in Peers, NEW m \in Texts, Says(p, m)
    PROVE  IInv'
<1>1. PICK inv \in {None} \cup ({p} \cap holds) :
         wire' = Post(wire, p, Readers(p), Text(m, inv, RelayTtl))
  BY DEF Says
<1> DEFINE x == Text(m, inv, RelayTtl)
<1>2. /\ m \notin said /\ said' = said \cup {m}
      /\ seen' = [seen EXCEPT ![p] = @ \cup {m}]
      /\ due' = due \cup {<<m, p, q>> : q \in Ready(p)}
      /\ UNCHANGED <<keys, knows, holds, welcomed, got>>
  BY DEF Says
<1>3. x \in Message /\ x.kind = "text" /\ x.id = m /\ x.invite = inv
  BY SidechannelAssumption DEF IInv, Types, Text, Message
<1>4. inv # None => Invited(inv)
  BY DEF IInv, Members
<1>5. wire \in Ways
  BY DEF IInv, Types, Ways
<1> HIDE DEF x
<1>6. /\ wire' \in Ways
      /\ \A l \in Wires : On(wire', l) =
            IF l[1] = p /\ l[2] \in Readers(p) THEN On(wire, l) \cup {x} ELSE On(wire, l)
  BY <1>1, <1>3, <1>5, PostOn DEF x
<1>7. \A q \in Readers(p) : q \in Peers /\ q # p /\ Invited(q) /\ <<p, q>> \in Wires
  <2> SUFFICES ASSUME NEW q \in Readers(p)
               PROVE  q \in Peers /\ q # p /\ Invited(q) /\ <<p, q>> \in Wires
    OBVIOUS
  <2>1. q \in Peers /\ q # p /\ Authorized(p, q)
    BY DEF Readers, Open
  <2>2. Invited(q)
    BY <2>1 DEF IInv, Members, Authorized
  <2> QED BY <2>1, <2>2 DEF Wires
<1>8. Types'
  BY <1>2, <1>6 DEF IInv, Types, Ways, keys
<1>9. Counted' /\ Members'
  BY <1>2 DEF IInv, Types, Counted, Members, Invited, keys
<1>10. Carried'
  BY <1>2, <1>3, <1>4, <1>6, <1>7 DEF IInv, Carried, Invited, keys
<1>11. Pending'
  <2>1. ASSUME NEW d \in due
        PROVE  /\ d[1] \in said' /\ <<d[2], d[3]>> \in Wires /\ d = <<d[1], d[2], d[3]>>
               /\ d[3] \in welcomed' /\ Authorized(d[3], d[2])'
               /\ \/ got'[d[3]][d[1]] = 1
                  \/ /\ d[1] \notin seen'[d[3]]
                     /\ \E n \in On(wire', <<d[2], d[3]>>) : n.id = d[1]
    <3>1. /\ d[1] \in said /\ <<d[2], d[3]>> \in Wires /\ d = <<d[1], d[2], d[3]>>
          /\ d[3] \in welcomed /\ Authorized(d[3], d[2])
          /\ \/ got[d[3]][d[1]] = 1
             \/ d[1] \notin seen[d[3]] /\ \E n \in On(wire, <<d[2], d[3]>>) : n.id = d[1]
      BY DEF IInv, Pending
    <3>2. d[1] # m
      BY <1>2, <3>1
    <3>3. d[1] \notin seen[d[3]] => d[1] \notin seen'[d[3]]
      BY <1>2, <3>2 DEF IInv, Types
    <3>4. On(wire, <<d[2], d[3]>>) \subseteq On(wire', <<d[2], d[3]>>)
      BY <1>6, <3>1
    <3>5. Authorized(d[3], d[2])'
      BY <1>2, <3>1 DEF Authorized, keys
    <3> QED BY <1>2, <3>1, <3>3, <3>4, <3>5
  <2>2. ASSUME NEW q \in Ready(p)
        PROVE  /\ <<p, q>> \in Wires /\ q \in welcomed' /\ Authorized(q, p)'
               /\ m \notin seen'[q] /\ x \in On(wire', <<p, q>>)
    <3>1. q \in Readers(p) /\ Authorized(q, p) /\ q \in welcomed
      BY DEF Ready
    <3>2. m \notin seen'[q]
      BY <1>2, <1>7, <3>1 DEF IInv, Types
    <3>3. x \in On(wire', <<p, q>>)
      BY <1>6, <1>7, <3>1
    <3>4. Authorized(q, p)'
      BY <1>2, <3>1 DEF Authorized, keys
    <3> QED BY <1>2, <1>7, <3>1, <3>2, <3>3, <3>4
  <2>3. \A q \in Ready(p) :
           \E n \in On(wire', <<p, q>>) : n.id = m
    BY <1>3, <2>2
  <2> SUFFICES ASSUME NEW d \in due'
               PROVE  /\ d[1] \in said' /\ <<d[2], d[3]>> \in Wires /\ d = <<d[1], d[2], d[3]>>
                      /\ d[3] \in welcomed' /\ Authorized(d[3], d[2])'
                      /\ \/ got'[d[3]][d[1]] = 1
                         \/ /\ d[1] \notin seen'[d[3]]
                            /\ \E n \in On(wire', <<d[2], d[3]>>) : n.id = d[1]
    BY DEF Pending
  <2>4. CASE d \in due
    BY <2>1, <2>4
  <2>5. CASE d \notin due
    <3>1. PICK q \in Ready(p) : d = <<m, p, q>>
      BY <1>2, <2>5
    <3>2. d[1] = m /\ d[2] = p /\ d[3] = q
      BY <3>1
    <3>3. /\ <<p, q>> \in Wires /\ q \in welcomed' /\ Authorized(q, p)'
          /\ m \notin seen'[q] /\ \E n \in On(wire', <<p, q>>) : n.id = m
      BY <2>2, <2>3
    <3>4. Authorized(d[3], d[2])'
      BY <3>2, <3>3
    <3> QED BY <1>2, <3>1, <3>2, <3>3, <3>4
  <2> QED BY <2>4, <2>5
<1> QED BY <1>8, <1>9, <1>10, <1>11 DEF IInv

-----------------------------------------------------------------------------
(* A message is heard.                                                       *)

LEMMA HearsStep ==
    ASSUME IInv, NEW k \in Wires, Hears(k[1], k[2])
    PROVE  IInv'
<1> DEFINE p == k[1]
           q == k[2]
           m == Head(wire[k])
           rest == [wire EXCEPT ![k] = Tail(@)]
           taken == Admitted(p, q, m) /\ Fresh(q, m)
           heard == taken /\ (q \in welcomed \/ Greets(m)) /\ m.kind = "text"
<1>0. /\ p \in Peers /\ q \in Peers /\ p # q /\ k = <<p, q>>
      /\ \A l \in Wires : l[1] \in Peers /\ l[2] \in Peers /\ l = <<l[1], l[2]>>
  BY DEF Wires
<1>1. /\ wire[k] # <<>>
      /\ knows' = Remembers(p, q, m)
      /\ seen' = IF Notes(p, q, m) THEN [seen EXCEPT ![q] = @ \cup {m.id}] ELSE seen
      /\ welcomed' = IF taken /\ Greets(m) THEN welcomed \cup {q} ELSE welcomed
      /\ got' = IF heard THEN [got EXCEPT ![q][m.id] = @ + 1] ELSE got
      /\ wire' = IF heard THEN Relays(rest, p, q, m) ELSE rest
      /\ UNCHANGED <<keys, joined, holds, links, session, said, due, faults>>
  BY <1>0 DEF Hears
<1>2. wire \in Ways
  BY DEF IInv, Types, Ways
<1>3. /\ rest \in Ways /\ m \in Message /\ m \in On(wire, k)
      /\ \A l \in Wires : On(rest, l) \subseteq On(wire, l)
      /\ On(wire, k) \subseteq On(rest, k) \cup {m}
      /\ \A l \in Wires \ {k} : On(rest, l) = On(wire, l)
  BY <1>1, <1>2, TailOn
<1> HIDE DEF p, q, m, rest
<1>4. /\ m.invite # None => Invited(m.invite)
      /\ m.kind = "text" => m.id \in said /\ Invited(q)
      /\ m.kind # "text" => m.id = None
      /\ said \subseteq Texts
  BY <1>3 DEF IInv, Carried, Types, q
<1>5. /\ knows' \in [Peers -> SUBSET Peers]
      /\ \A x \in Peers : /\ knows[x] \subseteq knows'[x]
                          /\ \A y \in knows'[x] \ knows[x] : Invited(y)
  <2>1. ShowsInvite(p, q, m) => Invited(p)
    <3>1. ASSUME ShowsInvite(p, q, m) PROVE Invited(p)
      <4>1. m.invite = p
        BY <3>1 DEF ShowsInvite
      <4>2. p \in Guests => p # None
        BY SidechannelAssumption
      <4>3. p = Owner \/ p \in Guests
        BY <1>0 DEF Peers
      <4> QED BY <1>4, <4>1, <4>2, <4>3 DEF IInv, Members
    <3> QED BY <3>1
  <2>2. knows \in [Peers -> SUBSET Peers]
    BY DEF IInv, Types
  <2>3. knows' = knows \/ (ShowsInvite(p, q, m) /\ knows' = [knows EXCEPT ![q] = @ \cup {p}])
    BY <1>1 DEF Remembers
  <2>4. CASE knows' = knows
    BY <2>2, <2>4
  <2>5. CASE ShowsInvite(p, q, m) /\ knows' = [knows EXCEPT ![q] = @ \cup {p}]
    <3>1. \A x \in Peers : knows'[x] = IF x = q THEN knows[x] \cup {p} ELSE knows[x]
      BY <1>0, <2>2, <2>5
    <3> QED BY <1>0, <2>1, <2>2, <2>5, <3>1
  <2> QED BY <2>3, <2>4, <2>5
<1>6. /\ \A l \in Wires : /\ On(rest, l) \subseteq On(wire', l)
                          /\ \A n \in On(wire', l) :
                                \/ n \in On(rest, l)
                                \/ /\ heard /\ l[2] \in Readers(q) /\ n \in Message
                                   /\ n.kind = m.kind /\ n.id = m.id /\ n.invite = m.invite
      /\ wire' \in Ways
  <2>1. CASE heard /\ m.ttl > 0
    <3> DEFINE n == [m EXCEPT !.ttl = @ - 1]
    <3>1. n \in Message /\ n.kind = m.kind /\ n.id = m.id /\ n.invite = m.invite
      <4>1. m.ttl \in 0 .. RelayTtl /\ RelayTtl \in Nat
        BY <1>3, SidechannelAssumption DEF Message
      <4>2. m.ttl - 1 \in 0 .. RelayTtl
        BY <2>1, <4>1
      <4> QED BY <1>3, <4>2 DEF Message
    <3>2. wire' = Post(rest, q, Readers(q) \ {p}, n)
      BY <1>1, <2>1 DEF Relays
    <3> DEFINE Q == Readers(q) \ {p}
    <3> HIDE DEF n, heard, Q
    <3>3. /\ Post(rest, q, Q, n) \in Ways
          /\ \A l \in Wires : On(Post(rest, q, Q, n), l) =
                IF l[1] = q /\ l[2] \in Q THEN On(rest, l) \cup {n} ELSE On(rest, l)
      BY <1>3, <3>1, PostOn
    <3>4. wire' = Post(rest, q, Q, n) /\ Q \subseteq Readers(q)
      BY <3>2 DEF Q
    <3>5. \A l \in Wires : On(wire', l) =
             IF l[1] = q /\ l[2] \in Q THEN On(rest, l) \cup {n} ELSE On(rest, l)
      BY <3>3, <3>4
    <3>6. wire' \in Ways
      BY <3>3, <3>4
    <3> QED BY <2>1, <3>1, <3>4, <3>5, <3>6
  <2>2. CASE ~(heard /\ m.ttl > 0)
    <3>1. wire' = rest
      BY <1>1, <2>2 DEF Relays
    <3> QED BY <1>3, <3>1
  <2> QED BY <2>1, <2>2
<1>7. /\ seen' \in [Peers -> SUBSET said] /\ got' \in [Peers -> [Texts -> Nat]]
      /\ \A x \in Peers : /\ seen[x] \subseteq seen'[x]
                          /\ x # q => seen'[x] = seen[x] /\ got'[x] = got[x]
      /\ \A y : y # m.id => (y \in seen'[q] <=> y \in seen[q])
      /\ \A y \in Texts : y # m.id => got'[q][y] = got[q][y]
      /\ heard => m.id \notin seen[q] /\ m.id \in seen'[q] /\ got'[q][m.id] = got[q][m.id] + 1
      /\ ~heard => got' = got
  <2>1. seen \in [Peers -> SUBSET said] /\ got \in [Peers -> [Texts -> Nat]]
    BY DEF IInv, Types
  <2>2. Notes(p, q, m) => m.id \in said
    BY <1>4 DEF Notes
  <2>3. heard => Notes(p, q, m) /\ m.id \in Texts /\ m.id \notin seen[q]
    BY <1>4 DEF Notes, Fresh
  <2>4. /\ seen' \in [Peers -> SUBSET said]
        /\ \A x \in Peers : seen[x] \subseteq seen'[x] /\ (x # q => seen'[x] = seen[x])
        /\ \A y : y # m.id => (y \in seen'[q] <=> y \in seen[q])
        /\ Notes(p, q, m) => m.id \in seen'[q]
    <3>1. CASE Notes(p, q, m)
      <4>1. seen' = [seen EXCEPT ![q] = @ \cup {m.id}] /\ m.id \in said
        BY <1>1, <2>2, <3>1
      <4>2. \A x \in Peers : seen'[x] = IF x = q THEN seen[x] \cup {m.id} ELSE seen[x]
        BY <1>0, <2>1, <4>1
      <4> QED BY <1>0, <2>1, <4>1, <4>2
    <3>2. CASE ~Notes(p, q, m)
      BY <1>1, <2>1, <3>2
    <3> QED BY <3>1, <3>2
  <2> HIDE DEF heard
  <2>5. CASE heard
    <3>1. got' = [got EXCEPT ![q][m.id] = @ + 1]
      BY <1>1, <2>5
    <3>2. got[q] \in [Texts -> Nat] /\ m.id \in Texts
      BY <1>0, <2>1, <2>3, <2>5
    <3>3. \A x \in Peers : got'[x] = IF x = q THEN [got[q] EXCEPT ![m.id] = @ + 1] ELSE got[x]
      BY <1>0, <2>1, <3>1
    <3>4. /\ got'[q] \in [Texts -> Nat]
          /\ \A y \in Texts : got'[q][y] = IF y = m.id THEN got[q][y] + 1 ELSE got[q][y]
      BY <1>0, <3>2, <3>3
    <3>5. got' \in [Peers -> [Texts -> Nat]]
      BY <1>0, <2>1, <3>1, <3>3, <3>4
    <3> QED BY <2>3, <2>4, <2>5, <3>2, <3>3, <3>4, <3>5
  <2>6. CASE ~heard
    <3>1. got' = got
      BY <1>1, <2>6
    <3> QED BY <2>1, <2>4, <2>6, <3>1
  <2> QED BY <2>5, <2>6
<1> HIDE DEF taken, heard
<1>8. UNCHANGED <<trusts, expired, holds, said, due>> /\ welcomed \subseteq welcomed'
  BY <1>1 DEF keys
<1>9. Types'
  BY <1>5, <1>6, <1>7, <1>8 DEF IInv, Types, Ways
<1>10. Counted'
  <2> SUFFICES ASSUME NEW x \in Peers, NEW y \in Texts
               PROVE  got'[x][y] <= 1 /\ (got'[x][y] = 1 => y \in seen'[x])
    BY DEF Counted
  <2>1. got[x][y] \in Nat /\ got[x][y] <= 1 /\ (got[x][y] = 1 => y \in seen[x])
    BY DEF IInv, Types, Counted
  <2>2. CASE x = q /\ y = m.id /\ heard
    <3>1. /\ y \notin seen[x] /\ y \in seen'[x] /\ got'[x][y] = got[x][y] + 1
      BY <1>7, <2>2, Zenon
    <3>2. got[x][y] = 0
      <4>1. got[x][y] # 1
        BY <2>1, <3>1
      <4> QED BY <2>1, <4>1
    <3> QED BY <3>1, <3>2
  <2>3. CASE ~(x = q /\ y = m.id /\ heard)
    <3>1. got'[x][y] = got[x][y]
      BY <1>7, <2>3
    <3> QED BY <1>7, <2>1, <3>1
  <2> QED BY <2>2, <2>3
<1>11. Members'
  <2>1. \A x \in Peers, y \in Texts : got'[x][y] # 0 => Invited(x)
    <3> SUFFICES ASSUME NEW x \in Peers, NEW y \in Texts, got'[x][y] # 0 PROVE Invited(x)
      OBVIOUS
    <3>1. CASE x = q /\ heard
      BY <1>4, <3>1 DEF heard
    <3>2. CASE ~(x = q /\ heard)
      <4>1. got'[x] = got[x]
        BY <1>7, <3>2
      <4> QED BY <4>1 DEF IInv, Members
    <3> QED BY <3>1, <3>2
  <2> QED BY <1>5, <1>8, <2>1 DEF IInv, Members, Invited
<1>12. Carried'
  <2>1. \A x \in Readers(q) : Invited(x)
    <3> SUFFICES ASSUME NEW x \in Readers(q) PROVE Invited(x)
      OBVIOUS
    <3>1. x \in Peers /\ x # q /\ Authorized(q, x)
      BY DEF Readers, Open
    <3> QED BY <1>0, <3>1 DEF IInv, Members, Authorized
  <2> SUFFICES ASSUME NEW l \in Wires, NEW n \in On(wire', l)
               PROVE  /\ n.invite # None => Invited(n.invite)
                      /\ IF n.kind = "text" THEN n.id \in said /\ Invited(l[2]) ELSE n.id = None
    BY <1>8 DEF Carried, Invited
  <2>2. CASE n \in On(wire, l)
    BY <2>2 DEF IInv, Carried
  <2>3. CASE n \notin On(wire, l)
    <3>1. /\ heard /\ l[2] \in Readers(q)
          /\ n.kind = m.kind /\ n.id = m.id /\ n.invite = m.invite
      BY <1>3, <1>6, <2>3
    <3> QED BY <1>4, <2>1, <3>1
  <2> QED BY <2>2, <2>3
<1>13. Pending'
  <2> SUFFICES ASSUME NEW d \in due
               PROVE  /\ d[1] \in said' /\ <<d[2], d[3]>> \in Wires /\ d = <<d[1], d[2], d[3]>>
                      /\ d[3] \in welcomed' /\ Authorized(d[3], d[2])'
                      /\ \/ got'[d[3]][d[1]] = 1
                         \/ /\ d[1] \notin seen'[d[3]]
                            /\ \E n \in On(wire', <<d[2], d[3]>>) : n.id = d[1]
    BY <1>8 DEF Pending
  <2>1. /\ d[1] \in said /\ <<d[2], d[3]>> \in Wires /\ d = <<d[1], d[2], d[3]>>
        /\ d[3] \in welcomed /\ Authorized(d[3], d[2])
        /\ \/ got[d[3]][d[1]] = 1
           \/ d[1] \notin seen[d[3]] /\ \E n \in On(wire, <<d[2], d[3]>>) : n.id = d[1]
    BY DEF IInv, Pending
  <2>2. d[2] \in Peers /\ d[3] \in Peers /\ d[1] \in Texts
    BY <1>0, <1>4, <2>1 DEF Wires
  <2>3. Authorized(d[3], d[2])'
    BY <1>5, <1>8, <2>1, <2>2 DEF Authorized
  <2>4. got[d[3]][d[1]] \in Nat /\ (got[d[3]][d[1]] = 1 => d[1] \in seen[d[3]])
        /\ got[d[3]][d[1]] <= 1
    BY <2>2 DEF IInv, Types, Counted
  <2>5. CASE got[d[3]][d[1]] = 1
    <3>1. got'[d[3]][d[1]] = 1
      BY <1>7, <2>2, <2>4, <2>5
    <3> QED BY <1>8, <2>1, <2>3, <3>1
  <2>6. CASE got[d[3]][d[1]] # 1
    <3>1. got[d[3]][d[1]] = 0
      BY <2>4, <2>6
    <3>2. PICK n \in On(wire, <<d[2], d[3]>>) : n.id = d[1]
      BY <2>1, <2>6
    <3>3. CASE heard /\ d[3] = q /\ d[1] = m.id
      <4>1. got'[d[3]][d[1]] = 1
        BY <1>7, <3>1, <3>3
      <4> QED BY <1>8, <2>1, <2>3, <4>1
    <3>4. CASE d[3] = q /\ d[1] = m.id /\ ~heard
      <4>0. m.kind = "text"
        BY <1>4, <2>2, <3>4, SidechannelAssumption
      <4>1. ~Admitted(p, q, m)
        BY <2>1, <2>6, <3>4, <4>0 DEF Fresh, taken, heard
      <4>2. d[2] # p
        BY <2>1, <3>4, <4>1 DEF Admitted
      <4>3. seen' = seen
        BY <1>1, <4>1 DEF Notes
      <4>4. n \in On(wire', <<d[2], d[3]>>)
        <5>1. <<d[2], d[3]>> # k
          BY <1>0, <4>2
        <5> QED BY <1>3, <1>6, <2>1, <3>2, <5>1
      <4> QED BY <1>8, <2>1, <2>3, <2>6, <3>2, <4>3, <4>4
    <3>5. CASE ~(d[3] = q /\ d[1] = m.id)
      <4>1. d[1] \notin seen'[d[3]]
        BY <1>7, <2>1, <2>2, <2>6, <3>5
      <4>2. n \in On(wire', <<d[2], d[3]>>)
        <5>1. CASE <<d[2], d[3]>> = k
          <6>1. d[3] = q
            BY <1>0, <5>1
          <6>2. n # m
            BY <3>2, <3>5, <6>1
          <6> QED BY <1>3, <1>6, <2>1, <3>2, <5>1, <6>2
        <5>2. CASE <<d[2], d[3]>> # k
          BY <1>3, <1>6, <2>1, <3>2, <5>2
        <5> QED BY <5>1, <5>2
      <4> QED BY <1>8, <2>1, <2>3, <3>2, <4>1, <4>2
    <3> QED BY <3>3, <3>4, <3>5
  <2> QED BY <2>5, <2>6
<1> QED BY <1>9, <1>10, <1>11, <1>12, <1>13 DEF IInv

-----------------------------------------------------------------------------
(* Steps that take away.                                                     *)

LEMMA DropsStep ==
    ASSUME IInv, NEW k \in Wires, Drops(k[1], k[2])
    PROVE  IInv'
<1> DEFINE m == Head(wire[k])
<1>0. k = <<k[1], k[2]>> /\ \A l \in Wires : l = <<l[1], l[2]>>
  BY DEF Wires
<1>1. /\ wire[k] # <<>> /\ wire' = [wire EXCEPT ![k] = Tail(@)]
      /\ due' = due \ {<<m.id, k[1], k[2]>>}
      /\ UNCHANGED <<keys, knows, holds, welcomed, seen, got, said>>
  BY <1>0 DEF Drops
<1>2. wire \in Ways
  BY DEF IInv, Types, Ways
<1>3. /\ wire' \in Ways
      /\ \A l \in Wires : On(wire', l) \subseteq On(wire, l)
      /\ On(wire, k) \subseteq On(wire', k) \cup {m}
      /\ \A l \in Wires \ {k} : On(wire', l) = On(wire, l)
  BY <1>1, <1>2, TailOn
<1> HIDE DEF m
<1>4. Types' /\ Counted' /\ Members'
  BY <1>1, <1>3 DEF IInv, Types, Ways, Counted, Members, Invited, keys
<1>5. Carried'
  BY <1>1, <1>3, CarriedKept DEF keys
<1>6. Pending'
  <2> SUFFICES ASSUME NEW d \in due'
               PROVE  /\ d[1] \in said' /\ <<d[2], d[3]>> \in Wires /\ d = <<d[1], d[2], d[3]>>
                      /\ d[3] \in welcomed' /\ Authorized(d[3], d[2])'
                      /\ \/ got'[d[3]][d[1]] = 1
                         \/ /\ d[1] \notin seen'[d[3]]
                            /\ \E n \in On(wire', <<d[2], d[3]>>) : n.id = d[1]
    BY DEF Pending
  <2>1. /\ d[1] \in said /\ <<d[2], d[3]>> \in Wires /\ d = <<d[1], d[2], d[3]>>
        /\ d[3] \in welcomed /\ Authorized(d[3], d[2])
        /\ \/ got[d[3]][d[1]] = 1
           \/ d[1] \notin seen[d[3]] /\ \E n \in On(wire, <<d[2], d[3]>>) : n.id = d[1]
    BY <1>1 DEF IInv, Pending
  <2>2. Authorized(d[3], d[2])'
    BY <1>1, <2>1 DEF Authorized, keys
  <2>3. ASSUME NEW n \in On(wire, <<d[2], d[3]>>), n.id = d[1]
        PROVE  n \in On(wire', <<d[2], d[3]>>)
    <3>1. CASE <<d[2], d[3]>> = k
      <4>1. n # m
        BY <1>1, <2>1, <2>3, <3>1
      <4> QED BY <1>3, <2>1, <3>1, <4>1
    <3>2. CASE <<d[2], d[3]>> # k
      BY <1>3, <2>1, <3>2
    <3> QED BY <3>1, <3>2
  <2> QED BY <1>1, <2>1, <2>2, <2>3
<1> QED BY <1>4, <1>5, <1>6 DEF IInv

\* A peer leaves, a connection breaks, a process restarts: for whoever is not in
\* Q, and on the wires that are not emptied, nothing changes.
LEMMA Removes ==
    ASSUME IInv, NEW Q \in SUBSET Peers, NEW L \in SUBSET Wires,
           UNCHANGED <<expired, trusts, said>>, holds' \subseteq holds,
           knows' = [p \in Peers |-> IF p \in Q THEN {} ELSE knows[p]],
           wire' = [l \in Wires |-> IF l \in L THEN <<>> ELSE wire[l]],
           welcomed' = welcomed \ Q,
           \/ UNCHANGED <<seen, got>>
           \/ /\ seen' = [p \in Peers |-> IF p \in Q THEN {} ELSE seen[p]]
              /\ got' = [p \in Peers |-> IF p \in Q THEN [m \in Texts |-> 0] ELSE got[p]],
           due' \subseteq due,
           \A d \in due' : d[3] \notin Q /\ <<d[2], d[3]>> \notin L
    PROVE  IInv'
<1>0. \A l \in Wires : l[1] \in Peers /\ l[2] \in Peers
  BY DEF Wires
<1>1. \A l \in Wires : wire'[l] = IF l \in L THEN <<>> ELSE wire[l]
  OBVIOUS
<1>2. \A l \in Wires : On(wire', l) = IF l \in L THEN {} ELSE On(wire, l)
  BY <1>1 DEF On
<1>3. \A p \in Peers : knows'[p] = IF p \in Q THEN {} ELSE knows[p]
  OBVIOUS
<1>4. /\ seen' \in [Peers -> SUBSET said] /\ got' \in [Peers -> [Texts -> Nat]]
      /\ \A p \in Peers : \/ seen'[p] = seen[p] /\ got'[p] = got[p]
                          \/ p \in Q /\ \A m \in Texts : got'[p][m] = 0
  <2>1. seen \in [Peers -> SUBSET said] /\ got \in [Peers -> [Texts -> Nat]]
    BY DEF IInv, Types
  <2>2. CASE UNCHANGED <<seen, got>>
    BY <2>1, <2>2
  <2>3. CASE /\ seen' = [p \in Peers |-> IF p \in Q THEN {} ELSE seen[p]]
             /\ got' = [p \in Peers |-> IF p \in Q THEN [m \in Texts |-> 0] ELSE got[p]]
    <3>1. [m \in Texts |-> 0] \in [Texts -> Nat]
      OBVIOUS
    <3>2. seen' \in [Peers -> SUBSET said]
      BY <2>1, <2>3
    <3>3. got' \in [Peers -> [Texts -> Nat]]
      BY <2>1, <2>3, <3>1
    <3> QED BY <2>3, <3>2, <3>3
  <2> QED BY <2>2, <2>3
<1>5. Types'
  <2>1. wire' \in [Wires -> Seq(Message)]
    BY <1>1 DEF IInv, Types
  <2>2. knows' \in [Peers -> SUBSET Peers]
    BY DEF IInv, Types
  <2> QED BY <1>4, <2>1, <2>2 DEF IInv, Types
<1>6. Counted'
  <2> SUFFICES ASSUME NEW p \in Peers, NEW m \in Texts
               PROVE  got'[p][m] <= 1 /\ (got'[p][m] = 1 => m \in seen'[p])
    BY DEF Counted
  <2>1. CASE seen'[p] = seen[p] /\ got'[p] = got[p]
    BY <2>1 DEF IInv, Counted
  <2>2. CASE got'[p][m] = 0
    BY <2>2
  <2> QED BY <1>4, <2>1, <2>2
<1>7. Members'
  <2>1. \A p \in Peers, m \in Texts : got'[p][m] # 0 => Invited(p)
    BY <1>4 DEF IInv, Members
  <2>2. \A p \in Peers : \A q \in knows'[p] : Invited(q)
    BY <1>3 DEF IInv, Members
  <2> QED BY <2>1, <2>2 DEF IInv, Members, Invited
<1>8. Carried'
  BY <1>2, CarriedKept
<1>9. Pending'
  <2> SUFFICES ASSUME NEW d \in due'
               PROVE  /\ d[3] \in welcomed' /\ Authorized(d[3], d[2])'
                      /\ got'[d[3]] = got[d[3]] /\ seen'[d[3]] = seen[d[3]]
                      /\ On(wire, <<d[2], d[3]>>) \subseteq On(wire', <<d[2], d[3]>>)
    BY PendingKept
  <2>1. /\ <<d[2], d[3]>> \in Wires /\ d[3] \in welcomed /\ Authorized(d[3], d[2])
        /\ d[3] \notin Q /\ <<d[2], d[3]>> \notin L
    BY DEF IInv, Pending
  <2>2. d[3] \in Peers
    BY <2>1 DEF Wires
  <2>3. Authorized(d[3], d[2])'
    BY <1>3, <2>1, <2>2 DEF Authorized
  <2> QED BY <1>2, <1>4, <2>1, <2>2, <2>3
<1> QED BY <1>5, <1>6, <1>7, <1>8, <1>9 DEF IInv

LEMMA LeavesStep ==
    ASSUME IInv, NEW p \in Peers, Leaves(p)
    PROVE  IInv'
<1> DEFINE L == {l \in Wires : l[2] = p}
<1>1. /\ UNCHANGED <<keys, seen, got, said>> /\ holds' = holds \ {p} /\ welcomed' = welcomed \ {p}
      /\ knows' = [knows EXCEPT ![p] = {}]
      /\ wire' = [l \in Wires |-> IF l[2] = p THEN <<>> ELSE wire[l]]
      /\ due' = {d \in due : d[3] # p}
  BY DEF Leaves
<1>2. knows' = [x \in Peers |-> IF x \in {p} THEN {} ELSE knows[x]]
  BY <1>1 DEF IInv, Types
<1>3. wire' = [l \in Wires |-> IF l \in L THEN <<>> ELSE wire[l]]
  BY <1>1
<1>4. {p} \in SUBSET Peers /\ L \in SUBSET Wires
  OBVIOUS
<1>5. \A d \in due' : d[3] \notin {p} /\ <<d[2], d[3]>> \notin L
  BY <1>1
<1>6. UNCHANGED <<expired, trusts, said>> /\ holds' \subseteq holds /\ due' \subseteq due
      /\ UNCHANGED <<seen, got>>
  BY <1>1 DEF keys
<1> HIDE DEF L, IInv
<1> QED BY <1>1, <1>2, <1>3, <1>4, <1>5, <1>6, Removes

LEMMA BreaksStep ==
    ASSUME IInv, NEW k \in Pairs, Breaks(k)
    PROVE  IInv'
<1> DEFINE L == {l \in Wires : {l[1], l[2]} = k}
<1>1. /\ UNCHANGED <<keys, knows, holds, welcomed, seen, got, said>>
      /\ wire' = Without({k}, wire, <<>>)
      /\ due' = {d \in due : {d[2], d[3]} # k}
  BY DEF Breaks
<1>2. knows' = [x \in Peers |-> IF x \in {} THEN {} ELSE knows[x]] /\ welcomed' = welcomed \ {}
  BY <1>1 DEF IInv, Types
<1>3. wire' = [l \in Wires |-> IF l \in L THEN <<>> ELSE wire[l]]
  BY <1>1 DEF Without
<1>4. {} \in SUBSET Peers /\ L \in SUBSET Wires
  OBVIOUS
<1>5. \A d \in due' : d[3] \notin {} /\ <<d[2], d[3]>> \notin L
  BY <1>1
<1>6. UNCHANGED <<expired, trusts, said>> /\ holds' \subseteq holds /\ due' \subseteq due
      /\ UNCHANGED <<seen, got>>
  BY <1>1 DEF keys
<1> HIDE DEF L, IInv
<1> QED BY <1>1, <1>2, <1>3, <1>4, <1>5, <1>6, Removes

LEMMA RestartsStep ==
    ASSUME IInv, NEW p \in Peers, Restarts(p)
    PROVE  IInv'
<1> DEFINE L == {l \in Wires : {l[1], l[2]} \in {k \in links : p \in k}}
<1>1. /\ UNCHANGED <<keys, said>> /\ holds' = holds \ {p} /\ welcomed' = welcomed \ {p}
      /\ knows' = [knows EXCEPT ![p] = {}]
      /\ seen' = [seen EXCEPT ![p] = {}]
      /\ got' = [got EXCEPT ![p] = [m \in Texts |-> 0]]
      /\ wire' = Without({k \in links : p \in k}, wire, <<>>)
      /\ due' = {d \in due : p \notin {d[2], d[3]}}
  BY DEF Restarts
<1>2. /\ knows' = [x \in Peers |-> IF x \in {p} THEN {} ELSE knows[x]]
      /\ seen' = [x \in Peers |-> IF x \in {p} THEN {} ELSE seen[x]]
      /\ got' = [x \in Peers |-> IF x \in {p} THEN [m \in Texts |-> 0] ELSE got[x]]
  BY <1>1 DEF IInv, Types
<1>3. wire' = [l \in Wires |-> IF l \in L THEN <<>> ELSE wire[l]]
  BY <1>1 DEF Without
<1>4. {p} \in SUBSET Peers /\ L \in SUBSET Wires
  OBVIOUS
<1>5. \A d \in due' : d[3] \notin {p} /\ <<d[2], d[3]>> \notin L
  BY <1>1
<1>6. UNCHANGED <<expired, trusts, said>> /\ holds' \subseteq holds /\ due' \subseteq due
  BY <1>1 DEF keys
<1> HIDE DEF L, IInv
<1> QED BY <1>1, <1>2, <1>3, <1>4, <1>5, <1>6, Removes

-----------------------------------------------------------------------------
LEMMA InvInit == Init => IInv
<1> SUFFICES ASSUME Init PROVE IInv
  OBVIOUS
<1>1. Owner \in Peers
  BY DEF Peers
<1>2. /\ holds = {} /\ welcomed = {} /\ said = {} /\ due = {}
      /\ trusts = [p \in Peers |-> {p}] /\ knows = [p \in Peers |-> {}]
      /\ seen = [p \in Peers |-> {}] /\ got = [p \in Peers |-> [m \in Texts |-> 0]]
      /\ wire = [w \in Wires |-> <<>>]
  BY DEF Init
<1>3. Types
  BY <1>2 DEF Types
<1>4. Counted
  BY <1>2 DEF Counted
<1>5. Members
  BY <1>1, <1>2 DEF Members, Invited
<1>6. Carried
  <2>1. \A l \in Wires : On(wire, l) = {}
    BY <1>2 DEF On
  <2> QED BY <2>1 DEF Carried
<1>7. Pending
  BY <1>2 DEF Pending
<1> QED BY <1>3, <1>4, <1>5, <1>6, <1>7 DEF IInv

LEMMA InvStep == IInv /\ [Next]_vars => IInv'
<1> SUFFICES ASSUME IInv, [Next]_vars PROVE IInv'
  OBVIOUS
<1>1. CASE OwnerJoins \/ \E g \in Guests : GuestJoins(g) \/ StrangerJoins(g)
  BY <1>1, MembersGrow DEF Peers
<1>2. CASE Expires
  <2>1. /\ due' = {} /\ UNCHANGED <<trusts, knows, holds, seen, got, wire, said>>
    BY <1>2 DEF Expires
  <2> QED BY <2>1 DEF IInv, Types, Counted, Members, Carried, Pending, Invited, On
<1>3. ASSUME NEW g \in Guests, Pings(g) PROVE IInv'
  BY <1>3, PingsStep
<1>4. ASSUME NEW p \in Peers, Leaves(p) PROVE IInv'
  BY <1>4, LeavesStep
<1>5. ASSUME NEW p \in Peers, Restarts(p) PROVE IInv'
  BY <1>5, RestartsStep
<1>6. ASSUME NEW p \in Peers, NEW m \in Texts, Says(p, m) PROVE IInv'
  BY <1>6, SaysStep
<1>7. ASSUME NEW l \in Pairs, Breaks(l) PROVE IInv'
  BY <1>7, BreaksStep
<1>8. CASE UNCHANGED vars \/ \E l \in Pairs : Connects(l)
  <2>1. UNCHANGED <<expired, trusts, knows, holds, welcomed, seen, got, wire, said, due>>
    BY <1>8 DEF vars, Connects, keys
  <2>2. Types' /\ Counted' /\ Members'
    BY <2>1 DEF IInv, Types, Counted, Members, Invited
  <2>3. Carried'
    BY <2>1 DEF IInv, Carried, Invited, On
  <2>4. Pending'
    <3>1. \A p, q : Authorized(p, q)' <=> Authorized(p, q)
      BY <2>1 DEF Authorized
    <3>2. \A d \in due : d[3] \in welcomed /\ Authorized(d[3], d[2])
      BY DEF IInv, Pending
    <3>3. \A l : On(wire', l) = On(wire, l)
      BY <2>1 DEF On
    <3> QED BY <2>1, <3>1, <3>2, <3>3, PendingKept
  <2> QED BY <2>2, <2>3, <2>4 DEF IInv
<1>9. ASSUME NEW w \in Wires, Opens(w[1], w[2]) PROVE IInv'
  <2>1. w[1] \in Peers /\ w[2] \in Peers
    BY DEF Wires
  <2> QED BY <1>9, <2>1, OpensStep
<1>10. ASSUME NEW w \in Wires, Hears(w[1], w[2]) PROVE IInv'
  BY <1>10, HearsStep
<1>11. ASSUME NEW w \in Wires, Drops(w[1], w[2]) PROVE IInv'
  BY <1>11, DropsStep
<1> QED BY <1>1, <1>2, <1>3, <1>4, <1>5, <1>6, <1>7, <1>8, <1>9, <1>10, <1>11 DEF Next

\* The invariant, in every behaviour of the channel.
THEOREM Invariant == Spec => []IInv
BY InvInit, InvStep, PTL DEF Spec

\* A process hands each message to its clients at most once: it remembers what
\* it delivered, and looks there before it delivers (seen, onmessage).
THEOREM DeliveredAtMostOnce == Spec => []AtMostOnce
<1>1. IInv => AtMostOnce
  BY DEF IInv, Counted, AtMostOnce
<1> QED BY <1>1, Invariant, PTL

\* No text is on its way to a peer that was never invited, or was delivered to
\* one: an invite can only be the one the owner signed (_remoteAuthorized,
\* _checkInvite).
THEOREM ForTheInvited == Spec => []InviteOnly
<1>1. IInv => InviteOnly
  <2> SUFFICES ASSUME IInv, NEW q \in Guests, Owner \notin trusts[q]
               PROVE  /\ \A m \in Texts : got[q][m] = 0
                      /\ \A p \in Peers \ {q} :
                            \A i \in DOMAIN wire[<<p, q>>] : wire[<<p, q>>][i].kind # "text"
    BY DEF InviteOnly
  <2>1. q \in Peers
    BY DEF Peers
  <2>2. \A m \in Texts : got[q][m] = 0
    BY <2>1 DEF IInv, Members, Invited
  <2>3. ASSUME NEW p \in Peers \ {q}, NEW i \in DOMAIN wire[<<p, q>>]
        PROVE  wire[<<p, q>>][i].kind # "text"
    <3>1. <<p, q>> \in Wires
      BY <2>1 DEF Wires
    <3>2. wire[<<p, q>>][i] \in On(wire, <<p, q>>)
      BY DEF On
    <3> QED BY <3>1, <3>2 DEF IInv, Carried, Invited
  <2> QED BY <2>2, <2>3
<1> QED BY <1>1, Invariant, PTL

\* A text sent to a neighbour that is ready for it is delivered or still on its
\* way: its id is remembered as seen only where it was delivered, since the
\* neighbour is welcomed (onmessage remembers before it checks the welcome).
THEOREM NothingIsLost == Spec => []Delivers
<1>1. IInv => Delivers
  <2> SUFFICES ASSUME IInv, NEW d \in due, got[d[3]][d[1]] # 1
               PROVE  \E i \in DOMAIN wire[<<d[2], d[3]>>] : wire[<<d[2], d[3]>>][i].id = d[1]
    BY DEF Delivers
  <2>1. \E m \in On(wire, <<d[2], d[3]>>) : m.id = d[1]
    BY DEF IInv, Pending
  <2> QED BY <2>1 DEF On
<1> QED BY <1>1, Invariant, PTL
=============================================================================
