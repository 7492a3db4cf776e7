---- MODULE Sidechannel ----
(***************************************************************************)
(* One invite-only channel of features/sidechannel, as the peers that     *)
(* negotiated a swap use it: the owner (the maker) issues a signed invite, *)
(* with a signed welcome in it, to each guest; a peer sends only to peers  *)
(* it has authorized, drops what comes from peers it has not, delivers     *)
(* each message once and relays it to its other neighbours.                *)
(*                                                                         *)
(* A signature is what it proves: an invite stands for the guest it was    *)
(* signed for.  All invites share one expiry.  The rate limiter is the     *)
(* loss of one message.  An entry of `seen` outlives every copy of its     *)
(* message (seenTtlMs, maxSeen).  The constructor puts a peer's own key    *)
(* among its inviter keys when invites are required.  The programs above   *)
(* the channel send their invite on their own (rfq-taker, tradeAuto).      *)
(***************************************************************************)
EXTENDS Naturals, Sequences, FiniteSets

CONSTANTS
    Owner,      \* the peer that owns the channel and issues its invites
    Guests,     \* the other peers on the topic, invited or not
    Texts,      \* the ids of the messages broadcast
    RelayTtl,   \* relayTtl
    AppPings,   \* whether a guest's program sends its invite again and again
    MaxFaults,  \* bound: losses, broken connections, leaves, restarts, expiry
    None

ASSUME SidechannelAssumption ==
    /\ Owner \notin Guests
    /\ RelayTtl \in Nat
    /\ AppPings \in BOOLEAN
    /\ MaxFaults \in Nat
    /\ None \notin Guests \cup Texts

Peers == Guests \cup {Owner}
Pairs == {l \in SUBSET Peers : Cardinality(l) = 2}
Wires == {w \in Peers \X Peers : w[1] # w[2]}

(* What travels: a text, the auth control message that carries an invite,  *)
(* or the welcome the owner sends when a session opens.                    *)
Message ==
    [kind: {"text", "auth", "welcome"}, id: Texts \cup {None},
     invite: Guests \cup {None}, ttl: 0 .. RelayTtl]

VARIABLES
    expired,    \* whether the invites have expired
    joined,     \* the peers that have the channel in `channels`
    trusts,     \* inviterKeys of each peer
    knows,      \* invitedPeers of each peer
    holds,      \* the guests with an invite in localInviteObjects
    welcomed,   \* the peers with the channel in welcomedChannels
    seen,       \* the ids each peer remembers
    got,        \* how often each peer handed each message to onMessage
    links,      \* the open connections
    session,    \* the record each peer has of each neighbour's session
    wire,       \* what is under way from one peer to another
    said,       \* the ids broadcast so far
    due,        \* auxiliary: <<id, sender, peer>> sent to a peer that was ready
    faults

vars == <<expired, joined, trusts, knows, holds, welcomed, seen, got,
          links, session, wire, said, due, faults>>
keys == <<expired, trusts>>

Init ==
    /\ expired = FALSE
    /\ joined = {} /\ holds = {} /\ welcomed = {}
    /\ trusts = [p \in Peers |-> {p}]
    /\ knows = [p \in Peers |-> {}]
    /\ seen = [p \in Peers |-> {}]
    /\ got = [p \in Peers |-> [m \in Texts |-> 0]]
    /\ links = Pairs /\ session = [w \in Wires |-> "none"]
    /\ wire = [w \in Wires |-> <<>>]
    /\ said = {} /\ due = {} /\ faults = 0

-----------------------------------------------------------------------------
(* Who may read and write.                                                 *)

(* _remoteAuthorized, and _checkInvite before it looks at the payload.     *)
Authorized(p, q) == q \in trusts[p] \/ (q \in knows[p] /\ ~expired)

(* The invite in a payload, checked against the neighbour that sent it.    *)
ShowsInvite(p, q, m) == m.invite = p /\ Owner \in trusts[q] /\ ~expired

Open(p) == {q \in Peers \ {p} : session[<<p, q>>] = "open"}
Readers(p) == {q \in Open(p) : Authorized(p, q)}
Ready(p) == {q \in Readers(p) : p \in Open(q) /\ Authorized(q, p) /\ q \in welcomed}

Post(w, p, Q, m) ==
    [l \in Wires |-> IF l[1] = p /\ l[2] \in Q THEN Append(w[l], m) ELSE w[l]]

Text(m, inv, ttl) == [kind |-> "text", id |-> m, invite |-> inv, ttl |-> ttl]
Auth(g) == [kind |-> "auth", id |-> None, invite |-> g, ttl |-> RelayTtl]
Welcome == [kind |-> "welcome", id |-> None, invite |-> None, ttl |-> RelayTtl]

Fault == faults < MaxFaults /\ faults' = faults + 1

-----------------------------------------------------------------------------
(* Joining and leaving.                                                    *)

(* _registerChannel refuses a peer that has no invite and is no inviter.   *)
Registers(p) == p \in trusts[p] \/ (p \in holds /\ ~expired)

(* inviter_add of its own key, then join with the welcome it signed.       *)
OwnerJoins ==
    /\ Owner \notin joined \/ Owner \notin welcomed
    /\ joined' = joined \cup {Owner}
    /\ welcomed' = welcomed \cup {Owner}
    /\ UNCHANGED <<keys, knows, holds, seen, got, links, session, wire, said,
                   due, faults>>

(* The owner signs an invite for a guest, which adds the owner to its      *)
(* inviter keys and joins with the invite, or joins again with it.         *)
GuestJoins(g) ==
    /\ ~expired
    /\ ~(g \in joined \cap holds \cap welcomed)
    /\ joined' = joined \cup {g}
    /\ holds' = holds \cup {g}
    /\ welcomed' = welcomed \cup {g}
    /\ trusts' = [trusts EXCEPT ![g] = @ \cup {Owner}]
    /\ knows' = [knows EXCEPT ![g] = @ \cup {Owner}]
    /\ UNCHANGED <<expired, seen, got, links, session, wire, said, due, faults>>

(* A join without an invite.                                               *)
StrangerJoins(g) ==
    /\ g \notin joined /\ Registers(g)
    /\ joined' = joined \cup {g}
    /\ UNCHANGED <<keys, knows, holds, welcomed, seen, got, links, session,
                   wire, said, due, faults>>

(* A peer opens a session when it has joined and has no record of one.  A  *)
(* peer that left the channel stays paired on the connection, so the other *)
(* side's open makes it open again.                                        *)
Openable(p, q) ==
    \/ session[<<p, q>>] = "none" /\ p \in joined
    \/ session[<<p, q>>] = "left"

(* _sendWelcome: the owner greets a neighbour it has authorized.           *)
SendWelcome(w, p, q) ==
    IF p = Owner /\ p \in welcomed /\ Authorized(p, q) THEN Post(w, p, {q}, Welcome) ELSE w

(* _sendAuth: an invited peer shows its invite, unless it is an inviter.   *)
SendAuth(w, p, q) ==
    IF p \notin trusts[p] /\ p \in holds /\ ~expired THEN Post(w, p, {q}, Auth(p)) ELSE w

(* Both sides open, and each sends its part of the handshake.              *)
Opens(p, q) ==
    /\ {p, q} \in links /\ p \in joined
    /\ Openable(p, q) /\ Openable(q, p)
    /\ session' = [session EXCEPT ![<<p, q>>] = "open", ![<<q, p>>] = "open"]
    /\ wire' = SendAuth(SendWelcome(SendAuth(SendWelcome(wire, p, q), p, q), q, p), q, p)
    /\ UNCHANGED <<keys, joined, knows, holds, welcomed, seen, got, links,
                   said, due, faults>>

(* removeChannel: what p has sent arrives before its close; what is under  *)
(* way to it does not.  The neighbours keep their records (onclose is      *)
(* empty), so they do not open again on the same connection.               *)
Leaves(p) ==
    /\ p \in joined
    /\ joined' = joined \ {p} /\ holds' = holds \ {p} /\ welcomed' = welcomed \ {p}
    /\ knows' = [knows EXCEPT ![p] = {}]
    /\ session' = [w \in Wires |->
          IF w[1] = p /\ {p, w[2]} \in links THEN "left"
          ELSE IF w[2] = p /\ session[w] = "open" THEN "stale"
          ELSE session[w]]
    /\ wire' = [w \in Wires |-> IF w[2] = p THEN <<>> ELSE wire[w]]
    /\ due' = {d \in due : d[3] # p}
    /\ Fault
    /\ UNCHANGED <<keys, seen, got, links, said>>

-----------------------------------------------------------------------------
(* Messages.                                                               *)

(* broadcast: registers the channel, remembers the id and sends to the     *)
(* authorized neighbours only.  A guest may attach its invite.             *)
Says(p, m) ==
    /\ m \notin said /\ Registers(p)
    /\ \E inv \in {None} \cup ({p} \cap holds) :
          wire' = Post(wire, p, Readers(p), Text(m, inv, RelayTtl))
    /\ said' = said \cup {m}
    /\ joined' = joined \cup {p}
    /\ seen' = [seen EXCEPT ![p] = @ \cup {m}]
    /\ due' = due \cup {<<m, p, q>> : q \in Ready(p)}
    /\ UNCHANGED <<keys, knows, holds, welcomed, got, links, session, faults>>

(* broadcast of the auth control message: to every neighbour, authorized   *)
(* or not.  The programs space it out, so one is under way at a time.      *)
Pings(g) ==
    /\ AppPings
    /\ g \in holds /\ Open(g) # {}
    /\ \A q \in Open(g) : \A i \in DOMAIN wire[<<g, q>>] : wire[<<g, q>>][i].kind # "auth"
    /\ wire' = Post(wire, g, Open(g), Auth(g))
    /\ UNCHANGED <<keys, joined, knows, holds, welcomed, seen, got, links,
                   session, said, due, faults>>

(* mutant: an id is remembered before the invite is checked.               *)
MutNotes(p, q, m) == m.kind = "text"
(* mutant: an invite is checked but not remembered.                        *)
MutRemembers(p, q, m) == knows
(* mutant: the duplicate check is left out.                                *)
MutFresh(q, m) == TRUE
(* mutant: a message is relayed to every neighbour.                        *)
MutRelays(w, p, q, m) == Post(w, q, Open(q) \ {p}, [m EXCEPT !.ttl = 0])

(* _checkInvite, which remembers a neighbour whose invite it verified.     *)
Admitted(p, q, m) == Authorized(q, p) \/ ShowsInvite(p, q, m)
Remembers(p, q, m) ==
    IF ~Authorized(q, p) /\ ShowsInvite(p, q, m)
    THEN [knows EXCEPT ![q] = @ \cup {p}] ELSE knows
Notes(p, q, m) == m.kind = "text" /\ Admitted(p, q, m)
Fresh(q, m) == m.kind = "text" => m.id \notin seen[q]
(* The welcome of the message itself, or the one in its invite.            *)
Greets(m) == m.kind = "welcome" \/ m.invite # None
Relays(w, p, q, m) ==
    IF m.ttl > 0 THEN Post(w, q, Readers(q) \ {p}, [m EXCEPT !.ttl = @ - 1]) ELSE w

(* onmessage.  The id is remembered before the welcome is looked at.       *)
Hears(p, q) ==
    LET m == Head(wire[<<p, q>>])
        rest == [wire EXCEPT ![<<p, q>>] = Tail(@)]
        taken == Admitted(p, q, m) /\ Fresh(q, m)
        heard == taken /\ (q \in welcomed \/ Greets(m)) /\ m.kind = "text"
    IN  /\ wire[<<p, q>>] # <<>>
        /\ knows' = Remembers(p, q, m)
        /\ seen' = IF Notes(p, q, m) THEN [seen EXCEPT ![q] = @ \cup {m.id}] ELSE seen
        /\ welcomed' = IF taken /\ Greets(m) THEN welcomed \cup {q} ELSE welcomed
        /\ got' = IF heard THEN [got EXCEPT ![q][m.id] = @ + 1] ELSE got
        /\ wire' = IF heard THEN Relays(rest, p, q, m) ELSE rest
        /\ UNCHANGED <<keys, joined, holds, links, session, said, due, faults>>

(* The rate limiter drops a message before its id is remembered.           *)
Drops(p, q) ==
    /\ wire[<<p, q>>] # <<>>
    /\ wire' = [wire EXCEPT ![<<p, q>>] = Tail(@)]
    /\ due' = due \ {<<Head(wire[<<p, q>>]).id, p, q>>}
    /\ Fault
    /\ UNCHANGED <<keys, joined, knows, holds, welcomed, seen, got, links,
                   session, said>>

-----------------------------------------------------------------------------
(* Connections and processes.                                              *)

Connects(l) ==
    /\ l \notin links
    /\ links' = links \cup {l}
    /\ UNCHANGED <<keys, joined, knows, holds, welcomed, seen, got, session,
                   wire, said, due, faults>>

Without(L, f, empty) == [w \in Wires |-> IF {w[1], w[2]} \in L THEN empty ELSE f[w]]

Breaks(l) ==
    /\ l \in links
    /\ links' = links \ {l}
    /\ session' = Without({l}, session, "none")
    /\ wire' = Without({l}, wire, <<>>)
    /\ due' = {d \in due : {d[2], d[3]} # l}
    /\ Fault
    /\ UNCHANGED <<keys, joined, knows, holds, welcomed, seen, got, said>>

(* Everything but the inviter keys, which the peer manager stores, is lost. *)
Restarts(p) ==
    LET gone == {l \in links : p \in l}
    IN  /\ links' = links \ gone
        /\ session' = [w \in Wires |-> IF p \in {w[1], w[2]} THEN "none" ELSE session[w]]
        /\ wire' = Without(gone, wire, <<>>)
        /\ joined' = joined \ {p} /\ holds' = holds \ {p}
        /\ welcomed' = welcomed \ {p}
        /\ knows' = [knows EXCEPT ![p] = {}]
        /\ seen' = [seen EXCEPT ![p] = {}]
        /\ got' = [got EXCEPT ![p] = [m \in Texts |-> 0]]
        /\ due' = {d \in due : p \notin {d[2], d[3]}}
        /\ Fault
        /\ UNCHANGED <<keys, said>>

Expires ==
    /\ ~expired
    /\ expired' = TRUE
    /\ due' = {}
    /\ Fault
    /\ UNCHANGED <<joined, trusts, knows, holds, welcomed, seen, got, links,
                   session, wire, said>>

Next ==
    \/ OwnerJoins
    \/ Expires
    \/ \E g \in Guests : GuestJoins(g) \/ StrangerJoins(g) \/ Pings(g)
    \/ \E p \in Peers : Leaves(p) \/ Restarts(p)
    \/ \E p \in Peers, m \in Texts : Says(p, m)
    \/ \E l \in Pairs : Connects(l) \/ Breaks(l)
    \/ \E w \in Wires :
          Opens(w[1], w[2]) \/ Hears(w[1], w[2]) \/ Drops(w[1], w[2])

Spec == Init /\ [][Next]_vars

(* Messages under way arrive, and the guests' programs keep sending their  *)
(* invite while they wait (readyTimer, waiting_terms_ping).                *)
FairSpec ==
    /\ Spec
    /\ \A w \in Wires : WF_vars(Hears(w[1], w[2]))
    /\ \A g \in Guests : WF_vars(Pings(g))

-----------------------------------------------------------------------------
(* However a message travels, directly and relayed along any cycle of      *)
(* neighbours, a process hands it to its clients at most once (seen).      *)
AtMostOnce == \A p \in Peers, m \in Texts : got[p][m] <= 1

(* No text of the channel is on its way to a peer, or was delivered to     *)
(* one, that is not the owner and never joined with an invite, whoever has *)
(* joined the topic and whoever relays.                                    *)
InviteOnly ==
    \A q \in {g \in Guests : Owner \notin trusts[g]} :
       /\ \A m \in Texts : got[q][m] = 0
       /\ \A p \in Peers \ {q} :
             \A i \in DOMAIN wire[<<p, q>>] : wire[<<p, q>>][i].kind # "text"

(* A text broadcast to a neighbour with which the session is open, that is *)
(* welcomed and mutually authorized, is delivered or still on its way as   *)
(* long as the connection, both memberships and the invites last: no copy  *)
(* of it that arrived by another way makes it be dropped undelivered.      *)
Delivers ==
    \A d \in due :
       \/ got[d[3]][d[1]] = 1
       \/ \E i \in DOMAIN wire[<<d[2], d[3]>>] : wire[<<d[2], d[3]>>][i].id = d[1]

(* A guest that joined with its invite, with a session open to the owner,  *)
(* is authorized by the owner in the end, whatever was lost on the way,    *)
(* unless the session or the invite ends first.                            *)
Authorizes ==
    \A g \in Guests :
       (g \in holds /\ Owner \in Open(g) /\ ~expired)
          ~> (g \in knows[Owner] \/ Owner \notin Open(g) \/ g \notin holds \/ expired)
====
