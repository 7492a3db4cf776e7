--------------------------- MODULE TradeAutoProofs ---------------------------
(***************************************************************************)
(* The trade automation, for any number of invoices, retries, restarts and *)
(* faults, on both kinds of settlement.                                    *)
(*                                                                         *)
(* Tools outlive the ticks that started them, so each property rests on    *)
(* what holds of a tool wherever it is (ToolOK): a payment was checked     *)
(* against a lock when it was started and locks stay; a payer that starts  *)
(* one has heard of an escrow before any CANCEL (EscrowHeard); every lock  *)
(* and every tool that may still lock used up an attempt of its stage      *)
(* (Budget).                                                               *)
(***************************************************************************)
EXTENDS TradeAuto, FiniteSetTheorems, TLAPS

\* What a tool is, wherever it is.
ToolOK(t) ==
    /\ t \in Task /\ t.by = Owner(t.stage) /\ t.hash <= made
    /\ t.pc = "landed" => t.op \in {"escrow", "ln_paid", "claimed"}
    /\ t.op = "escrow" => t.hash # None
    /\ t.op = "ln_invoice" /\ t.pc # "start" => t.hash # None
    /\ t.op = "ln_paid" =>
          /\ t.stage = "ln_pay"
          /\ t.hash # None => \E l \in locks : l.hash = t.hash
          /\ t.pc \in {"landed", "post"} => t.hash \in paid

ToolsOK == \A t \in tools : ToolOK(t)

\* No message speaks of an invoice that is not made.
Spoken == {m \in [kind : Kind, hash : 0 .. made, id : Id] :
              m.kind = "ln_invoice" => m.hash # None}
Messages == log \in [Worker -> Seq(Spoken)] /\ wire \in [Worker -> Seq(Spoken)]

StageTypes ==
    /\ stage \in [Stage -> {"open", "running", "done"}]
    /\ tries \in [Stage -> 0 .. RetryMax + PayTries]
    /\ \A s \in Stage \ {"ln_pay"} : tries[s] <= RetryMax
    /\ busy \in [Worker -> BOOLEAN] /\ aborted \in [Worker -> BOOLEAN]

Types ==
    /\ StageTypes
    /\ replays \in 0 .. ReplayMax
    /\ made \in 0 .. MaxInvoices /\ paid \subseteq 1 .. made
    /\ locks \subseteq Lock /\ claimed \subseteq locks
    /\ file \in [Worker -> {"none", "terms", "accepted", "invoice", "escrow",
                            "ln_paid", "claimed", "canceled"}]
    /\ preimage \in paid \cup {None} /\ cache \in paid \cup {None}
    /\ faults \in 0 .. MaxFaults /\ restarts \in 0 .. MaxRestarts

\* The payer's log has an escrow before any CANCEL.
EscrowHeard ==
    \E j \in DOMAIN log["taker"] :
        /\ log["taker"][j].kind = "escrow"
        /\ \A i \in 1 .. j : log["taker"][i].kind # "cancel"

PaysAfterEscrow ==
    paid # {} \/ (\E t \in tools : t.op = "ln_paid") => EscrowHeard

\* The escrow tools that may still lock, and the attempts used up: each start
\* of the automation brings RetryMax + 1.
Waits(t) == t.op = "escrow" /\ t.pc \in {"start", "lock"}
Waiting == {t \in tools : Waits(t)}
Attempts == CASE stage["escrow"] = "open"    -> tries["escrow"]
              [] stage["escrow"] = "running" -> tries["escrow"] + 1
              [] OTHER                       -> RetryMax + 1
Used == (RetryMax + 1) * restarts + Attempts

Budget ==
    /\ IsFiniteSet(tools) /\ IsFiniteSet(locks)
    /\ Cardinality(locks) + Cardinality(Waiting) <= Used

\* The tool that ends a stage in flight is not the CANCEL of an earlier one.
Awaited ==
    /\ \A w \in Worker : busy[w] => \E t \in tools : t.by = w /\ t.live
    /\ \A s \in Stage : stage[s] = "running" =>
          \E t \in tools : t.stage = s /\ t.live /\ t.op # "cancel"

IInv == /\ Types /\ ToolsOK /\ Messages /\ PaidIsBacked /\ PaysAfterEscrow
        /\ Budget /\ Awaited

-----------------------------------------------------------------------------
(* Logs.                                                                     *)

\* A set of positions that is not empty has a last one.
LEMMA LastIn ==
    ASSUME NEW n \in Nat, NEW at, at \subseteq 1 .. n, at # {}
    PROVE  Last(at) \in at /\ \A j \in at : j <= Last(at)
<1> DEFINE back == {n - i : i \in at}
<1>1. back \subseteq Nat /\ back # {}
  <2>1. \A i \in at : n - i \in Nat
    OBVIOUS
  <2> QED BY <2>1
<1>2. PICK x \in back : \A y \in back : <<y, x>> \notin OpToRel(<, Nat)
  <2> HIDE DEF back
  <2> QED BY <1>1, NatLessThanWellFounded, WFMin, Zenon
<1>3. \A y \in back : x <= y
  <2>1. \A y \in Nat : <<y, x>> \notin OpToRel(<, Nat) => ~(y < x)
    BY <1>1, <1>2 DEF OpToRel
  <2> HIDE DEF back
  <2>2. \A y \in back : y \in Nat /\ ~(y < x)
    BY <1>1, <1>2, <2>1, Zenon
  <2>3. x \in Nat
    BY <1>1, <1>2, Zenon
  <2> QED BY <2>2, <2>3
<1>4. PICK i \in at : x = n - i
  BY <1>2
<1>5. \A j \in at : j <= i
  <2>1. ASSUME NEW j \in at PROVE j <= i
    <3>1. n - j \in back
      OBVIOUS
    <3>2. x <= n - j
      BY <1>3, <3>1
    <3> HIDE DEF back
    <3> QED BY <3>2, <1>4
  <2> QED BY <2>1
<1> HIDE DEF back
<1> QED BY <1>5 DEF Last

LEMMA LatestSpoken ==
    ASSUME Messages, NEW w \in Worker, NEW k, Has(w, k)
    PROVE  Latest(w, k) \in Spoken /\ Latest(w, k).kind = k
<1> DEFINE at == {i \in DOMAIN log[w] : log[w][i].kind = k}
<1>1. log[w] \in Seq(Spoken)
  BY DEF Messages
<1>2. at \subseteq 1 .. Len(log[w]) /\ Len(log[w]) \in Nat /\ at # {}
  BY <1>1 DEF Has
<1>3. LastOf(w, k) \in at
  <2>1. Last(at) \in at
    <3> HIDE DEF at
    <3> QED BY <1>2, LastIn
  <2> QED BY <2>1 DEF LastOf
<1> QED BY <1>1, <1>3 DEF Latest

\* What a log says it goes on saying.
LEMMA HeardStays ==
    ASSUME Messages, EscrowHeard,
           UNCHANGED log \/ \E w \in Worker, m \in Spoken : Logged(w, m)
    PROVE  EscrowHeard'
<1>1. CASE UNCHANGED log
  BY <1>1 DEF EscrowHeard
<1>2. ASSUME NEW w \in Worker, NEW m \in Spoken, Logged(w, m) PROVE EscrowHeard'
  <2>1. log["taker"] \in Seq(Spoken)
    BY DEF Messages, Worker
  <2>2. log'["taker"] = log["taker"] \/ log'["taker"] = Append(log["taker"], m)
    BY <1>2 DEF Logged, Messages, Worker
  <2>3. PICK j \in DOMAIN log["taker"] :
            /\ log["taker"][j].kind = "escrow"
            /\ \A i \in 1 .. j : log["taker"][i].kind # "cancel"
    BY DEF EscrowHeard
  <2>4. /\ j \in DOMAIN log'["taker"]
        /\ \A i \in 1 .. j : log'["taker"][i] = log["taker"][i]
        /\ j \in 1 .. j
    BY <2>1, <2>2, <2>3
  <2> QED BY <2>3, <2>4 DEF EscrowHeard
<1> QED BY <1>1, <1>2

LEMMA MessagesKept ==
    ASSUME Messages, made \in Nat, made' \in Nat, made <= made'
    PROVE  /\ log \in [Worker -> Seq(Spoken')]
           /\ wire \in [Worker -> Seq(Spoken')]
<1>1. Spoken \subseteq Spoken'
  BY DEF Spoken
<1> HIDE DEF Spoken
<1>2. \A q \in Seq(Spoken) : q \in Seq(Spoken')
  BY <1>1
<1> QED BY <1>2 DEF Messages

-----------------------------------------------------------------------------
(* Tools.                                                                    *)

LEMMA CallId ==
    ASSUME Types, NEW s \in Stage
    PROVE  restarts * (RetryMax + PayTries + 1) + tries[s] \in Id
<1> DEFINE k == RetryMax + PayTries + 1
<1>1. k \in Nat /\ restarts \in Nat /\ MaxRestarts \in Nat /\ restarts <= MaxRestarts
  BY TradeAutoAssumption DEF Types
<1>2. tries[s] \in Nat /\ tries[s] + 1 <= k
  BY TradeAutoAssumption DEF Types, StageTypes
<1> HIDE DEF k
<1>3. restarts * k \in Nat /\ restarts * k <= MaxRestarts * k
  BY <1>1
<1>4. (MaxRestarts + 1) * k = MaxRestarts * k + k /\ MaxRestarts * k \in Nat
  BY <1>1
<1>5. restarts * k + tries[s] \in 0 .. (MaxRestarts + 1) * k
  <2> DEFINE a == restarts * k
             b == MaxRestarts * k
  <2>1. a \in Nat /\ b \in Nat /\ a <= b /\ (MaxRestarts + 1) * k = b + k
    BY <1>3, <1>4
  <2> HIDE DEF a, b
  <2>2. a + tries[s] \in 0 .. b + k
    BY <1>1, <1>2, <2>1
  <2> QED BY <2>1, <2>2 DEF a
<1> QED BY <1>5 DEF Id, k

LEMMA ZeroId == 0 \in Id
<1> DEFINE a == MaxRestarts + 1
           b == RetryMax + PayTries + 1
<1>1. a \in Nat /\ b \in Nat
  BY TradeAutoAssumption
<1> HIDE DEF a, b
<1>2. a * b \in Nat
  BY <1>1
<1> QED BY <1>2 DEF Id, a, b

LEMMA CallOK ==
    ASSUME Types, NEW s \in Stage, NEW k \in Kind, NEW h \in 0 .. made,
           NEW pc \in {"start", "post"},
           k = "escrow" => h # None, k = "ln_invoice" => pc = "start",
           k = "ln_paid" => /\ s = "ln_pay" /\ pc = "start"
                            /\ h # None => \E l \in locks : l.hash = h
    PROVE  /\ ToolOK(Call(s, k, h, pc))
           /\ Call(s, k, h, pc).by = Owner(s) /\ Call(s, k, h, pc).stage = s
           /\ Call(s, k, h, pc).op = k /\ Call(s, k, h, pc).live
           /\ Call(s, k, h, pc).pc = pc
<1> DEFINE i == restarts * (RetryMax + PayTries + 1) + tries[s]
<1>1. i \in Id
  BY CallId
<1>2. Call(s, k, h, pc) = [by |-> Owner(s), op |-> k, stage |-> s, hash |-> h,
                           id |-> i, pc |-> pc, live |-> TRUE]
  BY DEF Call
<1> HIDE DEF i
<1>3. Owner(s) \in Worker /\ h \in Hash \cup {None} /\ h <= made
  BY TradeAutoAssumption DEF Owner, Worker, Hash, None, Types
<1>4. Call(s, k, h, pc) \in Task
  BY <1>1, <1>2, <1>3 DEF Task, Point
<1> QED BY <1>2, <1>3, <1>4 DEF ToolOK

\* What is on the chain and paid only grows, so what holds of a tool stays.
Grows ==
    /\ made \in Nat /\ made' \in Nat /\ made <= made'
    /\ locks \subseteq locks' /\ paid \subseteq paid'

LEMMA ToolStays ==
    ASSUME NEW t, ToolOK(t), Grows
    PROVE  ToolOK(t)'
<1>1. t.hash \in Nat
  BY DEF ToolOK, Task, Hash, None
<1> QED BY <1>1 DEF ToolOK, Grows

LEMMA ToolFields ==
    ASSUME NEW t, ToolOK(t)
    PROVE  /\ t \in Task /\ t.stage \in Stage /\ t.by \in Worker /\ t.by = Owner(t.stage)
           /\ t.op \in Kind /\ t.hash \in Nat /\ t.hash \in 0 .. MaxInvoices /\ t.hash <= made
           /\ t.pc \in Point /\ t.live \in BOOLEAN /\ t.id \in Id
  BY TradeAutoAssumption DEF ToolOK, Task, Hash, None

\* A tool that is no longer awaited, and a check that found no route.
LEMMA ToolLate ==
    ASSUME NEW t, ToolOK(t)
    PROVE  /\ ToolOK([t EXCEPT !.live = FALSE])
           /\ [t EXCEPT !.live = FALSE].op = t.op /\ [t EXCEPT !.live = FALSE].pc = t.pc
<1> DEFINE u == [t EXCEPT !.live = FALSE]
<1>1. u \in Task /\ u.by = t.by /\ u.stage = t.stage /\ u.op = t.op /\ u.pc = t.pc
      /\ u.hash = t.hash
  BY DEF ToolOK, Task
<1> HIDE DEF u
<1>2. ToolOK(u)
  BY <1>1 DEF ToolOK
<1> QED BY <1>1, <1>2 DEF u

LEMMA ToolNoRoute ==
    ASSUME NEW t, ToolOK(t), t.op = "precheck_ok"
    PROVE  LET u == [t EXCEPT !.op = "precheck_fail", !.pc = "post"]
           IN  ToolOK(u) /\ u.op = "precheck_fail" /\ u.by = t.by /\ u.stage = t.stage
               /\ u.live = t.live
<1> DEFINE u == [t EXCEPT !.op = "precheck_fail", !.pc = "post"]
<1>1. u \in Task /\ u.by = t.by /\ u.stage = t.stage /\ u.op = "precheck_fail"
      /\ u.pc = "post" /\ u.hash = t.hash /\ u.live = t.live
  BY DEF ToolOK, Task, Kind, Point
<1> HIDE DEF u
<1>2. ToolOK(u)
  BY <1>1 DEF ToolOK
<1> QED BY <1>1, <1>2 DEF u

-----------------------------------------------------------------------------
(* Attempts.                                                                 *)

LEMMA AttemptsRange ==
    ASSUME Types
    PROVE  Attempts \in Nat /\ Attempts <= RetryMax + 1 /\ Used \in Nat
<1>1. tries["escrow"] \in Nat /\ tries["escrow"] <= RetryMax
      /\ stage["escrow"] \in {"open", "running", "done"}
  BY TradeAutoAssumption DEF Types, StageTypes, Stage, MakerStage, TakerStage
<1>2. Attempts \in Nat /\ Attempts <= RetryMax + 1
  BY <1>1, TradeAutoAssumption DEF Attempts
<1>3. RetryMax + 1 \in Nat /\ restarts \in Nat
  BY TradeAutoAssumption DEF Types
<1>4. (RetryMax + 1) * restarts \in Nat
  <2> DEFINE k == RetryMax + 1
  <2> HIDE DEF k
  <2>1. k \in Nat => k * restarts \in Nat
    BY <1>3
  <2> QED BY <1>3, <2>1 DEF k
<1> QED BY <1>2, <1>4 DEF Used

\* In a set of tools where t has become u no more tools wait, and one less
\* where t waited and u does not.
LEMMA WaitingSwap ==
    ASSUME IsFiniteSet(tools), NEW t \in tools, NEW u, NEW rest,
           rest \subseteq (tools \ {t}) \cup {u}, Waits(u) => Waits(t),
           IsFiniteSet(tools'), \A x \in tools' : x \in rest \/ ~Waits(x)
    PROVE  /\ Cardinality(Waiting) \in Nat /\ Cardinality(Waiting') \in Nat
           /\ Cardinality(Waiting') <= Cardinality(Waiting)
           /\ Waits(t) /\ ~Waits(u) => Cardinality(Waiting') <= Cardinality(Waiting) - 1
<1>0. Waiting' = {x \in tools' : Waits(x)}
  BY DEF Waiting, Waits
<1>1. IsFiniteSet(Waiting) /\ IsFiniteSet(Waiting')
      /\ Cardinality(Waiting) \in Nat /\ Cardinality(Waiting') \in Nat
  <2>1. Waiting \subseteq tools /\ Waiting' \subseteq tools'
    BY <1>0 DEF Waiting
  <2> QED BY <2>1, FS_Subset, FS_CardinalityType
<1>2. CASE ~Waits(t)
  <2>1. Waiting' \subseteq Waiting
    BY <1>0, <1>2 DEF Waiting
  <2> QED BY <1>1, <1>2, <2>1, FS_Subset
<1>3. CASE Waits(t)
  <2>1. t \in Waiting /\ Waiting' \subseteq (Waiting \ {t}) \cup {u}
    BY <1>0, <1>3 DEF Waiting
  <2>2. /\ IsFiniteSet(Waiting \ {t})
        /\ Cardinality(Waiting \ {t}) = Cardinality(Waiting) - 1
    BY <1>1, <2>1, FS_RemoveElement
  <2>3. CASE Waits(u)
    <3>1. /\ IsFiniteSet((Waiting \ {t}) \cup {u})
          /\ Cardinality((Waiting \ {t}) \cup {u}) =
                IF u \in Waiting \ {t} THEN Cardinality(Waiting \ {t})
                                       ELSE Cardinality(Waiting \ {t}) + 1
      BY <2>2, FS_AddElement
    <3>2. Cardinality(Waiting') <= Cardinality((Waiting \ {t}) \cup {u})
      BY <2>1, <3>1, FS_Subset
    <3> QED BY <1>1, <2>2, <2>3, <3>1, <3>2
  <2>4. CASE ~Waits(u)
    <3>1. Waiting' \subseteq Waiting \ {t}
      BY <1>0, <2>1, <2>4
    <3>2. Cardinality(Waiting') <= Cardinality(Waiting \ {t})
      BY <2>2, <3>1, FS_Subset
    <3> QED BY <1>1, <2>2, <3>2
  <2> QED BY <2>3, <2>4
<1> QED BY <1>2, <1>3

-----------------------------------------------------------------------------
(* How a tool ends.                                                          *)

\* A stage is closed, or is open for one more attempt, and its tick is over or
\* posts a CANCEL.
Turned(s, rest) ==
    /\ \/ Closed(s)
       \/ /\ Reopened(s) /\ tries' = [tries EXCEPT ![s] = @ + 1]
          /\ tries[s] < RetryMax \/ (s = "ln_pay" /\ tries[s] < PayTries)
    /\ \/ Idles(Owner(s), rest)
       \/ tools' = rest \cup {Call(s, "cancel", None, "start")} /\ UNCHANGED busy
    /\ aborted' \in [Worker -> BOOLEAN]

Ending(t, rest) ==
    \/ Turned(t.stage, rest)
    \/ ~t.live /\ tools' = rest /\ UNCHANGED <<stage, tries, busy, aborted>>
    \/ t.op = "cancel" /\ Idles(t.by, rest) /\ UNCHANGED <<stage, tries, aborted>>
    \/ /\ t.op = "precheck_ok" /\ t.live
       /\ tools' = rest \cup {[t EXCEPT !.op = "precheck_fail", !.pc = "post"]}
       /\ UNCHANGED <<stage, tries, busy, aborted>>

LEMMA RetryTurns ==
    ASSUME Types, NEW s \in Stage, NEW rest, RetriesOrAborts(s, rest)
    PROVE  Turned(s, rest)
<1>1. Owner(s) \in Worker /\ aborted \in [Worker -> BOOLEAN]
  BY DEF Owner, Worker, Types, StageTypes
<1>2. CASE tries[s] < RetryMax
  BY <1>1, <1>2 DEF RetriesOrAborts, Turned
<1>3. CASE ~(tries[s] < RetryMax)
  BY <1>1, <1>3 DEF RetriesOrAborts, Aborts, Turned
<1> QED BY <1>2, <1>3

LEMMA EndsSo ==
    ASSUME Types, NEW t, ToolOK(t), NEW rest, Fails(t, rest) \/ Succeeds(t, rest)
    PROVE  Ending(t, rest)
<1>1. t.stage \in Stage /\ t.by = Owner(t.stage) /\ t.live \in BOOLEAN
      /\ aborted \in [Worker -> BOOLEAN]
  BY ToolFields DEF Types, StageTypes
<1>2. ASSUME Fails(t, rest) PROVE Ending(t, rest)
  <2>1. CASE ~t.live
    BY <1>2, <2>1 DEF Fails, Ending
  <2>2. CASE t.live /\ t.op = "cancel"
    BY <1>2, <2>2 DEF Fails, Ending
  <2>3. CASE t.live /\ t.op = "precheck_ok"
    BY <1>2, <2>3 DEF Fails, Ending
  <2>4. CASE t.live /\ t.op = "ln_paid"
    <3>1. PayFails(rest) /\ t.stage = "ln_pay" /\ Owner("ln_pay") = "taker"
      BY <1>2, <2>4 DEF Fails, ToolOK, Owner, MakerStage
    <3>2. tries["ln_pay"] \in Nat /\ PayTries \in Nat
      BY TradeAutoAssumption DEF Types, StageTypes, Stage, MakerStage, TakerStage
    <3> QED BY <1>1, <3>1, <3>2 DEF PayFails, Turned, Ending
  <2>5. CASE t.live /\ t.op \notin {"cancel", "precheck_ok", "ln_paid"}
    <3>1. RetriesOrAborts(t.stage, rest)
      BY <1>2, <2>5 DEF Fails
    <3> QED BY <1>1, <3>1, RetryTurns DEF Ending
  <2> QED BY <1>1, <2>1, <2>2, <2>3, <2>4, <2>5
<1>3. ASSUME Succeeds(t, rest), ~Fails(t, rest) PROVE Ending(t, rest)
  <2>1. Closed(t.stage) /\ Idles(t.by, rest) /\ UNCHANGED aborted
    BY <1>3 DEF Succeeds
  <2> QED BY <1>1, <2>1 DEF Turned, Ending
<1> QED BY <1>2, <1>3

LEMMA TurnedStages ==
    ASSUME Types, NEW s \in Stage, NEW rest, Turned(s, rest)
    PROVE  StageTypes' /\ Attempts' >= Attempts /\ Attempts' \in Nat
<1>0. /\ stage \in [Stage -> {"open", "running", "done"}]
      /\ tries \in [Stage -> 0 .. RetryMax + PayTries] /\ busy \in [Worker -> BOOLEAN]
      /\ \A x \in Stage \ {"ln_pay"} : tries[x] <= RetryMax
      /\ RetryMax \in Nat /\ PayTries \in Nat /\ Owner(s) \in Worker /\ "escrow" \in Stage
  BY TradeAutoAssumption DEF Types, StageTypes, Owner, Worker, Stage, MakerStage
<1>1. busy' \in [Worker -> BOOLEAN] /\ aborted' \in [Worker -> BOOLEAN]
  BY <1>0 DEF Turned, Idles
<1>2. CASE Closed(s)
  <2>1. /\ stage' \in [Stage -> {"open", "running", "done"}]
        /\ tries' \in [Stage -> 0 .. RetryMax + PayTries]
        /\ \A x \in Stage \ {"ln_pay"} : tries'[x] <= RetryMax
    BY <1>0, <1>2 DEF Closed
  <2>2. Attempts' >= Attempts
    <3>1. CASE s = "escrow"
      BY <1>0, <1>2, <3>1 DEF Closed, Attempts
    <3>2. CASE s # "escrow"
      BY <1>0, <1>2, <3>2 DEF Closed, Attempts
    <3> QED BY <3>1, <3>2
  <2> QED BY <1>0, <1>1, <2>1, <2>2 DEF StageTypes, Attempts
<1>3. CASE /\ Reopened(s) /\ tries' = [tries EXCEPT ![s] = @ + 1]
           /\ tries[s] < RetryMax \/ (s = "ln_pay" /\ tries[s] < PayTries)
  <2>1. /\ stage' \in [Stage -> {"open", "running", "done"}]
        /\ stage'[s] \in {"open", "done"} /\ (stage[s] = "done" => stage'[s] = "done")
        /\ stage[s] # "done" => stage'[s] = "open"
        /\ \A x \in Stage \ {s} : stage'[x] = stage[x]
    BY <1>0, <1>3 DEF Reopened
  <2>2. tries[s] + 1 \in 0 .. RetryMax + PayTries
    BY <1>0, <1>3
  <2>3. /\ tries' \in [Stage -> 0 .. RetryMax + PayTries]
        /\ tries'[s] = tries[s] + 1 /\ \A x \in Stage \ {s} : tries'[x] = tries[x]
    BY <1>0, <1>3, <2>2
  <2>4. \A x \in Stage \ {"ln_pay"} : tries'[x] <= RetryMax
    BY <1>0, <1>3, <2>3
  <2>5. Attempts' >= Attempts
    <3>1. CASE s = "escrow"
      BY <1>0, <2>1, <2>3, <3>1 DEF Attempts
    <3>2. CASE s # "escrow"
      BY <1>0, <2>1, <2>3, <3>2 DEF Attempts
    <3> QED BY <3>1, <3>2
  <2> QED BY <1>0, <1>1, <2>1, <2>3, <2>4, <2>5 DEF StageTypes, Attempts
<1> QED BY <1>2, <1>3 DEF Turned

\* All that is new is a tool that posts a CANCEL or what was found of a route.
LEMMA TurnedTools ==
    ASSUME Types, NEW s \in Stage, NEW rest, Turned(s, rest)
    PROVE  /\ rest \subseteq tools'
           /\ \E z : /\ ToolOK(z) /\ z.op \in {"cancel", "precheck_fail"}
                     /\ tools' \subseteq rest \cup {z}
<1> DEFINE c == Call(s, "cancel", None, "start")
<1>1. ToolOK(c) /\ c.op = "cancel"
  <2>1. "cancel" \in Kind /\ None \in 0 .. made
    BY DEF Kind, None, Types
  <2> QED BY <2>1, CallOK
<1>2. tools' = rest \/ tools' = rest \cup {c}
  BY DEF Turned, Idles
<1> HIDE DEF c
<1> QED BY <1>1, <1>2

LEMMA EndingTools ==
    ASSUME Types, NEW t, ToolOK(t), NEW rest, Ending(t, rest)
    PROVE  /\ rest \subseteq tools'
           /\ \E z : /\ ToolOK(z) /\ z.op \in {"cancel", "precheck_fail"}
                     /\ tools' \subseteq rest \cup {z}
<1>1. CASE Turned(t.stage, rest)
  BY <1>1, ToolFields, TurnedTools
<1>2. CASE tools' = rest
  <2> DEFINE c == Call("escrow", "cancel", None, "start")
  <2>1. ToolOK(c) /\ c.op = "cancel"
    <3>1. "cancel" \in Kind /\ None \in 0 .. made /\ "escrow" \in Stage
      BY DEF Kind, None, Types, Stage, MakerStage
    <3> QED BY <3>1, CallOK
  <2> HIDE DEF c
  <2> QED BY <1>2, <2>1
<1>3. CASE /\ t.op = "precheck_ok"
           /\ tools' = rest \cup {[t EXCEPT !.op = "precheck_fail", !.pc = "post"]}
  <2> DEFINE u == [t EXCEPT !.op = "precheck_fail", !.pc = "post"]
  <2>1. ToolOK(u) /\ u.op = "precheck_fail"
    BY <1>3, ToolNoRoute
  <2>2. tools' = rest \cup {u}
    BY <1>3
  <2> HIDE DEF u
  <2> QED BY <2>1, <2>2
<1> QED BY <1>1, <1>2, <1>3 DEF Ending, Idles

LEMMA TurnedAwaited ==
    ASSUME Types, ToolsOK, Awaited, NEW s \in Stage, NEW rest, Turned(s, rest),
           \A y \in tools : y.stage # s => y \in rest,
           \A y \in tools : y.by # Owner(s) => y \in rest
    PROVE  Awaited'
<1>0. /\ stage \in [Stage -> {"open", "running", "done"}]
      /\ busy \in [Worker -> BOOLEAN] /\ Owner(s) \in Worker
  BY DEF Types, StageTypes, Owner, Worker
<1>1. /\ stage'[s] # "running" /\ \A x \in Stage \ {s} : stage'[x] = stage[x]
  <2>1. Closed(s) \/ Reopened(s)
    BY DEF Turned
  <2> QED BY <1>0, <2>1 DEF Closed, Reopened
<1>2. rest \subseteq tools'
  BY TurnedTools
<1>3. ASSUME NEW x \in Stage, stage'[x] = "running"
      PROVE  \E y \in tools' : y.stage = x /\ y.live /\ y.op # "cancel"
  BY <1>1, <1>2, <1>3 DEF Awaited
<1>4. ASSUME NEW w \in Worker \ {Owner(s)}, busy'[w]
      PROVE  \E y \in tools' : y.by = w /\ y.live
  <2>1. busy[w]
    BY <1>0, <1>4 DEF Turned, Idles
  <2> QED BY <1>2, <2>1 DEF Awaited
<1>5. ASSUME busy'[Owner(s)]
      PROVE  \E y \in tools' : y.by = Owner(s) /\ y.live
  <2> DEFINE c == Call(s, "cancel", None, "start")
  <2>1. c.by = Owner(s) /\ c.live
    BY DEF Call
  <2>2. tools' = rest \cup {c}
    BY <1>0, <1>5 DEF Turned, Idles
  <2> HIDE DEF c
  <2> QED BY <2>1, <2>2
<1> QED BY <1>3, <1>4, <1>5 DEF Awaited

LEMMA EndingAwaited ==
    ASSUME Types, ToolsOK, Awaited, NEW t \in tools, NEW rest, tools \ {t} \subseteq rest,
           Ending(t, rest)
    PROVE  Awaited'
<1>0. t.by = Owner(t.stage) /\ t.stage \in Stage /\ t.by \in Worker
      /\ busy \in [Worker -> BOOLEAN]
  BY ToolFields DEF ToolsOK, Types, StageTypes
<1>r. rest \subseteq tools'
  BY EndingTools DEF ToolsOK
<1>1. CASE Turned(t.stage, rest)
  BY <1>0, <1>1, TurnedAwaited
<1>2. CASE ~t.live /\ UNCHANGED <<stage, busy>>
  BY <1>2, <1>r DEF Awaited
<1>3. CASE t.op = "cancel" /\ Idles(t.by, rest) /\ UNCHANGED stage
  <2>1. \A w \in Worker : busy'[w] => w # t.by /\ busy[w]
    BY <1>0, <1>3 DEF Idles
  <2> QED BY <1>3, <1>r, <2>1 DEF Awaited
<1>4. CASE /\ t.op = "precheck_ok" /\ t.live
           /\ tools' = rest \cup {[t EXCEPT !.op = "precheck_fail", !.pc = "post"]}
           /\ UNCHANGED <<stage, busy>>
  <2> DEFINE u == [t EXCEPT !.op = "precheck_fail", !.pc = "post"]
  <2>1. u.op = "precheck_fail" /\ u.by = t.by /\ u.stage = t.stage /\ u.live
    BY <1>4, ToolNoRoute DEF ToolsOK
  <2>2. tools' = rest \cup {u}
    BY <1>4
  <2> HIDE DEF u
  <2> QED BY <1>4, <2>1, <2>2 DEF Awaited
<1> QED BY <1>1, <1>2, <1>3, <1>4 DEF Ending

\* The end of a tool t, of which u may be left.
LEMMA EndingStep ==
    ASSUME Types, ToolsOK, Budget, Awaited, NEW t \in tools, NEW u, ToolOK(u),
           u.op = t.op, u.pc = t.pc,
           NEW rest, tools \ {t} \subseteq rest, rest \subseteq (tools \ {t}) \cup {u},
           Ending(t, rest), UNCHANGED <<made, locks, paid, restarts>>
    PROVE  /\ StageTypes' /\ ToolsOK' /\ Budget' /\ Awaited'
           /\ \A x \in tools' : x.op = "ln_paid" => \E y \in tools : y.op = "ln_paid"
<1>0. ToolOK(t)
  BY DEF ToolsOK
<1>1. PICK z : /\ ToolOK(z) /\ z.op \in {"cancel", "precheck_fail"}
               /\ tools' \subseteq rest \cup {z}
  BY <1>0, EndingTools
<1>2. ToolsOK'
  <2>1. Grows
    BY DEF Grows, Types
  <2>2. \A x \in tools' : ToolOK(x)
    BY <1>1 DEF ToolsOK
  <2> QED BY <2>1, <2>2, ToolStays DEF ToolsOK
<1>3. Awaited'
  BY EndingAwaited
<1>4. StageTypes' /\ Attempts' >= Attempts /\ Attempts' \in Nat
  <2>1. CASE Turned(t.stage, rest)
    BY <1>0, <2>1, ToolFields, TurnedStages
  <2>2. CASE UNCHANGED <<stage, tries, aborted>> /\ busy' \in [Worker -> BOOLEAN]
    <3>1. Attempts' = Attempts
      BY <2>2 DEF Attempts
    <3> QED BY <2>2, <3>1, AttemptsRange DEF StageTypes, Types
  <2> QED BY <2>1, <2>2 DEF Ending, Idles, Types, StageTypes
<1>5. Budget'
  <2>1. IsFiniteSet(tools')
    <3>1. IsFiniteSet(tools \ {t})
      BY FS_RemoveElement DEF Budget
    <3>2. IsFiniteSet(((tools \ {t}) \cup {u}) \cup {z})
      BY <3>1, FS_AddElement
    <3>3. tools' \subseteq ((tools \ {t}) \cup {u}) \cup {z}
      BY <1>1
    <3> QED BY <3>2, <3>3, FS_Subset
  <2>2. \A x \in tools' : x \in rest \/ ~Waits(x)
    BY <1>1 DEF Waits
  <2>3. Waits(u) => Waits(t)
    BY DEF Waits
  <2>4. /\ Cardinality(Waiting) \in Nat /\ Cardinality(Waiting') \in Nat
        /\ Cardinality(Waiting') <= Cardinality(Waiting)
    BY <2>1, <2>2, <2>3, WaitingSwap DEF Budget
  <2>5. Cardinality(locks) \in Nat
    BY FS_CardinalityType DEF Budget
  <2>6. Used' >= Used /\ Used \in Nat /\ Used' \in Int
    <3> DEFINE k == (RetryMax + 1) * restarts
    <3>1. Used = k + Attempts /\ Used' = k + Attempts'
      BY DEF Used
    <3>2. k \in Int
      <4>1. RetryMax + 1 \in Int /\ restarts \in Int
        BY TradeAutoAssumption DEF Types
      <4> QED BY <4>1
    <3> HIDE DEF k
    <3> QED BY <1>4, <3>1, <3>2, AttemptsRange
  <2> QED BY <2>1, <2>4, <2>5, <2>6 DEF Budget
<1>6. \A x \in tools' : x.op = "ln_paid" => \E y \in tools : y.op = "ln_paid"
  BY <1>1
<1> QED BY <1>2, <1>3, <1>4, <1>5, <1>6

-----------------------------------------------------------------------------
(* A tick that starts a tool.                                                *)

LEMMA StartsStep ==
    ASSUME IInv, NEW s \in Stage, MayRun(s), NEW c, ToolOK(c),
           c.by = Owner(s), c.stage = s, c.live, c.op # "cancel",
           c.op = "ln_paid" => EscrowHeard, c.op = "escrow" => s = "escrow",
           Starts(s, c), faults' \in 0 .. MaxFaults
    PROVE  IInv'
<1> USE DEF IInv
<1>0. /\ busy' = [busy EXCEPT ![Owner(s)] = TRUE] /\ stage' = [stage EXCEPT ![s] = "running"]
      /\ tools' = tools \cup {c} /\ stage[s] = "open"
      /\ UNCHANGED <<log, wire, tries, aborted, replays, cache, made, locks, paid, claimed,
                     file, preimage, restarts>>
  BY DEF Starts, MayRun, chain, receipts
<1>1. StageTypes'
  <2>1. Owner(s) \in Worker
    BY DEF Owner, Worker
  <2> QED BY <1>0, <2>1 DEF Types, StageTypes
<1>2. Types' /\ Messages'
  BY <1>0, <1>1 DEF Types, Messages, Spoken
<1>3. ToolsOK'
  <2>1. Grows
    BY <1>0 DEF Grows, Types
  <2> QED BY <1>0, <2>1, ToolStays DEF ToolsOK
<1>4. PaysAfterEscrow' /\ PaidIsBacked'
  BY <1>0 DEF PaysAfterEscrow, EscrowHeard, PaidIsBacked
<1>5. Awaited'
  <2>1. \A w \in Worker : busy'[w] => busy[w] \/ w = Owner(s)
    BY <1>0 DEF Types, StageTypes
  <2>2. \A x \in Stage : stage'[x] = "running" => stage[x] = "running" \/ x = s
    BY <1>0 DEF Types, StageTypes
  <2> QED BY <1>0, <2>1, <2>2 DEF Awaited
<1>6. Budget'
  <2>1. IsFiniteSet(tools') /\ IsFiniteSet(locks')
    BY <1>0, FS_AddElement DEF Budget
  <2>2. IsFiniteSet(Waiting) /\ Cardinality(Waiting) \in Nat
    <3>1. Waiting \subseteq tools
      BY DEF Waiting
    <3> QED BY <3>1, FS_Subset, FS_CardinalityType DEF Budget
  <2>3. Attempts' = IF s = "escrow" THEN Attempts + 1 ELSE Attempts
    BY <1>0 DEF Attempts, Types, StageTypes, Stage, MakerStage
  <2>4. Cardinality(Waiting') <= Cardinality(Waiting) + (IF s = "escrow" THEN 1 ELSE 0)
        /\ Cardinality(Waiting') \in Nat
    <3>1. CASE Waits(c)
      <4>1. s = "escrow" /\ Waiting' = Waiting \cup {c}
        BY <1>0, <3>1 DEF Waiting, Waits
      <4>2. Cardinality(Waiting \cup {c}) =
                IF c \in Waiting THEN Cardinality(Waiting) ELSE Cardinality(Waiting) + 1
        BY <2>2, FS_AddElement
      <4>3. /\ Cardinality(Waiting \cup {c}) \in Nat
            /\ Cardinality(Waiting \cup {c}) <= Cardinality(Waiting) + 1
        BY <2>2, <4>2
      <4> QED BY <4>1, <4>3
    <3>2. CASE ~Waits(c)
      <4>1. Waiting' = Waiting
        BY <1>0, <3>2 DEF Waiting, Waits
      <4> QED BY <2>2, <4>1
    <3> QED BY <3>1, <3>2
  <2>5. Cardinality(locks) \in Nat /\ Cardinality(locks') = Cardinality(locks)
    BY <1>0, FS_CardinalityType DEF Budget
  <2>6. Used' = Used + (IF s = "escrow" THEN 1 ELSE 0)
    <3> DEFINE k == (RetryMax + 1) * restarts
    <3>1. Used = k + Attempts /\ Used' = k + Attempts'
      BY <1>0 DEF Used
    <3>2. k \in Int
      <4>1. RetryMax + 1 \in Int /\ restarts \in Int
        BY TradeAutoAssumption DEF Types
      <4> QED BY <4>1
    <3> HIDE DEF k
    <3> QED BY <2>3, <3>1, <3>2, AttemptsRange
  <2>7. Cardinality(locks') + Cardinality(Waiting') <= Used'
    BY <2>2, <2>4, <2>5, <2>6, AttemptsRange DEF Budget
  <2> QED BY <2>1, <2>7 DEF Budget
<1> QED BY <1>2, <1>3, <1>4, <1>5, <1>6

\* Every tick that starts a tool starts one that is what a tool is.
LEMMA TickStarts ==
    ASSUME IInv, PostsTerms \/ PostsAccept \/ Invoices \/ Prechecks \/ Escrows \/ Pays \/ Claims
    PROVE  IInv'
<1> USE DEF IInv
<1>0. /\ None \in 0 .. made /\ faults \in 0 .. MaxFaults /\ Stage = MakerStage \cup TakerStage
      /\ Kind = {"terms", "accept", "ln_invoice", "precheck_ok", "precheck_fail",
                 "escrow", "ln_paid", "claimed", "cancel"}
  BY DEF None, Types, Stage, Kind
<1>1. ASSUME NEW s \in Stage, MayRun(s), NEW k \in Kind \ {"ln_paid", "cancel"},
             NEW h \in 0 .. made, NEW pc \in {"start", "post"},
             k = "escrow" => s = "escrow" /\ h # None, k = "ln_invoice" => pc = "start",
             Starts(s, Call(s, k, h, pc)), faults' \in 0 .. MaxFaults
      PROVE  IInv'
  <2> DEFINE c == Call(s, k, h, pc)
  <2>1. ToolOK(c) /\ c.by = Owner(s) /\ c.stage = s /\ c.op = k /\ c.live
    BY <1>1, CallOK
  <2>2. Starts(s, c)
    BY <1>1
  <2> HIDE DEF c, IInv
  <2> QED BY <1>1, <2>1, <2>2, StartsStep
<1>2. CASE PostsTerms
  BY <1>0, <1>1, <1>2 DEF PostsTerms, MakerStage
<1>3. CASE PostsAccept
  BY <1>0, <1>1, <1>3 DEF PostsAccept, TakerStage
<1>4. CASE Invoices
  BY <1>0, <1>1, <1>4 DEF Invoices, MakerStage
<1>5. CASE Prechecks
  <2>1. MayRun("ln_route_precheck") /\ faults' \in 0 .. MaxFaults
    <3>1. MaxFaults \in Nat
      BY TradeAutoAssumption
    <3>2. UNCHANGED faults \/ (faults < MaxFaults /\ faults' = faults + 1)
      BY <1>5 DEF Prechecks
    <3>3. faults' \in 0 .. MaxFaults
      BY <1>0, <3>1, <3>2
    <3> QED BY <1>5, <3>3 DEF Prechecks
  <2>2. \/ Starts("ln_route_precheck", Call("ln_route_precheck", "precheck_ok", None, "post"))
        \/ Starts("ln_route_precheck", Call("ln_route_precheck", "precheck_fail", None, "post"))
    BY <1>5 DEF Prechecks
  <2> QED BY <1>0, <1>1, <2>1, <2>2 DEF TakerStage
<1>6. CASE Escrows
  <2> DEFINE h == Latest("maker", "ln_invoice").hash
  <2>1. h \in 0 .. made /\ h # None
    <3>1. Has("maker", "ln_invoice")
      BY <1>6 DEF Escrows, MayRun, Due
    <3> QED BY <3>1, LatestSpoken DEF Worker, Spoken
  <2>2. MayRun("escrow") /\ Starts("escrow", Call("escrow", "escrow", h, "start"))
        /\ UNCHANGED faults
    BY <1>6 DEF Escrows
  <2> HIDE DEF h
  <2> QED BY <1>0, <1>1, <2>1, <2>2 DEF MakerStage
<1>7. CASE Pays
  <2> DEFINE invoice == Latest("taker", "ln_invoice")
             escrow == Latest("taker", "escrow")
             h == IF PrePay(invoice, escrow) THEN invoice.hash ELSE None
             c == Call("ln_pay", "ln_paid", h, "start")
  <2>1. MayRun("ln_pay") /\ Starts("ln_pay", c) /\ UNCHANGED faults
    BY <1>7 DEF Pays
  <2>2. Has("taker", "ln_invoice") /\ Has("taker", "escrow") /\ ~Has("taker", "cancel")
    BY <2>1 DEF MayRun, Due, Terminal, Owner, MakerStage
  <2>3. invoice.hash \in 0 .. made
    BY <2>2, LatestSpoken DEF Worker, Spoken
  <2>4. h # None => \E l \in locks : l.hash = h
    <3>1. CASE PrePay(invoice, escrow)
      <4>1. [hash |-> escrow.hash, id |-> escrow.id] \in locks /\ escrow.hash = invoice.hash
        BY <3>1 DEF PrePay
      <4>2. [hash |-> escrow.hash, id |-> escrow.id].hash = escrow.hash
        OBVIOUS
      <4> QED BY <3>1, <4>1, <4>2
    <3>2. CASE ~PrePay(invoice, escrow)
      BY <3>2
    <3> QED BY <3>1, <3>2
  <2>5. h \in 0 .. made
    BY <1>0, <2>3
  <2>6. EscrowHeard
    <3>1. PICK j \in DOMAIN log["taker"] : log["taker"][j].kind = "escrow"
      BY <2>2 DEF Has
    <3>2. log["taker"] \in Seq(Spoken)
      BY DEF Messages, Worker
    <3>3. \A i \in 1 .. j : i \in DOMAIN log["taker"]
      BY <3>1, <3>2
    <3> QED BY <2>2, <3>1, <3>3 DEF Has, EscrowHeard
  <2> HIDE DEF h
  <2>7. ToolOK(c) /\ c.by = Owner("ln_pay") /\ c.stage = "ln_pay" /\ c.op = "ln_paid" /\ c.live
    <3>1. "ln_pay" \in Stage /\ "ln_paid" \in Kind
      BY <1>0 DEF TakerStage
    <3> QED BY <2>4, <2>5, <3>1, CallOK
  <2> HIDE DEF c, IInv
  <2>8. "ln_pay" \in Stage
    BY <1>0 DEF TakerStage
  <2> QED BY <1>0, <2>1, <2>6, <2>7, <2>8, StartsStep
<1>8. CASE Claims
  <2> DEFINE h == IF cache # None THEN cache ELSE preimage
  <2>1. h \in 0 .. made
    BY <1>0 DEF Types
  <2>2. MayRun("claim") /\ Starts("claim", Call("claim", "claimed", h, "start"))
        /\ UNCHANGED faults
    BY <1>8 DEF Claims
  <2> HIDE DEF h
  <2> QED BY <1>0, <1>1, <2>1, <2>2 DEF TakerStage
<1> QED BY <1>2, <1>3, <1>4, <1>5, <1>6, <1>7, <1>8

-----------------------------------------------------------------------------
(* A step inside a tool: t has become u.                                     *)

FileState == {"none", "terms", "accepted", "invoice", "escrow", "ln_paid", "claimed",
              "canceled"}

LEMMA InsideStep ==
    ASSUME IInv, NEW t \in tools, NEW u, ToolOK(u)',
           u.by = t.by, u.stage = t.stage, u.op = t.op, u.live = t.live,
           Waits(u) => Waits(t), tools' = (tools \ {t}) \cup {u},
           UNCHANGED <<log, wire, stage, tries, busy, aborted, replays, cache, faults, restarts>>,
           made' \in made .. MaxInvoices, claimed' \subseteq locks',
           file' \in [Worker -> FileState], preimage' \in paid' \cup {None},
           \/ UNCHANGED locks
           \/ Waits(t) /\ ~Waits(u) /\ \E l \in Lock : locks' = locks \cup {l},
           \/ UNCHANGED paid
           \/ t.op = "ln_paid" /\ t.hash # None /\ paid' = paid \cup {t.hash}
    PROVE  IInv'
<1> USE DEF IInv
<1>0. /\ ToolOK(t) /\ made \in 0 .. MaxInvoices /\ made' \in 0 .. MaxInvoices
      /\ made \in Nat /\ made' \in Nat /\ made <= made'
  <2>1. MaxInvoices \in Nat
    BY TradeAutoAssumption
  <2> QED BY <2>1 DEF ToolsOK, Types
<1>1. Grows
  BY <1>0 DEF Grows
<1>2. Types'
  <2>1. paid' \subseteq 1 .. made'
    <3>1. paid \subseteq 1 .. made'
      BY <1>0 DEF Types
    <3>2. t.hash \in 0 .. made'
      BY <1>0, ToolFields
    <3>3. t.hash # None => t.hash \in 1 .. made'
      BY <1>0, <3>2 DEF None
    <3> QED BY <3>1, <3>3
  <2>2. locks' \subseteq Lock
    BY DEF Types
  <2>3. cache' \in paid' \cup {None}
    BY <1>1 DEF Types, Grows
  <2>4. StageTypes'
    BY DEF Types, StageTypes
  <2> QED BY <1>0, <2>1, <2>2, <2>3, <2>4 DEF Types, FileState
<1>3. ToolsOK'
  <2>1. \A x \in tools : ToolOK(x)'
    BY <1>1, ToolStays DEF ToolsOK
  <2> QED BY <2>1 DEF ToolsOK
<1>4. Messages'
  BY <1>0, MessagesKept DEF Messages
<1>5. PaidIsBacked'
  <2>1. t.op = "ln_paid" /\ t.hash # None => \E l \in locks : l.hash = t.hash
    BY <1>0 DEF ToolOK
  <2> QED BY <1>1, <2>1 DEF PaidIsBacked, Grows
<1>6. PaysAfterEscrow'
  <2>1. EscrowHeard' = EscrowHeard
    BY DEF EscrowHeard
  <2>2. paid' # {} \/ (\E x \in tools' : x.op = "ln_paid")
            => paid # {} \/ (\E x \in tools : x.op = "ln_paid")
    BY DEF PaysAfterEscrow
  <2> QED BY <2>1, <2>2 DEF PaysAfterEscrow
<1>7. Awaited'
  BY DEF Awaited
<1>8. Budget'
  <2>1. IsFiniteSet(tools')
    <3>1. IsFiniteSet(tools \ {t})
      BY FS_RemoveElement DEF Budget
    <3> QED BY <3>1, FS_AddElement
  <2>2. /\ Cardinality(Waiting) \in Nat /\ Cardinality(Waiting') \in Nat
        /\ Cardinality(Waiting') <= Cardinality(Waiting)
        /\ Waits(t) /\ ~Waits(u) => Cardinality(Waiting') <= Cardinality(Waiting) - 1
    BY <2>1, WaitingSwap DEF Budget
  <2>3. Used' = Used
    BY DEF Used, Attempts
  <2>4. Cardinality(locks) \in Nat
    BY FS_CardinalityType DEF Budget
  <2>5. CASE UNCHANGED locks
    BY <2>1, <2>2, <2>3, <2>4, <2>5, AttemptsRange DEF Budget
  <2>6. ASSUME NEW l \in Lock, locks' = locks \cup {l}, Waits(t), ~Waits(u)
        PROVE  Budget'
    <3>1. /\ IsFiniteSet(locks')
          /\ Cardinality(locks') =
                IF l \in locks THEN Cardinality(locks) ELSE Cardinality(locks) + 1
      BY <2>6, FS_AddElement DEF Budget
    <3>2. Cardinality(locks') \in Nat /\ Cardinality(locks') <= Cardinality(locks) + 1
      BY <2>4, <3>1
    <3>3. Cardinality(Waiting') <= Cardinality(Waiting) - 1
      BY <2>2, <2>6
    <3>4. Cardinality(locks) + Cardinality(Waiting) <= Used /\ Used \in Nat
      BY AttemptsRange DEF Budget
    <3>5. Cardinality(locks') + Cardinality(Waiting') <= Used'
      BY <2>2, <2>3, <2>4, <3>2, <3>3, <3>4
    <3> QED BY <2>1, <3>1, <3>5 DEF Budget
  <2> QED BY <2>5, <2>6
<1> QED BY <1>2, <1>3, <1>4, <1>5, <1>6, <1>7, <1>8

\* A tool is at another point, and the chain is as it was or has grown.
LEMMA MoveStep ==
    ASSUME IInv, NEW t \in tools, NEW pc \in Point, Moves(t, pc), Inside,
           t.op # "ln_invoice",
           pc = "landed" => t.op \in {"escrow", "ln_paid", "claimed"},
           t.op = "ln_paid" /\ pc \in {"landed", "post"} => t.hash \in paid',
           pc \in {"start", "lock"} => t.pc \in {"start", "lock"},
           UNCHANGED made, claimed' \subseteq locks',
           file' \in [Worker -> FileState], preimage' \in paid' \cup {None},
           \/ UNCHANGED locks
           \/ /\ t.op = "escrow" /\ t.pc = "lock" /\ pc = "landed"
              /\ \E l \in Lock : locks' = locks \cup {l},
           \/ UNCHANGED paid
           \/ t.op = "ln_paid" /\ t.hash # None /\ paid' = paid \cup {t.hash}
    PROVE  IInv'
<1> DEFINE u == [t EXCEPT !.pc = pc]
<1>0. ToolOK(t) /\ made \in Nat /\ made' \in made .. MaxInvoices
  <2>1. MaxInvoices \in Nat
    BY TradeAutoAssumption
  <2> QED BY <2>1 DEF IInv, ToolsOK, Types
<1>1. /\ u \in Task /\ u.by = t.by /\ u.stage = t.stage /\ u.op = t.op /\ u.live = t.live
      /\ u.pc = pc /\ u.hash = t.hash
  BY <1>0 DEF ToolOK, Task
<1>2. tools' = (tools \ {t}) \cup {u}
  BY DEF Moves
<1> HIDE DEF u
<1>3. locks \subseteq locks'
  OBVIOUS
<1>4. ToolOK(u)'
  BY <1>0, <1>1, <1>3 DEF ToolOK
<1>5. /\ Waits(u) => Waits(t)
      /\ t.op = "escrow" /\ t.pc = "lock" /\ pc = "landed" => Waits(t) /\ ~Waits(u)
  BY <1>1 DEF Waits
<1>6. UNCHANGED <<log, wire, stage, tries, busy, aborted, replays, cache, faults, restarts>>
  BY DEF Inside, worker
<1> HIDE DEF IInv
<1> QED BY <1>0, <1>1, <1>2, <1>4, <1>5, <1>6, InsideStep

\* Every step inside a tool.
LEMMA ToolGoesOn ==
    ASSUME IInv, NEW t \in tools,
           \/ MakesInvoice(t) \/ PassesGate(t) \/ Locks(t) \/ LnPays(t) \/ LnClaims(t)
           \/ Files(t) \/ PassesCancel(t)
    PROVE  IInv'
<1>0. /\ ToolOK(t) /\ made \in 0 .. MaxInvoices /\ MaxInvoices \in Nat
      /\ made \in made .. MaxInvoices
      /\ locks \subseteq Lock /\ claimed \subseteq locks /\ paid \subseteq 1 .. made
      /\ file \in [Worker -> FileState] /\ preimage \in paid \cup {None}
  BY TradeAutoAssumption DEF IInv, ToolsOK, Types, FileState
<1>f. /\ t.op \in Kind /\ t.hash \in Nat /\ t.hash \in 0 .. MaxInvoices /\ t.id \in Id
      /\ t.by \in Worker
  BY <1>0, ToolFields
<1>p. Point = {"start", "lock", "landed", "post"}
  BY DEF Point
<1>1. CASE MakesInvoice(t)
  <2>1. PICK u : u = [t EXCEPT !.hash = made', !.pc = "post"]
    OBVIOUS
  <2>2. /\ tools' = (tools \ {t}) \cup {u} /\ made' = made + 1 /\ made < MaxInvoices
        /\ t.op = "ln_invoice" /\ Inside /\ UNCHANGED <<locks, paid, claimed, preimage>>
        /\ file' = [file EXCEPT !["maker"] = "invoice"]
    BY <1>1, <2>1 DEF MakesInvoice, Rest, Filed
  <2>3. made' \in made .. MaxInvoices /\ made' \in Hash /\ made' <= made' /\ made' # None
    BY <1>0, <2>2 DEF Hash, None
  <2>4. /\ u \in Task /\ u.by = t.by /\ u.stage = t.stage /\ u.op = t.op /\ u.live = t.live
        /\ u.pc = "post" /\ u.hash = made'
    BY <1>0, <2>1, <2>3 DEF ToolOK, Task, Point
  <2>5. ToolOK(u)'
    BY <1>0, <2>2, <2>3, <2>4 DEF ToolOK
  <2>6. ~Waits(u)
    BY <2>4 DEF Waits
  <2>7. UNCHANGED <<log, wire, stage, tries, busy, aborted, replays, cache, faults, restarts>>
    BY <2>2 DEF Inside, worker
  <2>8. file' \in [Worker -> FileState]
    BY <1>0, <2>2 DEF FileState
  <2> HIDE DEF IInv
  <2> QED BY <1>0, <2>2, <2>3, <2>4, <2>5, <2>6, <2>7, <2>8, InsideStep
<1>2. CASE PassesGate(t)
  <2>1. /\ Moves(t, "lock") /\ Inside /\ t.op = "escrow" /\ t.pc = "start"
        /\ UNCHANGED <<made, locks, paid, claimed, file, preimage>>
    BY <1>2 DEF PassesGate, chain, receipts
  <2> HIDE DEF IInv
  <2> QED BY <1>0, <1>p, <2>1, MoveStep
<1>3. CASE Locks(t)
  <2>1. /\ Moves(t, "landed") /\ Inside /\ t.op = "escrow" /\ t.pc = "lock"
        /\ locks' = locks \cup {LockOf(t)}
        /\ UNCHANGED <<made, paid, claimed, file, preimage>>
    BY <1>3 DEF Locks, receipts
  <2>2. t.hash \in Hash
    BY <1>0, <1>f, <2>1 DEF ToolOK, Hash, None
  <2>3. LockOf(t) \in Lock
    <3>1. 0 \in Id
      BY ZeroId
    <3> QED BY <1>f, <2>2, <3>1 DEF LockOf, Lock
  <2> HIDE DEF IInv
  <2> QED BY <1>0, <1>p, <2>1, <2>3, MoveStep
<1>4. CASE LnPays(t)
  <2>1. /\ Moves(t, "landed") /\ Inside /\ t.op = "ln_paid" /\ t.hash # None
        /\ paid' = paid \cup {t.hash}
        /\ UNCHANGED <<made, locks, claimed, file, preimage>>
    BY <1>4 DEF LnPays, receipts
  <2> HIDE DEF IInv
  <2> QED BY <1>0, <1>p, <2>1, MoveStep
<1>5. CASE LnClaims(t)
  <2>1. /\ Moves(t, "landed") /\ Inside /\ t.op = "claimed" /\ Claimable(t)
        /\ claimed' = claimed \cup {[hash |-> t.hash, id |-> Latest("taker", "escrow").id]}
        /\ UNCHANGED <<made, locks, paid, file, preimage>>
    BY <1>5 DEF LnClaims, receipts
  <2>2. claimed' \subseteq locks
    BY <1>0, <2>1 DEF Claimable
  <2> HIDE DEF IInv
  <2> QED BY <1>0, <1>p, <2>1, <2>2, MoveStep
<1>6. CASE Files(t)
  <2>1. /\ Moves(t, "post") /\ Inside /\ t.pc = "landed"
        /\ file' = [file EXCEPT ![t.by] = IF t.op = "escrow" THEN "escrow" ELSE t.op]
        /\ preimage' = IF t.op = "ln_paid" THEN t.hash ELSE preimage
        /\ UNCHANGED <<made, locks, paid, claimed>>
    BY <1>6 DEF Files, Filed, chain
  <2>2. t.op \in {"escrow", "ln_paid", "claimed"} /\ (t.op = "ln_paid" => t.hash \in paid)
    BY <1>0, <2>1 DEF ToolOK
  <2>3. file' \in [Worker -> FileState] /\ preimage' \in paid' \cup {None}
    BY <1>0, <2>1, <2>2 DEF FileState
  <2> HIDE DEF IInv
  <2> QED BY <1>0, <1>p, <2>1, <2>2, <2>3, MoveStep
<1>7. CASE PassesCancel(t)
  <2>1. /\ Moves(t, "post") /\ Inside /\ t.op = "cancel"
        /\ UNCHANGED <<made, locks, paid, claimed, file, preimage>>
    BY <1>7 DEF PassesCancel, chain, receipts
  <2> HIDE DEF IInv
  <2> QED BY <1>0, <1>p, <2>1, MoveStep
<1> QED BY <1>1, <1>2, <1>3, <1>4, <1>5, <1>6, <1>7

-----------------------------------------------------------------------------
(* The end of a tool.                                                        *)

LEMMA EnvelopeSpoken ==
    ASSUME NEW t, ToolOK(t), t.op = "ln_invoice" => t.pc # "start", made \in Nat
    PROVE  Envelope(t) \in Spoken
<1>1. t.op \in Kind /\ t.hash \in 0 .. made /\ (t.op = "ln_invoice" => t.hash # None)
  <2>1. ToolOK(t)
    OBVIOUS
  <2> QED BY <2>1, ToolFields DEF ToolOK
<1>2. (IF t.op = "escrow" THEN LockOf(t).id ELSE 0) \in Id
  BY ToolFields, ZeroId DEF LockOf
<1> QED BY <1>1, <1>2 DEF Envelope, Say, Spoken

LEMMA ToolEnds ==
    ASSUME IInv, NEW t \in tools, NEW u, ToolOK(u), u.op = t.op, u.pc = t.pc,
           NEW rest, tools \ {t} \subseteq rest, rest \subseteq (tools \ {t}) \cup {u},
           Fails(t, rest) \/ Succeeds(t, rest),
           UNCHANGED <<replays, made, locks, paid, claimed, preimage, restarts>>,
           UNCHANGED log \/ \E w \in Worker, m \in Spoken : Logged(w, m),
           UNCHANGED wire \/ \E w \in Worker, m \in Spoken : Send(w, m),
           cache' \in paid \cup {None}, file' \in [Worker -> FileState],
           faults' \in 0 .. MaxFaults
    PROVE  IInv'
<1> USE DEF IInv
<1>1. Ending(t, rest)
  BY EndsSo DEF ToolsOK
<1>2. /\ StageTypes' /\ ToolsOK' /\ Budget' /\ Awaited'
      /\ \A x \in tools' : x.op = "ln_paid" => \E y \in tools : y.op = "ln_paid"
  BY <1>1, EndingStep
<1>3. Types'
  BY <1>2 DEF Types, FileState
<1>4. Messages'
  <2>1. Spoken' = Spoken
    BY DEF Spoken
  <2>2. log \in [Worker -> Seq(Spoken)] /\ wire \in [Worker -> Seq(Spoken)]
    BY DEF Messages
  <2>3. log' \in [Worker -> Seq(Spoken)]
    <3>1. ASSUME NEW w \in Worker, NEW m \in Spoken, Logged(w, m)
          PROVE  log' \in [Worker -> Seq(Spoken)]
      BY <2>2, <3>1 DEF Logged
    <3> QED BY <2>2, <3>1
  <2>4. wire' \in [Worker -> Seq(Spoken)]
    <3>1. ASSUME NEW w \in Worker, NEW m \in Spoken, Send(w, m)
          PROVE  wire' \in [Worker -> Seq(Spoken)]
      <4>1. Peer(w) \in Worker
        BY DEF Peer, Worker
      <4> QED BY <2>2, <3>1, <4>1 DEF Send
    <3> QED BY <2>2, <3>1
  <2> QED BY <2>1, <2>3, <2>4 DEF Messages
<1>5. PaidIsBacked'
  BY DEF PaidIsBacked
<1>6. PaysAfterEscrow'
  <2>1. ASSUME paid' # {} \/ (\E x \in tools' : x.op = "ln_paid")
        PROVE  EscrowHeard'
    <3>1. EscrowHeard
      BY <1>2, <2>1 DEF PaysAfterEscrow
    <3> QED BY <3>1, HeardStays
  <2> QED BY <2>1 DEF PaysAfterEscrow
<1> QED BY <1>2, <1>3, <1>4, <1>5, <1>6

LEMMA ToolStops ==
    ASSUME IInv, NEW t \in tools, Posts(t) \/ Refused(t) \/ Errs(t) \/ TimesOut(t)
    PROVE  IInv'
<1>0. /\ ToolOK(t) /\ made \in Nat /\ cache \in paid \cup {None}
      /\ file \in [Worker -> FileState] /\ faults \in 0 .. MaxFaults /\ MaxFaults \in Nat
      /\ t.by \in Worker
      /\ faults < MaxFaults => faults + 1 \in 0 .. MaxFaults
  <2>1. ToolOK(t)
    BY DEF IInv, ToolsOK
  <2> QED BY <2>1, ToolFields, TradeAutoAssumption DEF IInv, Types, FileState
<1>e. t.pc = "post" => Envelope(t) \in Spoken
  BY <1>0, EnvelopeSpoken
<1>r. tools \ {t} \subseteq Rest(t) /\ Rest(t) \subseteq (tools \ {t}) \cup {t}
  BY DEF Rest
<1>1. CASE Posts(t)
  <2>1. /\ Succeeds(t, Rest(t)) /\ Send(t.by, Envelope(t)) /\ Logged(t.by, Envelope(t))
        /\ t.pc = "post"
        /\ UNCHANGED <<replays, made, locks, paid, claimed, preimage, faults, restarts>>
    BY <1>1 DEF Posts, chain
  <2>2. cache' \in paid \cup {None}
    BY <1>0, <1>1 DEF Posts, ToolOK
  <2>3. file' \in [Worker -> FileState]
    BY <1>0, <1>1 DEF Posts, Filed, FileState
  <2>4. /\ \E w \in Worker, m \in Spoken : Logged(w, m)
        /\ \E w \in Worker, m \in Spoken : Send(w, m)
    BY <1>0, <1>e, <2>1, Zenon
  <2>5. faults' \in 0 .. MaxFaults
    BY <1>0, <2>1
  <2> QED BY <1>0, <1>r, <2>1, <2>2, <2>3, <2>4, <2>5, ToolEnds
<1>2. CASE Refused(t)
  <2>1. /\ Fails(t, Rest(t))
        /\ UNCHANGED <<log, wire, replays, cache, made, locks, paid, claimed, file, preimage,
                       faults, restarts>>
    BY <1>2 DEF Refused, chain, receipts
  <2> QED BY <1>0, <1>r, <2>1, ToolEnds
<1>3. CASE Errs(t)
  <2>1. /\ Fails(t, Rest(t)) /\ faults < MaxFaults /\ faults' = faults + 1
        /\ UNCHANGED <<log, replays, cache, made, locks, paid, claimed, file, preimage, restarts>>
        /\ UNCHANGED wire \/ (t.pc = "post" /\ Send(t.by, Envelope(t)))
    BY <1>3 DEF Errs, chain, receipts
  <2>2. UNCHANGED wire \/ \E w \in Worker, m \in Spoken : Send(w, m)
    BY <1>0, <1>e, <2>1, Zenon
  <2>3. faults' \in 0 .. MaxFaults /\ cache' \in paid \cup {None}
        /\ file' \in [Worker -> FileState]
    BY <1>0, <2>1
  <2> QED BY <1>0, <1>r, <2>1, <2>2, <2>3, ToolEnds
<1>4. CASE TimesOut(t)
  <2>1. PICK u : u = [t EXCEPT !.live = FALSE]
    OBVIOUS
  <2>2. ToolOK(u) /\ u.op = t.op /\ u.pc = t.pc
    BY <1>0, <2>1, ToolLate
  <2>3. /\ Fails(t, Rest(t) \cup {u}) /\ faults < MaxFaults /\ faults' = faults + 1
        /\ UNCHANGED <<log, wire, replays, cache, made, locks, paid, claimed, file, preimage,
                       restarts>>
    BY <1>4, <2>1 DEF TimesOut, chain, receipts
  <2>4. /\ tools \ {t} \subseteq Rest(t) \cup {u}
        /\ Rest(t) \cup {u} \subseteq (tools \ {t}) \cup {u}
    BY DEF Rest
  <2> QED BY <1>0, <2>2, <2>3, <2>4, ToolEnds
<1> QED BY <1>1, <1>2, <1>3, <1>4

-----------------------------------------------------------------------------
(* Ticks without a tool, the channel, the operator.                          *)

LEMMA WaitsTick ==
    ASSUME IInv, EscrowWaits
    PROVE  IInv'
<1> USE DEF IInv
<1>0. /\ "escrow" \in Stage /\ Owner("escrow") = "maker" /\ "maker" \in Worker
      /\ aborted \in [Worker -> BOOLEAN]
      /\ UNCHANGED <<log, wire, replays, cache, made, locks, paid, claimed, file, preimage,
                     faults, restarts>>
  BY DEF Stage, Owner, MakerStage, Worker, EscrowWaits, Types, StageTypes, chain, receipts
<1>1. Turned("escrow", tools)
  <2>1. CASE Closed("escrow") /\ Aborts("escrow", tools)
    BY <1>0, <2>1 DEF Aborts, Turned
  <2>2. CASE RetriesOrAborts("escrow", tools)
    BY <1>0, <2>2, RetryTurns
  <2> QED BY <2>1, <2>2 DEF EscrowWaits
<1>2. PICK z : /\ ToolOK(z) /\ z.op \in {"cancel", "precheck_fail"}
               /\ tools' \subseteq tools \cup {z}
  BY <1>0, <1>1, TurnedTools
<1>3. StageTypes' /\ Attempts' >= Attempts /\ Attempts' \in Nat
  BY <1>0, <1>1, TurnedStages
<1>4. Awaited'
  BY <1>0, <1>1, TurnedAwaited
<1>5. Types' /\ Messages'
  BY <1>0, <1>3 DEF Types, Messages, Spoken
<1>6. ToolsOK'
  <2>1. Grows
    BY <1>0 DEF Grows, Types
  <2>2. \A x \in tools' : ToolOK(x)
    BY <1>2 DEF ToolsOK
  <2> QED BY <2>1, <2>2, ToolStays DEF ToolsOK
<1>7. PaidIsBacked' /\ PaysAfterEscrow'
  BY <1>0, <1>2 DEF PaidIsBacked, PaysAfterEscrow, EscrowHeard
<1>8. Budget'
  <2>1. IsFiniteSet(tools')
    <3>1. IsFiniteSet(tools \cup {z})
      BY FS_AddElement DEF Budget
    <3> QED BY <1>2, <3>1, FS_Subset
  <2>2. Waiting' \subseteq Waiting /\ IsFiniteSet(Waiting)
    <3>1. Waiting \subseteq tools
      BY DEF Waiting
    <3> QED BY <1>2, <3>1, FS_Subset DEF Waiting, Waits, Budget
  <2>3. /\ Cardinality(Waiting) \in Nat /\ Cardinality(Waiting') \in Nat
        /\ Cardinality(Waiting') <= Cardinality(Waiting)
    BY <2>2, FS_Subset, FS_CardinalityType
  <2>4. Cardinality(locks) \in Nat /\ Used \in Nat
    BY FS_CardinalityType, AttemptsRange DEF Budget
  <2>5. Used' >= Used /\ Used' \in Int
    <3> DEFINE k == (RetryMax + 1) * restarts
    <3>1. Used = k + Attempts /\ Used' = k + Attempts'
      BY <1>0 DEF Used
    <3>2. k \in Int
      <4>1. RetryMax + 1 \in Int /\ restarts \in Int
        BY TradeAutoAssumption DEF Types
      <4> QED BY <4>1
    <3> HIDE DEF k
    <3> QED BY <1>3, <3>1, <3>2, AttemptsRange
  <2>6. Cardinality(locks') + Cardinality(Waiting') <= Used'
    <3>1. Cardinality(locks) + Cardinality(Waiting) <= Used /\ locks' = locks
      BY <1>0 DEF Budget
    <3> QED BY <2>3, <2>4, <2>5, <3>1
  <2> QED BY <1>0, <2>1, <2>6 DEF Budget
<1> QED BY <1>4, <1>5, <1>6, <1>7, <1>8

\* A step of the channel.
LEMMA ChannelStep ==
    ASSUME IInv,
           UNCHANGED <<stage, tries, busy, aborted, cache, tools, made, locks, paid, claimed,
                       preimage, restarts>>,
           UNCHANGED log \/ \E w \in Worker, m \in Spoken : Logged(w, m),
           log' \in [Worker -> Seq(Spoken)], wire' \in [Worker -> Seq(Spoken)],
           replays' \in 0 .. ReplayMax, file' \in [Worker -> FileState],
           faults' \in 0 .. MaxFaults
    PROVE  IInv'
<1> USE DEF IInv
<1>1. Types' /\ ToolsOK' /\ PaidIsBacked' /\ Awaited'
  BY DEF Types, StageTypes, FileState, ToolsOK, ToolOK, PaidIsBacked, Awaited
<1>2. Messages'
  BY DEF Messages, Spoken
<1>3. PaysAfterEscrow'
  <2>1. EscrowHeard => EscrowHeard'
    BY HeardStays
  <2> QED BY <2>1 DEF PaysAfterEscrow
<1>4. Budget'
  BY DEF Budget, Waiting, Used, Attempts
<1> QED BY <1>1, <1>2, <1>3, <1>4

LEMMA ChannelSteps ==
    ASSUME IInv, \/ ReplaysTerms
                 \/ \E w \in Worker : Hears(w) \/ Misses(w)
    PROVE  IInv'
<1>0. /\ log \in [Worker -> Seq(Spoken)] /\ wire \in [Worker -> Seq(Spoken)]
      /\ replays \in 0 .. ReplayMax /\ ReplayMax \in Nat
      /\ faults \in 0 .. MaxFaults /\ MaxFaults \in Nat
      /\ file \in [Worker -> FileState] /\ made \in Nat
  BY TradeAutoAssumption DEF IInv, Messages, Types, FileState
<1>1. CASE ReplaysTerms
  <2>1. /\ replays < ReplayMax /\ replays' = replays + 1
        /\ wire' = [wire EXCEPT !["taker"] = Append(@, Say("terms", None, 0))]
        /\ UNCHANGED <<log, stage, tries, busy, aborted, cache, tools, made, locks, paid,
                       claimed, file, preimage, faults, restarts>>
    BY <1>1 DEF ReplaysTerms, Send, Peer, chain, receipts
  <2>2. Say("terms", None, 0) \in Spoken
    BY <1>0, ZeroId DEF Say, Spoken, Kind, None
  <2>3. wire' \in [Worker -> Seq(Spoken)]
    <3>1. \A m \in Spoken : Append(wire["taker"], m) \in Seq(Spoken)
      BY <1>0 DEF Worker
    <3> QED BY <1>0, <2>1, <2>2, <3>1
  <2>4. replays' \in 0 .. ReplayMax
    BY <1>0, <2>1
  <2> HIDE DEF IInv
  <2> QED BY <1>0, <2>1, <2>3, <2>4, ChannelStep
<1>2. ASSUME NEW w \in Worker, Hears(w) PROVE IInv'
  <2> DEFINE m == Head(wire[w])
  <2>1. /\ UNCHANGED log \/ Logged(w, m)
        /\ wire[w] # <<>> /\ wire' = [wire EXCEPT ![w] = Tail(@)]
        /\ UNCHANGED <<stage, tries, busy, aborted, replays, cache, tools, made, locks, paid,
                       claimed, preimage, faults, restarts>>
    BY <1>2 DEF Hears, worker, chain
  <2>2. m \in Spoken /\ wire' \in [Worker -> Seq(Spoken)]
    <3>1. wire[w] \in Seq(Spoken) /\ Tail(wire[w]) \in Seq(Spoken)
      BY <1>0, <2>1
    <3> QED BY <1>0, <2>1, <3>1
  <2>3. log' \in [Worker -> Seq(Spoken)]
    <3>1. Append(log[w], m) \in Seq(Spoken)
      BY <1>0, <2>2
    <3> HIDE DEF m
    <3> QED BY <1>0, <2>1, <3>1 DEF Logged
  <2>4. file' \in [Worker -> FileState]
    BY <1>0, <1>2 DEF Hears, Filed, FileState
  <2> HIDE DEF m
  <2>5. UNCHANGED log \/ \E v \in Worker, n \in Spoken : Logged(v, n)
    BY <2>1, <2>2, Zenon
  <2> QED BY <1>0, <2>1, <2>2, <2>3, <2>4, <2>5, ChannelStep
<1>3. ASSUME NEW w \in Worker, Misses(w) PROVE IInv'
  <2>1. /\ wire[w] # <<>> /\ wire' = [wire EXCEPT ![w] = Tail(@)]
        /\ UNCHANGED faults \/ (faults < MaxFaults /\ faults' = faults + 1)
        /\ UNCHANGED <<log, stage, tries, busy, aborted, replays, cache, tools, made, locks,
                       paid, claimed, file, preimage, restarts>>
    BY <1>3 DEF Misses, worker, chain, receipts
  <2>2. wire' \in [Worker -> Seq(Spoken)]
    <3>1. wire[w] \in Seq(Spoken) /\ Tail(wire[w]) \in Seq(Spoken)
      BY <1>0, <2>1
    <3> QED BY <1>0, <2>1, <3>1
  <2>3. faults' \in 0 .. MaxFaults
    BY <1>0, <2>1
  <2> QED BY <1>0, <2>1, <2>2, <2>3, ChannelStep
<1> QED BY <1>1, <1>2, <1>3

\* A restart brings new attempts, and no tool waits more than before.
LEMMA RestartStep ==
    ASSUME IInv, NEW w \in Worker, Restarts(w)
    PROVE  IInv'
<1> USE DEF IInv
<1>0. /\ restarts' = restarts + 1 /\ restarts < MaxRestarts
      /\ faults' = faults + 1 /\ faults < MaxFaults
      /\ UNCHANGED <<log, wire, tools, made, locks, paid, claimed, file, preimage>>
      /\ stage' = [s \in Stage |-> IF Owner(s) = w THEN "open" ELSE stage[s]]
      /\ tries' = [s \in Stage |-> IF Owner(s) = w THEN 0 ELSE tries[s]]
      /\ busy' = [busy EXCEPT ![w] = FALSE] /\ aborted' = [aborted EXCEPT ![w] = FALSE]
      /\ replays' = IF w = "maker" THEN 0 ELSE replays
      /\ cache' = IF w = "taker" THEN None ELSE cache
  BY DEF Restarts, chain, receipts
<1>1. /\ RetryMax \in Nat /\ PayTries \in Nat /\ ReplayMax \in Nat /\ MaxFaults \in Nat
      /\ MaxRestarts \in Nat /\ 0 \in 0 .. RetryMax + PayTries
  BY TradeAutoAssumption
<1>2. StageTypes'
  BY <1>0, <1>1 DEF Types, StageTypes
<1>3. Types'
  <2>1. restarts' \in 0 .. MaxRestarts /\ faults' \in 0 .. MaxFaults
        /\ replays' \in 0 .. ReplayMax
    BY <1>0, <1>1 DEF Types
  <2> QED BY <1>0, <1>2, <2>1 DEF Types
<1>4. ToolsOK' /\ Messages' /\ PaidIsBacked' /\ PaysAfterEscrow'
  BY <1>0 DEF ToolsOK, ToolOK, Messages, Spoken, PaidIsBacked, PaysAfterEscrow, EscrowHeard
<1>5. Awaited'
  <2>1. \A v \in Worker : busy'[v] => busy[v]
    BY <1>0 DEF Types, StageTypes
  <2>2. \A s \in Stage : stage'[s] = "running" => stage[s] = "running"
    BY <1>0
  <2> QED BY <1>0, <2>1, <2>2 DEF Awaited
<1>6. Budget'
  <2>1. Waiting' = Waiting
    BY <1>0 DEF Waiting, Waits
  <2>2. Attempts' \in Nat
    <3>1. /\ tries'["escrow"] \in Nat /\ stage'["escrow"] \in {"open", "running", "done"}
      BY <1>1, <1>2 DEF StageTypes, Stage, MakerStage
    <3> QED BY <1>1, <3>1 DEF Attempts
  <2>3. (RetryMax + 1) * restarts' = (RetryMax + 1) * restarts + (RetryMax + 1)
        /\ (RetryMax + 1) * restarts \in Nat
    <3>1. restarts \in Nat
      BY DEF Types
    <3> DEFINE k == RetryMax + 1
    <3>2. k \in Nat
      BY <1>1
    <3> HIDE DEF k
    <3>3. k * (restarts + 1) = k * restarts + k /\ k * restarts \in Nat
      BY <3>1, <3>2
    <3> QED BY <1>0, <3>3 DEF k
  <2>4. Used' >= Used /\ Used' \in Int
    <3> DEFINE a == (RetryMax + 1) * restarts
               b == (RetryMax + 1) * restarts'
    <3>1. b = a + (RetryMax + 1) /\ a \in Nat
      BY <2>3
    <3>2. Used = a + Attempts /\ Used' = b + Attempts'
      BY DEF Used
    <3> HIDE DEF a, b
    <3> QED BY <1>1, <2>2, <3>1, <3>2, AttemptsRange
  <2>5. Cardinality(locks) \in Nat /\ Cardinality(Waiting) \in Nat
    <3>1. Waiting \subseteq tools
      BY DEF Waiting
    <3>2. IsFiniteSet(Waiting)
      BY <3>1, FS_Subset DEF Budget
    <3> QED BY <3>2, FS_CardinalityType DEF Budget
  <2>6. Cardinality(locks') + Cardinality(Waiting') <= Used'
    <3>1. Cardinality(locks) + Cardinality(Waiting) <= Used
      BY DEF Budget
    <3> QED BY <1>0, <2>1, <2>4, <2>5, <3>1, AttemptsRange
  <2> QED BY <1>0, <2>6 DEF Budget
<1> QED BY <1>3, <1>4, <1>5, <1>6

-----------------------------------------------------------------------------
LEMMA InvInit == Init => IInv
<1> SUFFICES ASSUME Init PROVE IInv
  OBVIOUS
<1> USE DEF Init
<1>0. /\ MaxInvoices \in Nat /\ RetryMax \in Nat /\ PayTries \in Nat /\ ReplayMax \in Nat
      /\ MaxFaults \in Nat /\ MaxRestarts \in Nat
  BY TradeAutoAssumption
<1>1. StageTypes
  BY <1>0 DEF StageTypes
<1>2. Types
  BY <1>0, <1>1 DEF Types, None
<1>3. ToolsOK /\ PaidIsBacked /\ PaysAfterEscrow
  BY DEF ToolsOK, PaidIsBacked, PaysAfterEscrow
<1>4. Messages
  <2>1. <<>> \in Seq(Spoken)
    OBVIOUS
  <2> QED BY <2>1 DEF Messages
<1>5. Awaited
  BY DEF Awaited
<1>6. Budget
  <2>1. Waiting = {}
    BY DEF Waiting
  <2>2. IsFiniteSet({}) /\ Cardinality({}) = 0
    BY FS_EmptySet
  <2>3. Used \in Nat
    BY <1>2, AttemptsRange
  <2> QED BY <2>1, <2>2, <2>3 DEF Budget
<1> QED BY <1>2, <1>3, <1>4, <1>5, <1>6 DEF IInv

LEMMA InvStep == IInv /\ [Next]_vars => IInv'
<1> SUFFICES ASSUME IInv, [Next]_vars PROVE IInv'
  OBVIOUS
<1>1. CASE Tick
  BY <1>1, TickStarts, WaitsTick, ChannelSteps DEF Tick
<1>2. ASSUME NEW t \in tools, Works(t) \/ Errs(t) \/ TimesOut(t) PROVE IInv'
  BY <1>2, ToolGoesOn, ToolStops DEF Works
<1>3. ASSUME NEW w \in Worker, Hears(w) \/ Misses(w) \/ Restarts(w) PROVE IInv'
  <2>1. CASE Restarts(w)
    BY <2>1, RestartStep
  <2>2. CASE Hears(w) \/ Misses(w)
    BY <2>2, ChannelSteps
  <2> QED BY <1>3, <2>1, <2>2
<1>4. CASE UNCHANGED vars
  <2>1. UNCHANGED <<log, wire, stage, tries, busy, aborted, replays, cache, tools, made, locks,
                    paid, claimed, file, preimage, faults, restarts>>
    BY <1>4 DEF vars, worker, chain, receipts
  <2>2. /\ log \in [Worker -> Seq(Spoken)] /\ wire \in [Worker -> Seq(Spoken)]
        /\ replays \in 0 .. ReplayMax /\ file \in [Worker -> FileState]
        /\ faults \in 0 .. MaxFaults
    BY DEF IInv, Messages, Types, FileState
  <2> QED BY <2>1, <2>2, ChannelStep
<1> QED BY <1>1, <1>2, <1>3, <1>4 DEF Next

\* The invariant holds in every state of the automation.
THEOREM Invariant == Spec => []IInv
<1> QED BY InvInit, InvStep, PTL DEF Spec

\* Every variable has its type: the logs speak of invoices that are made, no
\* claim without its escrow, no preimage without its payment.
THEOREM TypeCorrect == Spec => []TypeOK
<1>1. IInv => TypeOK
  <2> SUFFICES ASSUME IInv PROVE TypeOK
    OBVIOUS
  <2> USE DEF IInv
  <2>1. Spoken \subseteq Message
    <3>1. \A h \in 0 .. made : h \in Hash \cup {None}
      BY TradeAutoAssumption DEF Types, Hash, None
    <3> QED BY <3>1 DEF Spoken, Message
  <2>2. \A q \in Seq(Spoken) : q \in Seq(Message)
    <3> HIDE DEF IInv
    <3> QED BY <2>1
  <2>3. log \in [Worker -> Seq(Message)] /\ wire \in [Worker -> Seq(Message)]
    BY <2>2 DEF Messages
  <2>4. tools \subseteq Task
    BY DEF ToolsOK, ToolOK
  <2> QED BY <2>3, <2>4 DEF TypeOK, Types, StageTypes
<1> QED BY <1>1, Invariant, PTL

\* No invoice is paid without an escrow for its hash on the chain, whatever is
\* retried, repeated or late (the pre-pay check of the verified payment tool).
THEOREM PaymentsAreBacked == Spec => []PaidIsBacked
<1>1. IInv => PaidIsBacked
  BY DEF IInv
<1> QED BY <1>1, Invariant, PTL

\* A payer that heard CANCEL first never pays: one that pays, or may still pay,
\* has an escrow in its log before any CANCEL.
THEOREM CancelStops == Spec => []CancelFirst
<1>1. IInv => CancelFirst
  <2> SUFFICES ASSUME IInv, NEW i \in DOMAIN log["taker"],
                      log["taker"][i].kind = "cancel",
                      \A j \in 1 .. i : log["taker"][j].kind # "escrow",
                      paid # {}
               PROVE  FALSE
    BY DEF CancelFirst
  <2>1. PICK j \in DOMAIN log["taker"] :
            /\ log["taker"][j].kind = "escrow"
            /\ \A x \in 1 .. j : log["taker"][x].kind # "cancel"
    BY DEF IInv, PaysAfterEscrow, EscrowHeard
  <2>2. log["taker"] \in Seq(Spoken)
    BY DEF IInv, Messages, Worker
  <2>3. i \in 1 .. j \/ j \in 1 .. i
    BY <2>1, <2>2
  <2> QED BY <2>1, <2>3
<1> QED BY <1>1, Invariant, PTL

\* No more escrows than attempts: RetryMax + 1 for each start of the
\* automation, late tools included.
THEOREM ExposureIsBounded == Spec => []Exposure
<1>1. IInv => Exposure
  <2> SUFFICES ASSUME IInv PROVE Exposure
    OBVIOUS
  <2>1. /\ IsFiniteSet(tools) /\ IsFiniteSet(locks)
        /\ Cardinality(locks) + Cardinality(Waiting) <= Used
    BY DEF IInv, Budget
  <2>2. Waiting \subseteq tools
    BY DEF Waiting
  <2>3. Cardinality(locks) \in Nat /\ Cardinality(Waiting) \in Nat
    BY <2>1, <2>2, FS_Subset, FS_CardinalityType
  <2>4. Attempts \in Nat /\ Attempts <= RetryMax + 1
    BY AttemptsRange DEF IInv
  <2>5. RetryMax + 1 \in Nat /\ restarts \in Nat
    BY TradeAutoAssumption DEF IInv, Types
  <2> DEFINE k == RetryMax + 1
             a == k * restarts
  <2>6. k * (restarts + 1) = a + k /\ a \in Nat
    <3> HIDE DEF k
    <3>1. k \in Nat
      BY <2>5 DEF k
    <3> QED BY <2>5, <3>1
  <2>7. Used = a + Attempts
    BY DEF Used
  <2> HIDE DEF a
  <2>8. Cardinality(locks) <= a + k
    BY <2>1, <2>3, <2>4, <2>5, <2>6, <2>7
  <2> QED BY <2>6, <2>8 DEF Exposure
<1> QED BY <1>1, Invariant, PTL

\* A tick, and a stage in flight, always has a tool whose end clears it.
THEOREM FlightsAreAwaited == Spec => []InFlight
<1>1. IInv => InFlight
  BY DEF IInv, Awaited, InFlight
<1> QED BY <1>1, Invariant, PTL
=============================================================================
