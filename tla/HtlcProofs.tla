----------------------------- MODULE HtlcProofs -----------------------------
(***************************************************************************)
(* The two settlement contracts, proved to be hash- and time-locked        *)
(* contracts that pay out what was put in.                                 *)
(*                                                                         *)
(*  - SolEscrow, for every set of keys and hashes, every fee rate and      *)
(*    every supply: a vault holds what its escrow owes, no instruction     *)
(*    overdraws an account, none creates or destroys tokens, and the       *)
(*    program is a hash- and time-locked contract per payment hash.        *)
(*  - TaoHTLC, for every set of accounts, hashes and lock calls and every  *)
(*    supply: the contract holds what its open swaps are owed, and is a    *)
(*    hash- and time-locked contract per swap id.  That no claim or refund *)
(*    overdraws the contract (TaoTypeOK) and that it holds the sum of its  *)
(*    entries (Solvent) can only be proved together.                       *)
(*                                                                         *)
(* Both ledgers are sums over finite sets, and the facts about sums come   *)
(* first.                                                                  *)
(***************************************************************************)
EXTENDS SolEscrow, TaoHTLC, FiniteSetTheorems, TLAPS

-----------------------------------------------------------------------------
(* SumFunction and SumFunctionOnSet.  The library defines a sum by         *)
(* recursion over the subsets of the set; what follows is by induction     *)
(* over those subsets (SubsetInduction), the existence and the uniqueness  *)
(* of that recursion included.                                             *)

\* The element the recursion removes from s.
Pick(s) == CHOOSE x \in s : TRUE

\* g is the recursion that sums f over the subsets of S.
IsSum(f, S, g) ==
    g = [s \in SUBSET S |-> IF s = {} THEN 0 ELSE f[Pick(s)] + g[s \ {Pick(s)}]]

Proper(V, U) == V \subseteq U /\ V # U

\* The library's sum is this recursion, taken at the whole set.
LEMMA SumUnfold ==
    ASSUME NEW f, NEW S
    PROVE  SumFunctionOnSet(f, S) = (CHOOSE g : IsSum(f, S, g))[S]
  BY Zenon DEF SumFunctionOnSet, FoldFunctionOnSet, MapThenFoldSet, IsSum, Pick

\* What holds of a subset of a finite set whenever it holds of its proper
\* subsets holds of all.
LEMMA SubsetInduction ==
    ASSUME NEW S, IsFiniteSet(S), NEW Good,
           \A U \in SUBSET S : (\A V \in SUBSET S : Proper(V, U) => V \in Good) => U \in Good
    PROVE  (SUBSET S) \subseteq Good
<1> DEFINE Bad == (SUBSET S) \ Good
<1> SUFFICES ASSUME Bad # {} PROVE FALSE
  OBVIOUS
<1>1. IsWellFoundedOn(StrictSubsetOrdering(S), FiniteSubsetsOf(S))
  BY FS_StrictSubsetOrderingWellFounded
<1>2. Bad \subseteq FiniteSubsetsOf(S)
  BY FS_FiniteSubsetsOfFinite
<1>3. PICK U \in Bad : \A V \in Bad : <<V, U>> \notin StrictSubsetOrdering(S)
  <2> HIDE DEF Bad
  <2> QED BY <1>1, <1>2, WFMin, Zenon
<1>4. ASSUME NEW V \in SUBSET S, Proper(V, U) PROVE V \in Good
  BY <1>3, <1>4 DEF StrictSubsetOrdering, Proper
<1>5. U \in SUBSET S /\ U \notin Good
  BY <1>3
<1> QED BY <1>4, <1>5

LEMMA PickIn ==
    ASSUME NEW s, s # {}
    PROVE  Pick(s) \in s
  BY DEF Pick

LEMMA IsSumAt ==
    ASSUME NEW f, NEW S, NEW g, IsSum(f, S, g), NEW s \in SUBSET S
    PROVE  g[s] = IF s = {} THEN 0 ELSE f[Pick(s)] + g[s \ {Pick(s)}]
  BY DEF IsSum

\* Recursions for functions that agree on S agree on the subsets of S.
LEMMA SumAgrees ==
    ASSUME NEW S, IsFiniteSet(S), NEW e, NEW f, \A x \in S : e[x] = f[x],
           NEW A, NEW B, S \subseteq A, S \subseteq B,
           NEW g, IsSum(e, A, g), NEW h, IsSum(f, B, h)
    PROVE  g[S] = h[S]
<1> DEFINE Good == {s \in SUBSET S : g[s] = h[s]}
<1>1. ASSUME NEW U \in SUBSET S,
             \A V \in SUBSET S : Proper(V, U) => V \in Good
      PROVE  U \in Good
  <2>1. g[U] = IF U = {} THEN 0 ELSE e[Pick(U)] + g[U \ {Pick(U)}]
    BY IsSumAt
  <2>2. h[U] = IF U = {} THEN 0 ELSE f[Pick(U)] + h[U \ {Pick(U)}]
    BY IsSumAt
  <2>3. CASE U = {}
    BY <2>1, <2>2, <2>3
  <2>4. CASE U # {}
    <3>1. Pick(U) \in U /\ e[Pick(U)] = f[Pick(U)]
      BY <2>4, PickIn
    <3>2. U \ {Pick(U)} \in Good
      BY <1>1, <3>1 DEF Proper
    <3> QED BY <2>1, <2>2, <2>4, <3>1, <3>2
  <2> QED BY <2>3, <2>4
<1> HIDE DEF Good
<1>2. SUBSET S \subseteq Good
  BY <1>1, SubsetInduction
<1> QED BY <1>2 DEF Good

LEMMA IsSumExists ==
    ASSUME NEW S, IsFiniteSet(S), NEW f
    PROVE  \E g : IsSum(f, S, g)
<1> DEFINE Good == {s \in SUBSET S : \E g : IsSum(f, s, g)}
           Of(s) == CHOOSE g : IsSum(f, s, g)
           Val(s) == Of(s)[s]
<1>1. ASSUME NEW U \in SUBSET S,
             \A V \in SUBSET S : Proper(V, U) => V \in Good
      PROVE  U \in Good
  <2> DEFINE new == [s \in SUBSET U |->
                       IF s = {} THEN 0 ELSE f[Pick(s)] + Val(s \ {Pick(s)})]
  <2>1. ASSUME NEW t \in SUBSET U, t # U
        PROVE  IsSum(f, t, Of(t)) /\ IsFiniteSet(t)
    <3>1. t \in Good
      BY <1>1, <2>1 DEF Proper
    <3>2. \E g : IsSum(f, t, g)
      BY <3>1
    <3> QED BY <3>2, FS_Subset
  <2>2. ASSUME NEW t \in SUBSET U, t # U PROVE new[t] = Val(t)
    <3>1. IsSum(f, t, Of(t))
      BY <2>1, <2>2
    <3>2. Val(t) = IF t = {} THEN 0 ELSE f[Pick(t)] + Of(t)[t \ {Pick(t)}]
      <4> HIDE DEF Of
      <4> QED BY <3>1, IsSumAt
    <3>3. CASE t = {}
      BY <3>2, <3>3
    <3>4. CASE t # {}
      <4> DEFINE u == t \ {Pick(t)}
      <4>1. Pick(t) \in t
        BY <3>4, PickIn
      <4>2. u \in SUBSET U /\ u # U /\ u \subseteq t
        BY <4>1
      <4>3. IsSum(f, u, Of(u)) /\ IsFiniteSet(u)
        BY <2>1, <4>2
      <4>4. Of(t)[u] = Of(u)[u]
        <5> HIDE DEF Of, u
        <5> QED BY <3>1, <4>2, <4>3, SumAgrees
      <4>5. new[t] = f[Pick(t)] + Val(u)
        BY <3>4
      <4> QED BY <3>2, <3>4, <4>4, <4>5
    <3> QED BY <3>3, <3>4
  <2>3. ASSUME NEW s \in SUBSET U, s # {}
        PROVE  new[s] = f[Pick(s)] + new[s \ {Pick(s)}]
    <3>1. Pick(s) \in s
      BY <2>3, PickIn
    <3>2. s \ {Pick(s)} \in SUBSET U /\ s \ {Pick(s)} # U
      BY <3>1
    <3>3. new[s \ {Pick(s)}] = Val(s \ {Pick(s)})
      BY <2>2, <3>2
    <3> QED BY <2>3, <3>3
  <2>4. new[{}] = 0
    OBVIOUS
  <2>5. new = [s \in SUBSET U |-> new[s]]
    OBVIOUS
  <2> HIDE DEF new
  <2>6. IsSum(f, U, new)
    BY <2>3, <2>4, <2>5 DEF IsSum
  <2> QED BY <2>6
<1> HIDE DEF Good
<1>2. SUBSET S \subseteq Good
  BY <1>1, SubsetInduction
<1> QED BY <1>2 DEF Good

-----------------------------------------------------------------------------
\* The sum over nothing, and the sum of a set with its picked element apart.
LEMMA SumEmpty ==
    ASSUME NEW f
    PROVE  SumFunctionOnSet(f, {}) = 0
<1> DEFINE g == CHOOSE h : IsSum(f, {}, h)
<1>1. IsSum(f, {}, g)
  BY IsSumExists, FS_EmptySet
<1>2. SumFunctionOnSet(f, {}) = g[{}]
  BY SumUnfold
<1> HIDE DEF g
<1> QED BY <1>1, <1>2, IsSumAt

LEMMA SumPicked ==
    ASSUME NEW f, NEW S, IsFiniteSet(S), S # {}
    PROVE  SumFunctionOnSet(f, S) = f[Pick(S)] + SumFunctionOnSet(f, S \ {Pick(S)})
<1> DEFINE u == S \ {Pick(S)}
           g == CHOOSE h : IsSum(f, S, h)
           k == CHOOSE h : IsSum(f, u, h)
<1>1. IsFiniteSet(u)
  BY FS_Subset
<1>2. IsSum(f, S, g) /\ SumFunctionOnSet(f, S) = g[S]
  BY IsSumExists, SumUnfold
<1>3. IsSum(f, u, k) /\ SumFunctionOnSet(f, u) = k[u]
  <2> HIDE DEF u
  <2> QED BY <1>1, IsSumExists, SumUnfold
<1> HIDE DEF g, k
<1>4. g[S] = f[Pick(S)] + g[u]
  BY <1>2, IsSumAt
<1>5. g[u] = k[u]
  <2>1. u \subseteq S
    OBVIOUS
  <2> HIDE DEF u
  <2> QED BY <1>1, <1>2, <1>3, <2>1, SumAgrees
<1> QED BY <1>2, <1>3, <1>4, <1>5

\* Functions that agree on S have the same sum over S.
LEMMA SumSame ==
    ASSUME NEW S, IsFiniteSet(S), NEW e, NEW f, \A x \in S : e[x] = f[x]
    PROVE  SumFunctionOnSet(e, S) = SumFunctionOnSet(f, S)
<1> DEFINE g == CHOOSE j : IsSum(e, S, j)
           h == CHOOSE j : IsSum(f, S, j)
<1>1. /\ IsSum(e, S, g) /\ SumFunctionOnSet(e, S) = g[S]
      /\ IsSum(f, S, h) /\ SumFunctionOnSet(f, S) = h[S]
  BY IsSumExists, SumUnfold
<1> HIDE DEF g, h
<1> QED BY <1>1, SumAgrees

\* The sum of integers is an integer, of natural numbers a natural number.
LEMMA SumInt ==
    ASSUME NEW S, IsFiniteSet(S), NEW f, \A x \in S : f[x] \in Int
    PROVE  SumFunctionOnSet(f, S) \in Int
<1> DEFINE Good == {s \in SUBSET S : SumFunctionOnSet(f, s) \in Int}
<1>1. ASSUME NEW U \in SUBSET S,
             \A V \in SUBSET S : Proper(V, U) => V \in Good
      PROVE  U \in Good
  <2>1. CASE U = {}
    BY <2>1, SumEmpty
  <2>2. CASE U # {}
    <3>1. Pick(U) \in U
      BY <2>2, PickIn
    <3>2. U \ {Pick(U)} \in Good
      BY <1>1, <3>1 DEF Proper
    <3>3. SumFunctionOnSet(f, U) = f[Pick(U)] + SumFunctionOnSet(f, U \ {Pick(U)})
      BY <2>2, SumPicked, FS_Subset
    <3> QED BY <3>1, <3>2, <3>3
  <2> QED BY <2>1, <2>2
<1> HIDE DEF Good
<1>2. SUBSET S \subseteq Good
  BY <1>1, SubsetInduction
<1> QED BY <1>2 DEF Good

LEMMA SumNat ==
    ASSUME NEW S, IsFiniteSet(S), NEW f, \A x \in S : f[x] \in Nat
    PROVE  SumFunctionOnSet(f, S) \in Nat
<1> DEFINE Good == {s \in SUBSET S : SumFunctionOnSet(f, s) \in Nat}
<1>1. ASSUME NEW U \in SUBSET S,
             \A V \in SUBSET S : Proper(V, U) => V \in Good
      PROVE  U \in Good
  <2>1. CASE U = {}
    BY <2>1, SumEmpty
  <2>2. CASE U # {}
    <3>1. Pick(U) \in U
      BY <2>2, PickIn
    <3>2. U \ {Pick(U)} \in Good
      BY <1>1, <3>1 DEF Proper
    <3>3. SumFunctionOnSet(f, U) = f[Pick(U)] + SumFunctionOnSet(f, U \ {Pick(U)})
      BY <2>2, SumPicked, FS_Subset
    <3> QED BY <3>1, <3>2, <3>3
  <2> QED BY <2>1, <2>2
<1> HIDE DEF Good
<1>2. SUBSET S \subseteq Good
  BY <1>1, SubsetInduction
<1> QED BY <1>2 DEF Good

\* Whichever element is set apart: the order of the recursion is no matter.
LEMMA SumRemove ==
    ASSUME NEW S, IsFiniteSet(S), NEW f, \A y \in S : f[y] \in Int, NEW x \in S
    PROVE  SumFunctionOnSet(f, S) = f[x] + SumFunctionOnSet(f, S \ {x})
<1> DEFINE sum(s) == SumFunctionOnSet(f, s)
           Good == {s \in SUBSET S : \A y \in s : sum(s) = f[y] + sum(s \ {y})}
<1>1. ASSUME NEW U \in SUBSET S,
             \A V \in SUBSET S : Proper(V, U) => V \in Good,
             NEW y \in U
      PROVE  sum(U) = f[y] + sum(U \ {y})
  <2> DEFINE p == Pick(U)
             V == (U \ {p}) \ {y}
  <2>1. p \in U
    BY PickIn
  <2>2. sum(U) = f[p] + sum(U \ {p})
    BY SumPicked, FS_Subset
  <2> HIDE DEF p
  <2>3. CASE p = y
    BY <2>2, <2>3
  <2>4. CASE p # y
    <3>1. U \ {p} \in Good /\ U \ {y} \in Good
      BY <1>1, <2>1 DEF Proper
    <3>2. sum(U \ {p}) = f[y] + sum(V)
      BY <2>4, <3>1
    <3>3. sum(U \ {y}) = f[p] + sum(V)
      <4>1. V = (U \ {y}) \ {p}
        OBVIOUS
      <4> QED BY <2>1, <2>4, <3>1, <4>1
    <3>4. f[y] \in Int /\ f[p] \in Int
      BY <2>1
    <3>5. sum(V) \in Int
      <4>1. IsFiniteSet(V) /\ \A z \in V : f[z] \in Int
        BY FS_Subset
      <4> HIDE DEF V
      <4> QED BY <4>1, SumInt
    <3> HIDE DEF sum, V
    <3> QED BY <2>2, <3>2, <3>3, <3>4, <3>5
  <2> QED BY <2>3, <2>4
<1>2. \A U \in SUBSET S :
         (\A V \in SUBSET S : Proper(V, U) => V \in Good) => U \in Good
  BY <1>1
<1> HIDE DEF Good
<1>3. SUBSET S \subseteq Good
  BY <1>2, SubsetInduction
<1> QED BY <1>3 DEF Good

LEMMA SumAdd ==
    ASSUME NEW S, IsFiniteSet(S), NEW f, NEW x, x \notin S,
           \A y \in S \cup {x} : f[y] \in Int
    PROVE  SumFunctionOnSet(f, S \cup {x}) = f[x] + SumFunctionOnSet(f, S)
<1>1. IsFiniteSet(S \cup {x}) /\ (S \cup {x}) \ {x} = S
  BY FS_AddElement
<1> QED BY <1>1, SumRemove

\* No term exceeds a sum of natural numbers.
LEMMA SumBounds ==
    ASSUME NEW S, IsFiniteSet(S), NEW f, \A y \in S : f[y] \in Nat, NEW x \in S
    PROVE  f[x] <= SumFunctionOnSet(f, S)
<1>1. SumFunctionOnSet(f, S) = f[x] + SumFunctionOnSet(f, S \ {x})
  BY SumRemove
<1>2. SumFunctionOnSet(f, S \ {x}) \in Nat
  <2>1. IsFiniteSet(S \ {x})
    BY FS_Subset
  <2> QED BY <2>1, SumNat
<1> QED BY <1>1, <1>2

LEMMA SumFunctionInt ==
    ASSUME NEW S, IsFiniteSet(S), NEW f \in [S -> Int]
    PROVE  SumFunction(f) \in Int
<1>1. \A x \in S : f[x] \in Int
  OBVIOUS
<1>2. SumFunctionOnSet(f, S) \in Int
  BY <1>1, SumInt
<1> QED BY <1>2 DEF SumFunction

\* The sum of a function that changes in one place moves with that place.
LEMMA SumUpdate ==
    ASSUME NEW S, IsFiniteSet(S), NEW f \in [S -> Int], NEW x \in S, NEW v \in Int
    PROVE  SumFunction([f EXCEPT ![x] = v]) = SumFunction(f) + (v - f[x])
<1> DEFINE new == [f EXCEPT ![x] = v]
           rest == SumFunctionOnSet(f, S \ {x})
<1>1. new \in [S -> Int] /\ new[x] = v /\ \A y \in S \ {x} : new[y] = f[y]
  OBVIOUS
<1> HIDE DEF new
<1>2. SumFunction(new) = SumFunctionOnSet(new, S) /\ SumFunction(f) = SumFunctionOnSet(f, S)
  BY <1>1 DEF SumFunction
<1>3. SumFunctionOnSet(new, S) = v + SumFunctionOnSet(new, S \ {x})
  BY <1>1, SumRemove
<1>4. SumFunctionOnSet(f, S) = f[x] + rest
  BY SumRemove
<1>5. IsFiniteSet(S \ {x})
  BY FS_Subset
<1>6. SumFunctionOnSet(new, S \ {x}) = rest
  BY <1>1, <1>5, SumSame
<1>7. rest \in Int
  BY <1>5, SumInt
<1> QED BY <1>2, <1>3, <1>4, <1>6, <1>7 DEF new

\* The sum of zeros, which a new ledger holds.
LEMMA SumZero ==
    ASSUME NEW S, IsFiniteSet(S), NEW f, \A x \in S : f[x] = 0
    PROVE  SumFunctionOnSet(f, S) = 0
<1> DEFINE Good == {s \in SUBSET S : SumFunctionOnSet(f, s) = 0}
<1>1. ASSUME NEW U \in SUBSET S,
             \A V \in SUBSET S : Proper(V, U) => V \in Good
      PROVE  U \in Good
  <2>1. CASE U = {}
    BY <2>1, SumEmpty
  <2>2. CASE U # {}
    <3>1. Pick(U) \in U
      BY <2>2, PickIn
    <3>2. U \ {Pick(U)} \in Good
      BY <1>1, <3>1 DEF Proper
    <3>3. SumFunctionOnSet(f, U) = f[Pick(U)] + SumFunctionOnSet(f, U \ {Pick(U)})
      BY <2>2, SumPicked, FS_Subset
    <3> QED BY <3>1, <3>2, <3>3
  <2> QED BY <2>1, <2>2
<1> HIDE DEF Good
<1>2. SUBSET S \subseteq Good
  BY <1>1, SubsetInduction
<1> QED BY <1>2 DEF Good

-----------------------------------------------------------------------------
(* The Solana program.                                                     *)

IInv == TypeOK /\ VaultBacksEscrow

LEMMA RequestParts ==
    ASSUME NEW r \in Request
    PROVE  /\ r.payer \in Key /\ r.recipient \in Key /\ r.refund \in Key
           /\ r.collector \in Key /\ r.refund_after \in 0..MaxTime
           /\ r.amount \in Nat /\ r.platform_bps \in Nat /\ r.trade_bps \in Nat
  BY SolAssumption DEF InitRequest

\* A fee is a natural number: the rates are, and the division rounds down.
LEMMA FeeNat ==
    ASSUME NEW amount \in Nat, NEW bps \in Nat
    PROVE  Fee(amount, bps) \in Nat
<1>1. amount * bps \in Nat
  OBVIOUS
<1>2. \A n \in Nat : n \div 10000 \in Nat
  OBVIOUS
<1> QED BY <1>1, <1>2 DEF Fee

\* An active escrow is a state of its layout, and owes what is in its vault.
LEMMA ActiveEscrow ==
    ASSUME IInv, NEW h \in Hash, Active(h)
    PROVE  /\ escrow[h] \in EscrowState /\ escrow[h] # None
           /\ escrow[h].status = "active"
           /\ escrow[h].net_amount \in Nat /\ escrow[h].platform_fee_amount \in Nat
           /\ escrow[h].trade_fee_amount \in Nat
           /\ escrow[h].recipient \in Key /\ escrow[h].refund \in Key
           /\ escrow[h].trade_fee_collector \in Key
           /\ escrow[h].refund_after \in 0..MaxTime
           /\ vault[h] = Locked(escrow[h]) /\ Locked(escrow[h]) \in Nat
<1>1. escrow[h] \in EscrowState
  BY DEF IInv, TypeOK, Active
<1>2. vault[h] = Locked(escrow[h])
  BY DEF IInv, VaultBacksEscrow, Active
<1> QED BY <1>1, <1>2 DEF EscrowState, Active, Locked

\* A settled escrow keeps its parties and owes nothing.
LEMMA ClosedEscrow ==
    ASSUME NEW e \in EscrowState, NEW s \in {"claimed", "refunded"}
    PROVE  /\ Closed(e, s) \in EscrowState /\ Closed(e, s) # None
           /\ Locked(Closed(e, s)) = 0 /\ Closed(e, s).status = s
           /\ Closed(e, s).recipient = e.recipient /\ Closed(e, s).refund = e.refund
           /\ Closed(e, s).refund_after = e.refund_after
<1>1. Closed(e, s) \in EscrowState
  BY DEF Closed, EscrowState
<1>2. Closed(e, s) # None
  BY <1>1, SolAssumption
<1> QED BY <1>1, <1>2 DEF Closed, Locked, EscrowState

\* What a payer is charged, and the account that Init writes.
total(r) == r.amount + Fee(r.amount, r.platform_bps) + Fee(r.amount, r.trade_bps)
opened(r) ==
    [status |-> "active", recipient |-> r.recipient, refund |-> r.refund,
     refund_after |-> r.refund_after, net_amount |-> r.amount,
     platform_fee_amount |-> Fee(r.amount, r.platform_bps),
     trade_fee_amount |-> Fee(r.amount, r.trade_bps),
     trade_fee_collector |-> r.collector]

LEMMA OpenedEscrow ==
    ASSUME NEW r \in Request
    PROVE  /\ opened(r) \in EscrowState /\ opened(r) # None
           /\ Locked(opened(r)) = total(r) /\ total(r) \in Nat
<1>1. Fee(r.amount, r.platform_bps) \in Nat /\ Fee(r.amount, r.trade_bps) \in Nat
  BY RequestParts, FeeNat
<1>2. opened(r) \in EscrowState
  BY <1>1, RequestParts DEF opened, EscrowState
<1>3. opened(r) # None
  BY <1>2, SolAssumption
<1> QED BY <1>1, <1>2, <1>3, RequestParts DEF opened, Locked, total

LEMMA InitEffect ==
    ASSUME NEW h, NEW r, InitEscrow(h, r)
    PROVE  /\ escrow[h] = None /\ total(r) <= wallet[r.payer]
           /\ wallet' = [wallet EXCEPT ![r.payer] = @ - total(r)]
           /\ vault' = [vault EXCEPT ![h] = @ + total(r)]
           /\ escrow' = [escrow EXCEPT ![h] = opened(r)]
           /\ UNCHANGED <<config, tradeConfig, feeVault, tradeVault, revealed, now>>
  BY DEF InitEscrow, Fresh, Affordable, total, opened

-----------------------------------------------------------------------------
LEMMA InvInit == Init => IInv
  BY SolAssumption, HashLockAssumption DEF Init, IInv, TypeOK, VaultBacksEscrow

LEMMA InvStep == IInv /\ [Next]_vars => IInv'
<1> SUFFICES ASSUME IInv, [Next]_vars PROVE IInv'
  OBVIOUS
<1> USE DEF IInv
<1>1. ASSUME NEW k \in Admin, NEW b \in Bps,
             InitConfig(k, b) \/ SetConfig(k, b) \/ InitTradeConfig(k, b) \/ SetTradeConfig(k, b)
      PROVE  IInv'
  <2>1. k \in Key /\ b \in Nat
    BY SolAssumption
  <2>2. config' \in [authority : Key, fee_bps : Nat] \cup {None}
    BY <1>1, <2>1 DEF InitConfig, SetConfig, InitTradeConfig, SetTradeConfig, TypeOK
  <2>3. tradeConfig' \in [Key -> Nat \cup {None}]
    BY <1>1, <2>1 DEF InitConfig, SetConfig, InitTradeConfig, SetTradeConfig, TypeOK
  <2>4. UNCHANGED <<escrow, wallet, vault, feeVault, tradeVault, revealed, now>>
    BY <1>1 DEF InitConfig, SetConfig, InitTradeConfig, SetTradeConfig, tokens
  <2> QED BY <2>2, <2>3, <2>4 DEF TypeOK, VaultBacksEscrow, Locked
<1>2. ASSUME NEW k \in Admin, NEW a \in Amount,
             WithdrawFees(k, a) \/ WithdrawTradeFees(k, a)
      PROVE  IInv'
  <2>1. k \in Key /\ a \in Nat
    BY SolAssumption
  <2>2. feeVault' \in Nat /\ tradeVault' \in [Key -> Nat] /\ wallet' \in [Key -> Nat]
    <3>1. CASE WithdrawFees(k, a)
      BY <3>1, <2>1 DEF WithdrawFees, Withdrawn, TypeOK
    <3>2. CASE WithdrawTradeFees(k, a)
      BY <3>2, <2>1 DEF WithdrawTradeFees, Withdrawn, TypeOK
    <3> QED BY <1>2, <3>1, <3>2
  <2>3. UNCHANGED <<config, tradeConfig, escrow, vault, revealed, now>>
    BY <1>2 DEF WithdrawFees, WithdrawTradeFees
  <2> QED BY <2>2, <2>3 DEF TypeOK, VaultBacksEscrow, Locked
<1>3. ASSUME NEW h \in Hash, NEW r \in Request, InitEscrow(h, r) PROVE IInv'
  <2>1. TypeOK'
    <3>1. wallet' \in [Key -> Nat] /\ vault' \in [Hash -> Nat]
      BY <1>3, InitEffect, OpenedEscrow, RequestParts DEF TypeOK
    <3>2. escrow' \in [Hash -> EscrowState \cup {None}]
      BY <1>3, InitEffect, OpenedEscrow DEF TypeOK
    <3> QED BY <1>3, <3>1, <3>2, InitEffect DEF TypeOK
  <2>2. VaultBacksEscrow'
    <3> SUFFICES ASSUME NEW g \in Hash
                 PROVE  vault'[g] = IF escrow'[g] = None THEN 0 ELSE Locked(escrow'[g])
      BY DEF VaultBacksEscrow, Locked
    <3>1. CASE g = h
      BY <1>3, <3>1, InitEffect, OpenedEscrow DEF TypeOK, VaultBacksEscrow
    <3>2. CASE g # h
      BY <1>3, <3>2, InitEffect DEF TypeOK, VaultBacksEscrow
    <3> QED BY <3>1, <3>2
  <2> QED BY <2>1, <2>2
<1>4. ASSUME NEW h \in Hash, NEW k \in Key, NEW p \in Preimage, Claim(k, h, p) PROVE IInv'
  <2>1. TypeOK'
    <3>1. wallet' \in [Key -> Nat] /\ feeVault' \in Nat /\ tradeVault' \in [Key -> Nat]
      BY <1>4, ActiveEscrow DEF Claim, TypeOK
    <3>2. vault' \in [Hash -> Nat]
      BY <1>4, ActiveEscrow DEF Claim, TypeOK
    <3>3. escrow' \in [Hash -> EscrowState \cup {None}]
      BY <1>4, ActiveEscrow, ClosedEscrow DEF Claim, TypeOK
    <3> QED BY <1>4, <3>1, <3>2, <3>3 DEF Claim, TypeOK
  <2>2. VaultBacksEscrow'
    <3> SUFFICES ASSUME NEW g \in Hash
                 PROVE  vault'[g] = IF escrow'[g] = None THEN 0 ELSE Locked(escrow'[g])
      BY DEF VaultBacksEscrow, Locked
    <3>1. CASE g = h
      BY <1>4, <3>1, ActiveEscrow, ClosedEscrow DEF Claim, TypeOK
    <3>2. CASE g # h
      BY <1>4, <3>2 DEF Claim, TypeOK, VaultBacksEscrow
    <3> QED BY <3>1, <3>2
  <2> QED BY <2>1, <2>2
<1>5. ASSUME NEW h \in Hash, NEW k \in Key, Refund(k, h) PROVE IInv'
  <2>1. TypeOK'
    <3>1. wallet' \in [Key -> Nat] /\ vault' \in [Hash -> Nat]
      BY <1>5, ActiveEscrow DEF Refund, TypeOK
    <3>2. escrow' \in [Hash -> EscrowState \cup {None}]
      BY <1>5, ActiveEscrow, ClosedEscrow DEF Refund, TypeOK
    <3> QED BY <1>5, <3>1, <3>2 DEF Refund, TypeOK
  <2>2. VaultBacksEscrow'
    <3> SUFFICES ASSUME NEW g \in Hash
                 PROVE  vault'[g] = IF escrow'[g] = None THEN 0 ELSE Locked(escrow'[g])
      BY DEF VaultBacksEscrow, Locked
    <3>1. CASE g = h
      BY <1>5, <3>1, ActiveEscrow, ClosedEscrow DEF Refund, TypeOK
    <3>2. CASE g # h
      BY <1>5, <3>2 DEF Refund, TypeOK, VaultBacksEscrow
    <3> QED BY <3>1, <3>2
  <2> QED BY <2>1, <2>2
<1>6. CASE Tick
  BY <1>6, HashLockAssumption DEF Tick, tokens, TypeOK, VaultBacksEscrow, Locked
<1>7. CASE UNCHANGED vars
  BY <1>7 DEF vars, tokens, TypeOK, VaultBacksEscrow, Locked
<1> QED BY <1>1, <1>2, <1>3, <1>4, <1>5, <1>6, <1>7 DEF Next, AdminStep, EscrowStep

\* No instruction overdraws a wallet or a vault, whatever the fees round to.
THEOREM NoOverdraft == Spec => []TypeOK
<1>1. IInv => TypeOK
  BY DEF IInv
<1> QED BY <1>1, InvInit, InvStep, PTL DEF Spec

\* A vault holds what its escrow owes, at all times.
THEOREM VaultsBackEscrows == Spec => []VaultBacksEscrow
<1>1. IInv => VaultBacksEscrow
  BY DEF IInv
<1> QED BY <1>1, InvInit, InvStep, PTL DEF Spec

-----------------------------------------------------------------------------
\* An account that is credited or debited moves the sum of its kind as much.
LEMMA WalletBooked ==
    ASSUME wallet \in [Key -> Nat], NEW k \in Key, NEW v \in Nat,
           wallet' = [wallet EXCEPT ![k] = v]
    PROVE  SumFunction(wallet') = SumFunction(wallet) + (v - wallet[k])
<1>1. wallet \in [Key -> Int] /\ v \in Int /\ IsFiniteSet(Key)
  BY SolFinite
<1> QED BY <1>1, SumUpdate

LEMMA VaultBooked ==
    ASSUME vault \in [Hash -> Nat], NEW k \in Hash, NEW v \in Nat,
           vault' = [vault EXCEPT ![k] = v]
    PROVE  SumFunction(vault') = SumFunction(vault) + (v - vault[k])
<1>1. vault \in [Hash -> Int] /\ v \in Int /\ IsFiniteSet(Hash)
  BY SolFinite
<1> QED BY <1>1, SumUpdate

LEMMA TradeVaultBooked ==
    ASSUME tradeVault \in [Key -> Nat], NEW k \in Key, NEW v \in Nat,
           tradeVault' = [tradeVault EXCEPT ![k] = v]
    PROVE  SumFunction(tradeVault') = SumFunction(tradeVault) + (v - tradeVault[k])
<1>1. tradeVault \in [Key -> Int] /\ v \in Int /\ IsFiniteSet(Key)
  BY SolFinite
<1> QED BY <1>1, SumUpdate

LEMMA SumsAreInt ==
    ASSUME TypeOK
    PROVE  /\ SumFunction(wallet) \in Int /\ SumFunction(vault) \in Int
           /\ SumFunction(tradeVault) \in Int /\ feeVault \in Int
<1>1. /\ wallet \in [Key -> Int] /\ vault \in [Hash -> Int]
      /\ tradeVault \in [Key -> Int] /\ feeVault \in Int
  BY DEF TypeOK
<1> QED BY <1>1, SumFunctionInt, SolFinite

LEMMA ConservedInit == Init => Conserved
<1> SUFFICES ASSUME Init PROVE Conserved
  OBVIOUS
<1>1. SumFunction(vault) = 0 /\ SumFunction(tradeVault) = 0
  BY SumZero, SolFinite DEF Init, SumFunction
<1>2. SumFunction(wallet) \in Int /\ feeVault = 0 /\ wallet = Supply
  BY SumsAreInt, InvInit DEF IInv, Init
<1> QED BY <1>1, <1>2 DEF Conserved

LEMMA ConservedStep == IInv /\ IInv' /\ Conserved /\ [Next]_vars => Conserved'
<1> SUFFICES ASSUME IInv, IInv', Conserved, [Next]_vars PROVE Conserved'
  OBVIOUS
<1>i. /\ SumFunction(wallet) \in Int /\ SumFunction(vault) \in Int
      /\ SumFunction(tradeVault) \in Int /\ feeVault \in Int
  BY SumsAreInt DEF IInv
<1>t. /\ wallet \in [Key -> Nat] /\ vault \in [Hash -> Nat] /\ feeVault \in Nat
      /\ tradeVault \in [Key -> Nat]
      /\ wallet' \in [Key -> Nat] /\ vault' \in [Hash -> Nat] /\ feeVault' \in Nat
      /\ tradeVault' \in [Key -> Nat]
  BY DEF IInv, TypeOK
<1>1. ASSUME UNCHANGED tokens PROVE Conserved'
  BY <1>1 DEF Conserved, tokens
<1>2. ASSUME NEW k \in Key, NEW a \in Nat, WithdrawFees(k, a) PROVE Conserved'
  <2> DEFINE w == Withdrawn(a, feeVault)
  <2>1. w \in Nat /\ wallet[k] + w \in Nat
    BY <1>t DEF Withdrawn
  <2>2. /\ wallet' = [wallet EXCEPT ![k] = wallet[k] + w]
        /\ feeVault' = feeVault - w /\ UNCHANGED <<vault, tradeVault>>
    BY <1>2 DEF WithdrawFees
  <2> HIDE DEF w
  <2>3. SumFunction(wallet') = SumFunction(wallet) + w
    <3>1. wallet[k] + w \in Nat
      BY <1>t, <2>1
    <3>2. SumFunction(wallet') = SumFunction(wallet) + ((wallet[k] + w) - wallet[k])
      BY <1>t, <2>1, <2>2, <3>1, WalletBooked
    <3> QED BY <1>t, <1>i, <2>1, <3>2
  <2> QED BY <1>i, <2>1, <2>2, <2>3 DEF Conserved
<1>3. ASSUME NEW k \in Key, NEW a \in Nat, WithdrawTradeFees(k, a) PROVE Conserved'
  <2> DEFINE w == Withdrawn(a, tradeVault[k])
  <2>1. w \in Nat /\ wallet[k] + w \in Nat /\ tradeVault[k] - w \in Nat
    BY <1>3, <1>t DEF Withdrawn, WithdrawTradeFees
  <2>2. /\ wallet' = [wallet EXCEPT ![k] = wallet[k] + w]
        /\ tradeVault' = [tradeVault EXCEPT ![k] = tradeVault[k] - w]
        /\ UNCHANGED <<vault, feeVault>>
    BY <1>3 DEF WithdrawTradeFees
  <2> HIDE DEF w
  <2>3. SumFunction(wallet') = SumFunction(wallet) + w
    <3>1. wallet[k] + w \in Nat
      BY <1>t, <2>1
    <3>2. SumFunction(wallet') = SumFunction(wallet) + ((wallet[k] + w) - wallet[k])
      BY <1>t, <2>1, <2>2, <3>1, WalletBooked
    <3> QED BY <1>t, <1>i, <2>1, <3>2
  <2>4. SumFunction(tradeVault') = SumFunction(tradeVault) - w
    <3>1. tradeVault[k] - w \in Nat
      BY <1>t, <2>1
    <3>2. SumFunction(tradeVault') = SumFunction(tradeVault) + ((tradeVault[k] - w) - tradeVault[k])
      BY <1>t, <2>1, <2>2, <3>1, TradeVaultBooked
    <3> QED BY <1>t, <1>i, <2>1, <3>2
  <2> QED BY <1>i, <2>1, <2>2, <2>3, <2>4 DEF Conserved
<1>4. ASSUME NEW h \in Hash, NEW r \in Request, InitEscrow(h, r) PROVE Conserved'
  <2> DEFINE k == r.payer
             c == total(r)
  <2>1. k \in Key /\ c \in Nat /\ wallet[k] - c \in Nat /\ vault[h] + c \in Nat
    BY <1>4, <1>t, InitEffect, OpenedEscrow, RequestParts
  <2>2. /\ wallet' = [wallet EXCEPT ![k] = wallet[k] - c]
        /\ vault' = [vault EXCEPT ![h] = vault[h] + c]
        /\ UNCHANGED <<feeVault, tradeVault>>
    BY <1>4, InitEffect
  <2> HIDE DEF k, c
  <2>3. SumFunction(wallet') = SumFunction(wallet) - c
    <3>1. wallet[k] - c \in Nat
      BY <1>t, <2>1
    <3>2. SumFunction(wallet') = SumFunction(wallet) + ((wallet[k] - c) - wallet[k])
      BY <1>t, <2>1, <2>2, <3>1, WalletBooked
    <3> QED BY <1>t, <1>i, <2>1, <3>2
  <2>4. SumFunction(vault') = SumFunction(vault) + c
    <3>1. vault[h] + c \in Nat
      BY <1>t, <2>1
    <3>2. SumFunction(vault') = SumFunction(vault) + ((vault[h] + c) - vault[h])
      BY <1>t, <2>1, <2>2, <3>1, VaultBooked
    <3> QED BY <1>t, <1>i, <2>1, <3>2
  <2> QED BY <1>i, <2>1, <2>2, <2>3, <2>4 DEF Conserved
<1>5. ASSUME NEW h \in Hash, NEW k \in Key, NEW p \in Preimage, Claim(k, h, p)
      PROVE  Conserved'
  <2> DEFINE net == escrow[h].net_amount
             pf == escrow[h].platform_fee_amount
             tf == escrow[h].trade_fee_amount
             c == escrow[h].trade_fee_collector
  <2>1. /\ net \in Nat /\ pf \in Nat /\ tf \in Nat /\ c \in Key
        /\ vault[h] = net + pf + tf
    BY <1>5, ActiveEscrow DEF Claim, Locked
  <2>2. /\ wallet' = [wallet EXCEPT ![k] = wallet[k] + net]
        /\ tradeVault' = [tradeVault EXCEPT ![c] = tradeVault[c] + tf]
        /\ feeVault' = feeVault + pf
        /\ vault' = [vault EXCEPT ![h] = vault[h] - (net + pf + tf)]
    BY <1>5 DEF Claim, Locked
  <2> HIDE DEF net, pf, tf, c
  <2>3. SumFunction(wallet') = SumFunction(wallet) + net
    <3>1. wallet[k] + net \in Nat
      BY <1>t, <2>1
    <3>2. SumFunction(wallet') = SumFunction(wallet) + ((wallet[k] + net) - wallet[k])
      BY <1>t, <2>1, <2>2, <3>1, WalletBooked
    <3> QED BY <1>t, <1>i, <2>1, <3>2
  <2>4. SumFunction(tradeVault') = SumFunction(tradeVault) + tf
    <3>1. tradeVault[c] + tf \in Nat
      BY <1>t, <2>1
    <3>2. SumFunction(tradeVault') = SumFunction(tradeVault) + ((tradeVault[c] + tf) - tradeVault[c])
      BY <1>t, <2>1, <2>2, <3>1, TradeVaultBooked
    <3> QED BY <1>t, <1>i, <2>1, <3>2
  <2>5. SumFunction(vault') = SumFunction(vault) - (net + pf + tf)
    <3>1. vault[h] - (net + pf + tf) \in Nat
      BY <1>t, <2>1
    <3>2. SumFunction(vault') = SumFunction(vault) + ((vault[h] - (net + pf + tf)) - vault[h])
      BY <1>t, <2>1, <2>2, <3>1, VaultBooked
    <3> QED BY <1>t, <1>i, <2>1, <3>2
  <2> QED BY <1>i, <2>1, <2>2, <2>3, <2>4, <2>5 DEF Conserved
<1>6. ASSUME NEW h \in Hash, NEW k \in Key, Refund(k, h) PROVE Conserved'
  <2> DEFINE w == Locked(escrow[h])
  <2>1. w \in Nat /\ vault[h] = w
    BY <1>6, ActiveEscrow DEF Refund
  <2>2. /\ wallet' = [wallet EXCEPT ![k] = wallet[k] + w]
        /\ vault' = [vault EXCEPT ![h] = vault[h] - w]
        /\ UNCHANGED <<feeVault, tradeVault>>
    BY <1>6 DEF Refund
  <2> HIDE DEF w
  <2>3. SumFunction(wallet') = SumFunction(wallet) + w
    <3>1. wallet[k] + w \in Nat
      BY <1>t, <2>1
    <3>2. SumFunction(wallet') = SumFunction(wallet) + ((wallet[k] + w) - wallet[k])
      BY <1>t, <2>1, <2>2, <3>1, WalletBooked
    <3> QED BY <1>t, <1>i, <2>1, <3>2
  <2>4. SumFunction(vault') = SumFunction(vault) - w
    <3>1. vault[h] - w \in Nat
      BY <1>t, <2>1
    <3>2. SumFunction(vault') = SumFunction(vault) + ((vault[h] - w) - vault[h])
      BY <1>t, <2>1, <2>2, <3>1, VaultBooked
    <3> QED BY <1>t, <1>i, <2>1, <3>2
  <2> QED BY <1>i, <2>1, <2>2, <2>3, <2>4 DEF Conserved
<1>7. ASSUME AdminStep PROVE Conserved'
  <2>1. PICK k \in Admin :
           \/ \E b \in Bps : \/ InitConfig(k, b) \/ SetConfig(k, b)
                             \/ InitTradeConfig(k, b) \/ SetTradeConfig(k, b)
           \/ \E a \in Amount : WithdrawFees(k, a) \/ WithdrawTradeFees(k, a)
    BY <1>7 DEF AdminStep
  <2>2. k \in Key /\ Amount \subseteq Nat
    BY SolAssumption
  <2>3. ASSUME NEW b \in Bps,
               InitConfig(k, b) \/ SetConfig(k, b) \/ InitTradeConfig(k, b) \/ SetTradeConfig(k, b)
        PROVE  UNCHANGED tokens
    BY <2>3 DEF InitConfig, SetConfig, InitTradeConfig, SetTradeConfig
  <2> QED BY <2>1, <2>2, <2>3, <1>1, <1>2, <1>3
<1>8. ASSUME Tick \/ UNCHANGED vars PROVE Conserved'
  BY <1>8, <1>1 DEF Tick, vars
<1> QED BY <1>4, <1>5, <1>6, <1>7, <1>8 DEF Next, EscrowStep

\* No instruction creates or destroys tokens.
THEOREM TokensConserved == Spec => []Conserved
  BY InvInit, InvStep, ConservedInit, ConservedStep, PTL DEF Spec

-----------------------------------------------------------------------------
\* The program is a hash- and time-locked contract per payment hash: Init,
\* Claim and Refund are Lock, Claim and Refund; the instructions about configs
\* and fees are invisible to it.
statusOf == [h \in Hash |->
               IF escrow[h] = None THEN "none"
               ELSE IF escrow[h].status = "active" THEN "locked" ELSE escrow[h].status]
deedOf == [h \in Hash |->
             IF escrow[h] = None
             THEN [hash |-> "none", to |-> "none", back |-> "none", after |-> 0]
             ELSE [hash |-> h, to |-> escrow[h].recipient,
                   back |-> escrow[h].refund, after |-> escrow[h].refund_after]]

LEMMA Invisible ==
    ASSUME UNCHANGED <<escrow, revealed, now>>
    PROVE  UNCHANGED H!vars
  BY DEF H!vars

\* The Solana program is a hash- and time-locked contract per payment hash: init,
\* claim and refund are the abstract steps, and what is done to the fees is none
\* (process_instruction).
THEOREM SolImplementsHtlc == Spec => ImplementsHtlc
<1>1. Init => H!Init
  BY DEF Init, H!Init, H!NoDeed
<1>2. IInv /\ [Next]_vars => [H!Next]_(H!vars)
  <2> SUFFICES ASSUME IInv, [Next]_vars PROVE [H!Next]_(H!vars)
    OBVIOUS
  <2>t. escrow \in [Hash -> EscrowState \cup {None}]
    BY DEF IInv, TypeOK
  <2>1. ASSUME NEW h \in Hash, NEW r \in Request, InitEscrow(h, r) PROVE H!Next
    <3> DEFINE d == [hash |-> h, to |-> r.recipient, back |-> r.refund,
                     after |-> r.refund_after]
    <3>1. d \in H!Deed
      BY RequestParts DEF H!Deed
    <3>2. escrow[h] = None /\ escrow' = [escrow EXCEPT ![h] = opened(r)]
      BY <2>1, InitEffect
    <3>3. statusOf' = [statusOf EXCEPT ![h] = "locked"]
      BY <2>t, <3>2, OpenedEscrow DEF statusOf, opened
    <3>4. deedOf' = [deedOf EXCEPT ![h] = d]
      BY <2>t, <3>2, OpenedEscrow DEF deedOf, opened
    <3>5. H!Lock(h, d)
      BY <2>1, <3>2, <3>3, <3>4, InitEffect DEF H!Lock, statusOf, deedOf
    <3> QED BY <3>1, <3>5 DEF H!Next
  <2>2. ASSUME NEW h \in Hash, NEW k \in Key, NEW p \in Preimage, Claim(k, h, p) PROVE H!Next
    <3>1. /\ escrow[h] \in EscrowState /\ escrow[h] # None /\ escrow[h].status = "active"
          /\ escrow' = [escrow EXCEPT ![h] = Closed(escrow[h], "claimed")]
      BY <2>2, ActiveEscrow DEF Claim
    <3>2. statusOf' = [statusOf EXCEPT ![h] = "claimed"] /\ statusOf[h] = "locked"
      BY <2>t, <3>1, ClosedEscrow DEF statusOf
    <3>3. deedOf' = deedOf /\ deedOf[h].hash = h
      BY <2>t, <3>1, ClosedEscrow DEF deedOf
    <3>4. H!Claim(h, p)
      BY <2>2, <3>2, <3>3 DEF H!Claim, Claim, Opens, statusOf, deedOf
    <3> QED BY <3>4 DEF H!Next
  <2>3. ASSUME NEW h \in Hash, NEW k \in Key, Refund(k, h) PROVE H!Next
    <3>1. /\ escrow[h] \in EscrowState /\ escrow[h] # None /\ escrow[h].status = "active"
          /\ escrow' = [escrow EXCEPT ![h] = Closed(escrow[h], "refunded")]
      BY <2>3, ActiveEscrow DEF Refund
    <3>2. statusOf' = [statusOf EXCEPT ![h] = "refunded"] /\ statusOf[h] = "locked"
      BY <2>t, <3>1, ClosedEscrow DEF statusOf
    <3>3. deedOf' = deedOf /\ deedOf[h].after = escrow[h].refund_after
      BY <2>t, <3>1, ClosedEscrow DEF deedOf
    <3>4. H!Refund(h)
      BY <2>3, <3>2, <3>3 DEF H!Refund, Refund, Expired, statusOf, deedOf
    <3> QED BY <3>4 DEF H!Next
  <2>4. ASSUME AdminStep PROVE UNCHANGED H!vars
    BY <2>4, Invisible DEF AdminStep, InitConfig, SetConfig, InitTradeConfig,
       SetTradeConfig, WithdrawFees, WithdrawTradeFees
  <2>5. ASSUME Tick PROVE H!Next
    BY <2>5 DEF Tick, H!Next, H!Tick
  <2>6. ASSUME UNCHANGED vars PROVE UNCHANGED H!vars
    BY <2>6, Invisible DEF vars
  <2> QED BY <2>1, <2>2, <2>3, <2>4, <2>5, <2>6 DEF Next, EscrowStep
<1>3. Spec => []IInv
  BY InvInit, InvStep, PTL DEF Spec
<1> QED BY <1>1, <1>2, <1>3, PTL DEF Spec, ImplementsHtlc, H!Spec

-----------------------------------------------------------------------------
(* The EVM contract.                                                       *)

\* The entries are the ids whose last event is Locked; each call of lock adds
\* one, so they are finitely many however many ids there are.
Entries == /\ swaps = {i \in Calls : event[i] = "locked"}
           /\ IsFiniteSet(swaps)

\* A refunded id can never be locked again: its deadline has passed.
SpentExpired == \A i \in Calls : event[i] = "refunded" => RefundOpen(i)

TaoInv == TaoTypeOK /\ Entries /\ SpentExpired /\ Solvent

-----------------------------------------------------------------------------
amounts == [i \in Calls |-> i.amount]

LEMMA CallParts ==
    ASSUME NEW i \in Calls
    PROVE  /\ i.sender \in Account /\ i.receiver \in Account /\ i.amount \in Nat
           /\ i.refundAfter \in 0..MaxTime /\ i.hashlock \in Hash
           /\ amounts[i] = i.amount
  BY TaoAssumption DEF SwapId, amounts

\* What a lock, and what a claim or a refund, does to the sum of the entries.
LEMMA EntryAdded ==
    ASSUME TaoInv, NEW i \in Calls, i \notin swaps
    PROVE  /\ IsFiniteSet(swaps \cup {i})
           /\ held + i.amount = SumFunctionOnSet(amounts, swaps \cup {i})
<1>1. IsFiniteSet(swaps) /\ \A j \in swaps \cup {i} : amounts[j] \in Int
  BY CallParts DEF TaoInv, TaoTypeOK, Entries
<1>2. SumFunctionOnSet(amounts, swaps \cup {i}) = i.amount + held
  BY <1>1, SumAdd, CallParts DEF TaoInv, Solvent, amounts
<1>3. held \in Nat /\ i.amount \in Nat
  BY CallParts DEF TaoInv, TaoTypeOK
<1> QED BY <1>1, <1>2, <1>3, FS_AddElement

LEMMA EntryRemoved ==
    ASSUME TaoInv, NEW i \in swaps
    PROVE  /\ IsFiniteSet(swaps \ {i})
           /\ held - i.amount = SumFunctionOnSet(amounts, swaps \ {i})
           /\ held - i.amount \in Nat
<1>1. /\ i \in Calls /\ IsFiniteSet(swaps)
      /\ \A j \in swaps : amounts[j] \in Nat /\ amounts[j] \in Int
  BY CallParts DEF TaoInv, TaoTypeOK, Entries
<1>2. SumFunctionOnSet(amounts, swaps) = i.amount + SumFunctionOnSet(amounts, swaps \ {i})
  BY <1>1, SumRemove, CallParts
<1>3. IsFiniteSet(swaps \ {i})
  BY <1>1, FS_Subset
<1>4. SumFunctionOnSet(amounts, swaps \ {i}) \in Nat
  BY <1>1, <1>3, SumNat
<1>5. held = SumFunctionOnSet(amounts, swaps) /\ i.amount \in Nat
  BY <1>1, CallParts DEF TaoInv, Solvent, amounts
<1> QED BY <1>2, <1>3, <1>4, <1>5

LEMMA TaoInvInit == TaoInit => TaoInv
<1> SUFFICES ASSUME TaoInit PROVE TaoInv
  OBVIOUS
<1>1. TaoTypeOK
  BY TaoAssumption, HashLockAssumption DEF TaoInit, TaoTypeOK
<1>2. Entries /\ SpentExpired
  BY FS_EmptySet DEF TaoInit, Entries, SpentExpired
<1>3. Solvent
  BY SumEmpty DEF TaoInit, Solvent
<1> QED BY <1>1, <1>2, <1>3 DEF TaoInv

LEMMA TaoInvStep == TaoInv /\ [TaoNext]_taoVars => TaoInv'
<1> SUFFICES ASSUME TaoInv, [TaoNext]_taoVars PROVE TaoInv'
  OBVIOUS
<1> USE DEF TaoInv
<1>1. ASSUME NEW i \in Calls, lock(i) PROVE TaoInv'
  <2>1. TaoTypeOK'
    <3>1. balance[i.sender] - i.amount \in Nat
      BY <1>1, CallParts DEF lock, TaoTypeOK
    <3> QED BY <1>1, <3>1, CallParts DEF lock, TaoTypeOK
  <2>2. Entries' /\ Solvent'
    BY <1>1, EntryAdded DEF lock, Entries, Solvent, TaoTypeOK, amounts
  <2>3. SpentExpired'
    BY <1>1 DEF lock, SpentExpired, TaoTypeOK, RefundOpen
  <2> QED BY <2>1, <2>2, <2>3
<1>2. ASSUME NEW i \in Calls, NEW p \in Preimage, claim(i, p) PROVE TaoInv'
  <2>1. TaoTypeOK'
    <3>1. balance[i.receiver] + i.amount \in Nat
      BY <1>2, CallParts DEF claim, TaoTypeOK
    <3>2. held' \in Nat
      BY <1>2, EntryRemoved DEF claim
    <3> QED BY <1>2, <3>1, <3>2, CallParts DEF claim, TaoTypeOK, Remaining
  <2>2. Entries' /\ Solvent'
    BY <1>2, EntryRemoved DEF claim, Entries, Solvent, TaoTypeOK, amounts, Remaining
  <2>3. SpentExpired'
    BY <1>2 DEF claim, SpentExpired, TaoTypeOK, RefundOpen
  <2> QED BY <2>1, <2>2, <2>3
<1>3. ASSUME NEW i \in Calls, refund(i) PROVE TaoInv'
  <2>1. TaoTypeOK'
    <3>1. balance[i.sender] + i.amount \in Nat
      BY <1>3, CallParts DEF refund, TaoTypeOK
    <3>2. held' \in Nat
      BY <1>3, EntryRemoved DEF refund
    <3> QED BY <1>3, <3>1, <3>2, CallParts DEF refund, TaoTypeOK, Remaining
  <2>2. Entries' /\ Solvent'
    BY <1>3, EntryRemoved DEF refund, Entries, Solvent, TaoTypeOK, amounts, Remaining
  <2>3. SpentExpired'
    BY <1>3 DEF refund, SpentExpired, TaoTypeOK, RefundOpen
  <2> QED BY <2>1, <2>2, <2>3
<1>4. CASE Block
  <2>1. TaoTypeOK'
    BY <1>4, HashLockAssumption DEF Block, TaoTypeOK
  <2>2. SpentExpired'
    BY <1>4, CallParts DEF Block, SpentExpired, TaoTypeOK, RefundOpen
  <2> QED BY <1>4, <2>1, <2>2 DEF Block, Entries, Solvent
<1>5. CASE UNCHANGED taoVars
  BY <1>5 DEF taoVars, TaoTypeOK, Entries, SpentExpired, Solvent, RefundOpen
<1> QED BY <1>1, <1>2, <1>3, <1>4, <1>5 DEF TaoNext

\* No account and no contract balance is ever negative: no call of lock, claim
\* or refund overdraws what it is paid from.
THEOREM TaoNoOverdraft == TaoSpec => []TaoTypeOK
<1>1. TaoInv => TaoTypeOK
  BY DEF TaoInv
<1> QED BY <1>1, TaoInvInit, TaoInvStep, PTL DEF TaoSpec

\* The contract holds exactly what its open swaps are owed.
THEOREM HoldsWhatItOwes == TaoSpec => []Solvent
<1>1. TaoInv => Solvent
  BY DEF TaoInv
<1> QED BY <1>1, TaoInvInit, TaoInvStep, PTL DEF TaoSpec

-----------------------------------------------------------------------------
\* The contract is a hash- and time-locked contract per swap id: each call is
\* the abstract step of the same name, and a block is a tick of its clock.
THEOREM TaoImplementsHtlc == TaoSpec => TaoIsHtlc
<1> DEFINE deed == [i \in Calls |->
                      IF event[i] = "none"
                      THEN [hash |-> "none", to |-> "none", back |-> "none", after |-> 0]
                      ELSE [hash |-> i.hashlock, to |-> i.receiver,
                            back |-> i.sender, after |-> i.refundAfter]]
<1>1. TaoInit => C!Init
  BY DEF TaoInit, C!Init, C!NoDeed
<1>2. TaoInv /\ [TaoNext]_taoVars => [C!Next]_(C!vars)
  <2> SUFFICES ASSUME TaoInv, [TaoNext]_taoVars PROVE [C!Next]_(C!vars)
    OBVIOUS
  <2> USE DEF TaoInv
  <2>1. ASSUME NEW i \in Calls, lock(i) PROVE C!Next
    <3> DEFINE d == [hash |-> i.hashlock, to |-> i.receiver,
                     back |-> i.sender, after |-> i.refundAfter]
    <3>1. d \in C!Deed
      BY CallParts DEF C!Deed
    <3>2. event[i] \in {"none", "claimed"}
      BY <2>1, CallParts DEF lock, TaoTypeOK, Entries, SpentExpired, RefundOpen, InFuture
    <3>3. deed' = [deed EXCEPT ![i] = d]
      BY <2>1 DEF lock, TaoTypeOK
    <3>4. C!Lock(i, d)
      BY <2>1, <3>2, <3>3 DEF C!Lock, lock
    <3> QED BY <3>1, <3>4 DEF C!Next
  <2>2. ASSUME NEW i \in Calls, NEW p \in Preimage, claim(i, p) PROVE C!Next
    <3>1. event[i] = "locked"
      BY <2>2 DEF claim, Entries
    <3>2. deed' = deed /\ deed[i].hash = i.hashlock
      BY <2>2, <3>1 DEF claim, TaoTypeOK
    <3>3. C!Claim(i, p)
      BY <2>2, <3>1, <3>2 DEF C!Claim, claim, Unlocks
    <3> QED BY <3>3 DEF C!Next
  <2>3. ASSUME NEW i \in Calls, refund(i) PROVE C!Next
    <3>1. event[i] = "locked"
      BY <2>3 DEF refund, Entries
    <3>2. deed' = deed /\ deed[i].after = i.refundAfter
      BY <2>3, <3>1 DEF refund, TaoTypeOK
    <3>3. C!Refund(i)
      BY <2>3, <3>1, <3>2 DEF C!Refund, refund, RefundOpen
    <3> QED BY <3>3 DEF C!Next
  <2>4. CASE Block
    BY <2>4 DEF Block, C!Next, C!Tick
  <2>5. CASE UNCHANGED taoVars
    BY <2>5 DEF taoVars, C!vars
  <2> QED BY <2>1, <2>2, <2>3, <2>4, <2>5 DEF TaoNext
<1>3. TaoSpec => []TaoInv
  BY TaoInvInit, TaoInvStep, PTL DEF TaoSpec
<1> QED BY <1>1, <1>2, <1>3, PTL DEF TaoSpec, TaoIsHtlc, C!Spec
=============================================================================
