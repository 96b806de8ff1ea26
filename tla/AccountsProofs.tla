--------------------------- MODULE AccountsProofs ---------------------------
(***************************************************************************)
(* The balance row is the sum of the rows it summarises, and the service    *)
(* keeps the promise of LoyaltyAccounts, for every value of the constants.  *)
(***************************************************************************)
EXTENDS OrdersProofs

\* The points under the graph of f over S, which Total counts.
Under(f, S) == {p \in S \X (1..MaxAmount) : p[2] <= f[p[1]]}

LEMMA TotalIs ==
  ASSUME NEW f, NEW S
  PROVE  Accounts!Total(f, S) = Cardinality(Under(f, S))
BY DEF Accounts!Total, Accounts!Cardinality, Cardinality, Under

LEMMA UnderFinite ==
  ASSUME NEW f, NEW S, IsFiniteSet(S)
  PROVE  IsFiniteSet(Under(f, S))
<1>1. IsFiniteSet(1..MaxAmount)
  BY MaxAmountAssumption, FS_Interval
<1>2. IsFiniteSet(S \X (1..MaxAmount))
  BY <1>1, FS_Product
<1>3. Under(f, S) \in SUBSET (S \X (1..MaxAmount))
  BY DEF Under
<1>4. QED
  BY <1>2, <1>3, FS_Subset

LEMMA TotalType ==
  ASSUME NEW f, NEW S, IsFiniteSet(S)
  PROVE  Accounts!Total(f, S) \in Nat
BY TotalIs, UnderFinite, FS_CardinalityType

\* A sum is a matter of its terms only.
LEMMA SameTotal ==
  ASSUME NEW f, NEW g, NEW S, \A x \in S : f[x] = g[x]
  PROVE  Accounts!Total(f, S) = Accounts!Total(g, S)
<1>1. Under(f, S) = Under(g, S)
  BY DEF Under
<1>2. QED
  BY <1>1, TotalIs

LEMMA TotalGrows ==
  ASSUME NEW f, NEW g, NEW S, NEW T, IsFiniteSet(T), S \subseteq T,
         \A x \in S : f[x] = g[x]
  PROVE  Accounts!Total(f, S) <= Accounts!Total(g, T)
<1>1. Under(f, S) \in SUBSET Under(g, T)
  BY DEF Under
<1>2. QED
  BY <1>1, UnderFinite, FS_Subset, TotalIs

LEMMA UpTo ==
  ASSUME NEW k \in Nat
  PROVE  IsFiniteSet(1..k) /\ Cardinality(1..k) = k
<1>1. 1 \in Int /\ k \in Int /\ (1 > k => k = 0) /\ k - 1 + 1 = k
  OBVIOUS
<1>2. QED
  BY <1>1, FS_Interval

\* What a term adds to a sum of positive terms.
Plus(k) == IF k > 0 THEN k ELSE 0

LEMMA TotalOfOne ==
  ASSUME NEW f, NEW x, f[x] \in -MaxAmount..MaxAmount
  PROVE  /\ IsFiniteSet(Under(f, {x}))
         /\ Cardinality(Under(f, {x})) = Plus(f[x])
<1>1. PICK i \in Int : i = f[x] /\ i <= MaxAmount
  BY MaxAmountAssumption
<1>2. PICK k \in Nat : k = Plus(i) /\ k <= MaxAmount
  BY <1>1, MaxAmountAssumption DEF Plus
<1>3. \A j \in 1..MaxAmount : j <= i <=> j \in 1..k
  BY <1>1, <1>2, MaxAmountAssumption DEF Plus
<1>4. \A j \in 1..k : j \in 1..MaxAmount
  BY <1>2, MaxAmountAssumption
<1>5. Under(f, {x}) = {x} \X (1..k)
  BY <1>1, <1>3, <1>4 DEF Under
<1>6. IsFiniteSet(1..k) /\ Cardinality(1..k) = k
  BY UpTo
<1>7. IsFiniteSet({x}) /\ Cardinality({x}) = 1
  BY FS_Singleton
<1>8. /\ IsFiniteSet({x} \X (1..k))
      /\ Cardinality({x} \X (1..k)) = 1 * k
  <2>1. PICK S, T : S = {x} /\ T = 1..k
    OBVIOUS
  <2>2. IsFiniteSet(S \X T) /\ Cardinality(S \X T) = Cardinality(S) * Cardinality(T)
    BY <1>6, <1>7, <2>1, FS_Product, Zenon
  <2>3. QED BY <1>6, <1>7, <2>1, <2>2, Zenon
<1>9. 1 * k = k
  OBVIOUS
<1>10. IsFiniteSet(Under(f, {x})) /\ Cardinality(Under(f, {x})) = k
  BY <1>5, <1>8, <1>9, Zenon
<1>11. QED
  BY <1>1, <1>2, <1>10, Zenon

\* A sum with one more term.
LEMMA TotalAdds ==
  ASSUME NEW f, NEW S, IsFiniteSet(S), NEW x, x \notin S, f[x] \in -MaxAmount..MaxAmount
  PROVE  Accounts!Total(f, S \cup {x}) = Accounts!Total(f, S) + Plus(f[x])
<1>1. Under(f, S \cup {x}) = Under(f, S) \cup Under(f, {x})
  BY DEF Under
<1>2. Under(f, S) \cap Under(f, {x}) = {}
  BY DEF Under
<1>3. IsFiniteSet(Under(f, S)) /\ IsFiniteSet(Under(f, {x}))
  BY UnderFinite, TotalOfOne
<1>4. PICK k \in Int : k = Plus(f[x]) /\ Cardinality(Under(f, {x})) = k
  BY MaxAmountAssumption, TotalOfOne DEF Plus
<1>5. PICK c \in Int : Cardinality(Under(f, S)) = c
  BY <1>3, FS_CardinalityType
<1>6. Cardinality(Under(f, S \cup {x})) = c + k - Cardinality({})
  BY <1>1, <1>2, <1>3, <1>4, <1>5, FS_Union
<1>7. Cardinality(Under(f, S \cup {x})) = c + k
  BY <1>6, FS_EmptySet
<1>8. QED
  BY <1>4, <1>5, <1>7, TotalIs
-----------------------------------------------------------------------------
\* The variables of the accounts, as Accounts reads them from the tables.
Owner  == [n \in Numbers |-> IF orders[n] = None THEN None ELSE orders[n].owner]
Reward == [n \in Numbers |-> IF Settled(n) THEN orders[n].accrual ELSE None]

RewardsOf(u) == {n \in Numbers : Owner[n] = u /\ Reward[n] # None}
SpentBy(u)   == {n \in Numbers : withdrawals[n] # None /\ withdrawals[n].user = u}

\* The sums of the withdrawals of u, and the same with the opposite sign.
SumsOf(u)    == [n \in SpentBy(u) |-> withdrawals[n].sum]
RefundsOf(u) == [n \in SpentBy(u) |-> -withdrawals[n].sum]

LEMMA EarnedIs ==
  ASSUME NEW u
  PROVE  /\ Accounts!Earned(u) = Accounts!Total(Reward, RewardsOf(u))
         /\ Accounts!Earned(u)' = Accounts!Total(Reward', RewardsOf(u)')
BY DEF Accounts!Earned, Owner, Reward, RewardsOf

LEMMA TakenIs ==
  ASSUME NEW u
  PROVE  /\ Accounts!Taken(u) = Accounts!Total(SumsOf(u), SpentBy(u))
         /\ Accounts!Taken(u)' = Accounts!Total(SumsOf(u)', SpentBy(u)')
         /\ Accounts!Given(u) = Accounts!Total(RefundsOf(u), SpentBy(u))
         /\ Accounts!Given(u)' = Accounts!Total(RefundsOf(u)', SpentBy(u)')
BY DEF Accounts!Taken, Accounts!Given, Accounts!MadeBy, SumsOf, RefundsOf, SpentBy

LEMMA SpentIs ==
  ASSUME NEW u
  PROVE  /\ Accounts!Spent(u) = Accounts!Taken(u) - Accounts!Given(u)
         /\ Accounts!Spent(u)' = Accounts!Taken(u)' - Accounts!Given(u)'
BY DEF Accounts!Spent

LEMMA DriftIs ==
  ASSUME NEW u
  PROVE  /\ Accounts!Drift(u) = Slack * Cardinality(SpentBy(u))
         /\ Accounts!Drift(u)' = Slack * Cardinality(SpentBy(u)')
BY DEF Accounts!Drift, Accounts!MadeBy, Accounts!Cardinality, Cardinality, SpentBy, Slack

LEMMA SlackType == Slack = 0 \/ Slack = 2
BY DEF Slack

\* The balance of u changes by c and d, and no other does.
Moves(u, c, d) ==
  /\ balance'[u].current = balance[u].current + c
  /\ balance'[u].withdrawn = balance[u].withdrawn + d
  /\ \A v \in Users \ {u} : balance'[v] = balance[v]

\* x is not further from y than e.
Close(x, y, e) == x - y <= e /\ y - x <= e

\* What a step does to the accounts: nothing, or one of their events, and the
\* change of the balance that goes with it.
Nothing == UNCHANGED <<Owner, Reward, withdrawals, balance>>

UploadEvent(u, m) ==
  /\ Owner[m] = None /\ Reward[m] = None
  /\ Owner' = [Owner EXCEPT ![m] = u]
  /\ UNCHANGED <<Reward, withdrawals, balance>>

SettleEvent(u, m, k) ==
  /\ Owner[m] = u /\ Reward[m] = None
  /\ Reward' = [Reward EXCEPT ![m] = k]
  /\ Moves(u, k, 0)
  /\ UNCHANGED <<Owner, withdrawals>>

WithdrawEvent(u, m, k, c, d) ==
  /\ withdrawals[m] = None /\ [user |-> u, sum |-> k] # None
  /\ withdrawals' = [withdrawals EXCEPT ![m] = [user |-> u, sum |-> k]]
  /\ k <= balance[u].current
  /\ Moves(u, c, d) /\ Close(c, -k, Slack) /\ Close(d, k, Slack) /\ Close(c + d, 0, Slack)
  /\ UNCHANGED <<Owner, Reward>>

\* The sum of a withdrawal.
Sum == -MaxAmount..MaxAmount

Event == \/ Nothing
         \/ \E u \in Users, m \in Numbers : UploadEvent(u, m)
         \/ \E u \in Users, m \in Numbers, k \in 0..MaxAmount : SettleEvent(u, m, k)
         \/ \E u \in Users, m \in Numbers, k \in Sum, c \in Int, d \in Int :
              WithdrawEvent(u, m, k, c, d)

LEMMA SpentFinite ==
  ASSUME NEW u
  PROVE  /\ IsFiniteSet(RewardsOf(u)) /\ IsFiniteSet(SpentBy(u))
         /\ IsFiniteSet(SpentBy(u)') /\ Cardinality(SpentBy(u)) \in Nat
<1>1. /\ RewardsOf(u) \in SUBSET Numbers
      /\ SpentBy(u) \in SUBSET Numbers /\ SpentBy(u)' \in SUBSET Numbers
  BY DEF RewardsOf, SpentBy
<1>2. QED
  BY <1>1, FS_Subset, FS_CardinalityType, StoreAssumption

LEMMA EarnedType ==
  ASSUME NEW u
  PROVE  /\ IsFiniteSet(RewardsOf(u)) /\ IsFiniteSet(SpentBy(u))
         /\ Accounts!Earned(u) \in Nat /\ Accounts!Taken(u) \in Nat
         /\ Accounts!Given(u) \in Nat /\ Accounts!Spent(u) \in Int
         /\ Accounts!Drift(u) \in Nat
<1>1. IsFiniteSet(RewardsOf(u)) /\ IsFiniteSet(SpentBy(u))
  BY SpentFinite
<1>2. /\ Accounts!Earned(u) \in Nat /\ Accounts!Taken(u) \in Nat
      /\ Accounts!Given(u) \in Nat
  BY <1>1, TotalType, EarnedIs, TakenIs
<1>3. Accounts!Spent(u) \in Int
  BY <1>2, SpentIs
<1>4. Accounts!Drift(u) \in Nat
  BY SpentFinite, DriftIs, SlackType
<1>5. QED
  BY <1>1, <1>2, <1>3, <1>4

\* The same after a step.
LEMMA SumsType ==
  ASSUME NEW u
  PROVE  /\ Accounts!Earned(u)' \in Int /\ Accounts!Taken(u)' \in Int
         /\ Accounts!Drift(u)' \in Int
<1>1. RewardsOf(u)' \in SUBSET Numbers /\ SpentBy(u)' \in SUBSET Numbers
  BY DEF RewardsOf, SpentBy
<1>2. IsFiniteSet(RewardsOf(u)') /\ IsFiniteSet(SpentBy(u)')
  BY <1>1, FS_Subset, StoreAssumption
<1>3. Accounts!Earned(u)' \in Nat /\ Accounts!Taken(u)' \in Nat
  BY <1>2, TotalType, EarnedIs, TakenIs
<1>4. Cardinality(SpentBy(u)') \in Nat
  BY <1>2, FS_CardinalityType
<1>5. Accounts!Drift(u)' \in Nat
  BY <1>4, DriftIs, SlackType
<1>6. QED
  BY <1>3, <1>5

\* What a user has earned or spent is a matter of the rows.
LEMMA EarnedKept ==
  ASSUME NEW u, UNCHANGED Reward, RewardsOf(u)' = RewardsOf(u)
  PROVE  Accounts!Earned(u)' = Accounts!Earned(u)
BY EarnedIs

LEMMA SpentKept ==
  ASSUME NEW u, UNCHANGED withdrawals
  PROVE  /\ Accounts!Taken(u)' = Accounts!Taken(u)
         /\ Accounts!Given(u)' = Accounts!Given(u)
         /\ Accounts!Spent(u)' = Accounts!Spent(u)
         /\ Accounts!Drift(u)' = Accounts!Drift(u)
<1>1. SumsOf(u)' = SumsOf(u) /\ RefundsOf(u)' = RefundsOf(u) /\ SpentBy(u)' = SpentBy(u)
  BY DEF SumsOf, RefundsOf, SpentBy
<1>2. QED
  BY <1>1, TakenIs, SpentIs, DriftIs

LEMMA EarnedByReward ==
  ASSUME NEW u \in Users, NEW m \in Numbers, NEW k \in 0..MaxAmount,
         Owner[m] = u, Reward[m] = None, Reward' = [Reward EXCEPT ![m] = k],
         UNCHANGED Owner
  PROVE  /\ Accounts!Earned(u)' = Accounts!Earned(u) + k
         /\ \A v \in Users \ {u} : Accounts!Earned(v)' = Accounts!Earned(v)
<1>r. DOMAIN Reward = Numbers
  BY DEF Reward
<1>k. k # None
  BY RowAssumption
<1>1. m \notin RewardsOf(u) /\ RewardsOf(u)' = RewardsOf(u) \cup {m}
  BY <1>r, <1>k DEF RewardsOf
<1>2. /\ Accounts!Total(Reward', RewardsOf(u)) = Accounts!Total(Reward, RewardsOf(u))
      /\ Reward'[m] = k
  <2>1. \A n \in RewardsOf(u) : Reward'[n] = Reward[n]
    BY <1>1, <1>r DEF RewardsOf
  <2>2. Reward'[m] = k
    BY <1>r
  <2>3. QED BY <2>1, <2>2, SameTotal
<1>3. \A v \in Users \ {u} : RewardsOf(v)' = RewardsOf(v)
  BY <1>r DEF RewardsOf
<1>4. ASSUME NEW v \in Users \ {u}
      PROVE  Accounts!Earned(v)' = Accounts!Earned(v)
  <2>1. \A n \in RewardsOf(v) : Reward'[n] = Reward[n]
    BY <1>r DEF RewardsOf
  <2>2. Accounts!Total(Reward', RewardsOf(v)) = Accounts!Total(Reward, RewardsOf(v))
    BY <2>1, SameTotal
  <2>3. QED BY <1>3, <2>2, EarnedIs
<1>5. Accounts!Earned(u)' = Accounts!Earned(u) + k
  <2>1. Accounts!Total(Reward', RewardsOf(u) \cup {m})
          = Accounts!Total(Reward', RewardsOf(u)) + k
    <3>1. PICK f, S : f = Reward' /\ S = RewardsOf(u)
      OBVIOUS
    <3>2. IsFiniteSet(S) /\ m \notin S /\ f[m] = k
      <4>1. IsFiniteSet(S)
        BY <3>1, EarnedType, Zenon
      <4>2. m \notin S /\ f[m] = k
        BY <1>1, <1>2, <3>1, Zenon
      <4>3. QED BY <4>1, <4>2
    <3>3. k \in -MaxAmount..MaxAmount /\ Plus(k) = k
      BY MaxAmountAssumption DEF Plus
    <3>4. Accounts!Total(f, S \cup {m}) = Accounts!Total(f, S) + Plus(f[m])
      BY <3>2, <3>3, TotalAdds
    <3>5. QED BY <3>1, <3>2, <3>3, <3>4
  <2>2. Accounts!Earned(u)' = Accounts!Total(Reward', RewardsOf(u) \cup {m})
    BY <1>1, EarnedIs, Zenon
  <2>3. Accounts!Earned(u) = Accounts!Total(Reward', RewardsOf(u))
    BY <1>2, EarnedIs, Zenon
  <2>4. QED BY <2>1, <2>2, <2>3, Zenon
<1>6. QED
  BY <1>4, <1>5

\* A withdrawal of k is one more term of the sums of its user.
LEMMA SpentByWithdrawal ==
  ASSUME NEW u \in Users, NEW m \in Numbers, NEW k \in Sum,
         withdrawals[m] = None, withdrawals \in [Numbers -> Withdrawal \cup {None}],
         withdrawals' = [withdrawals EXCEPT ![m] = [user |-> u, sum |-> k]],
         [user |-> u, sum |-> k] # None
  PROVE  /\ Accounts!Taken(u)' = Accounts!Taken(u) + Plus(k)
         /\ Accounts!Given(u)' = Accounts!Given(u) + Plus(-k)
         /\ Accounts!Drift(u)' = Accounts!Drift(u) + Slack
<1>1. /\ withdrawals'[m] = [user |-> u, sum |-> k]
      /\ \A n \in Numbers \ {m} : withdrawals'[n] = withdrawals[n]
  OBVIOUS
<1>2. PICK S : S = SpentBy(u) /\ IsFiniteSet(S)
  BY SpentFinite
<1>3. m \notin S /\ SpentBy(u)' = S \cup {m}
  BY <1>1, <1>2 DEF SpentBy
<1>4. PICK f, g : f = SumsOf(u)' /\ g = RefundsOf(u)'
  OBVIOUS
<1>5. /\ f[m] = k /\ \A n \in S : f[n] = SumsOf(u)[n]
      /\ g[m] = -k /\ \A n \in S : g[n] = RefundsOf(u)[n]
  <2>1. \A n \in S : n \in Numbers \ {m}
    BY <1>2, <1>3 DEF SpentBy
  <2>2. f[m] = k /\ g[m] = -k
    BY <1>1, <1>3, <1>4 DEF SumsOf, RefundsOf
  <2>3. \A n \in S : f[n] = withdrawals[n].sum /\ g[n] = -withdrawals[n].sum
    BY <1>1, <1>3, <1>4, <2>1 DEF SumsOf, RefundsOf
  <2>4. QED BY <1>2, <2>2, <2>3 DEF SumsOf, RefundsOf
<1>6. k \in -MaxAmount..MaxAmount /\ -k \in -MaxAmount..MaxAmount
  BY MaxAmountAssumption DEF Sum
<1>7. Accounts!Total(f, S \cup {m}) = Accounts!Total(SumsOf(u), S) + Plus(k)
  <2>1. Accounts!Total(f, S \cup {m}) = Accounts!Total(f, S) + Plus(k)
    BY <1>2, <1>3, <1>5, <1>6, TotalAdds
  <2>2. Accounts!Total(f, S) = Accounts!Total(SumsOf(u), S)
    BY <1>5, SameTotal
  <2>3. QED BY <2>1, <2>2
<1>8. Accounts!Total(g, S \cup {m}) = Accounts!Total(RefundsOf(u), S) + Plus(-k)
  <2>1. Accounts!Total(g, S \cup {m}) = Accounts!Total(g, S) + Plus(-k)
    BY <1>2, <1>3, <1>5, <1>6, TotalAdds
  <2>2. Accounts!Total(g, S) = Accounts!Total(RefundsOf(u), S)
    BY <1>5, SameTotal
  <2>3. QED BY <2>1, <2>2
<1>9. Accounts!Drift(u)' = Accounts!Drift(u) + Slack
  <2>1. PICK c \in Nat : c = Cardinality(S)
    BY <1>2, FS_CardinalityType
  <2>2. Cardinality(S \cup {m}) = c + 1
    BY <1>2, <1>3, <2>1, FS_AddElement
  <2>3. Accounts!Drift(u) = Slack * c /\ Accounts!Drift(u)' = Slack * (c + 1)
    BY <1>2, <1>3, <2>1, <2>2, DriftIs
  <2>4. Slack * (c + 1) = Slack * c + Slack
    BY SlackType
  <2>5. QED BY <2>3, <2>4
<1>10. QED
  BY <1>2, <1>3, <1>4, <1>7, <1>8, <1>9, TakenIs

\* And those of the other users are what they were.
LEMMA OthersSpentKept ==
  ASSUME NEW u \in Users, NEW v \in Users \ {u}, NEW m \in Numbers, NEW k,
         withdrawals[m] = None, withdrawals \in [Numbers -> Withdrawal \cup {None}],
         withdrawals' = [withdrawals EXCEPT ![m] = [user |-> u, sum |-> k]]
  PROVE  /\ Accounts!Taken(v)' = Accounts!Taken(v)
         /\ Accounts!Given(v)' = Accounts!Given(v)
         /\ Accounts!Drift(v)' = Accounts!Drift(v)
<1>1. /\ withdrawals'[m] = [user |-> u, sum |-> k]
      /\ \A n \in Numbers \ {m} : withdrawals'[n] = withdrawals[n]
  OBVIOUS
<1>2. SpentBy(v)' = SpentBy(v) /\ m \notin SpentBy(v)
  BY <1>1 DEF SpentBy
<1>3. \A n \in SpentBy(v) : withdrawals'[n] = withdrawals[n]
  BY <1>1, <1>2 DEF SpentBy
<1>4. SumsOf(v)' = SumsOf(v) /\ RefundsOf(v)' = RefundsOf(v)
  BY <1>2, <1>3 DEF SumsOf, RefundsOf
<1>5. QED
  BY <1>2, <1>4, TakenIs, DriftIs

\* The row of a user in terms of the user's orders and withdrawals.
Agrees(u) ==
  /\ Close(balance[u].current, Accounts!Earned(u) - Accounts!Spent(u), Accounts!Drift(u))
  /\ Close(balance[u].withdrawn, Accounts!Spent(u), Accounts!Drift(u))
  /\ Close(balance[u].current + balance[u].withdrawn, Accounts!Earned(u), Accounts!Drift(u))

LEMMA BalanceInt ==
  ASSUME TypeInv, NEW u \in Users
  PROVE  balance[u].current \in Int /\ balance[u].withdrawn \in Int
<1>1. balance[u] \in Balance
  BY DEF TypeInv, TypeOK
<1>2. \A b \in Balance : b.current \in Int /\ b.withdrawn \in Int
  BY AmountInt DEF Balance
<1>3. QED
  BY <1>1, <1>2

LEMMA NearIsClose ==
  ASSUME NEW x \in Int, NEW y \in Int, NEW u \in Users
  PROVE  Near(x, y, u) <=> Close(x, y, Accounts!Drift(u))
<1>1. PICK e \in Nat : e = Accounts!Drift(u)
  BY EarnedType
<1>2. x - y \in -e..e <=> Close(x, y, e)
  BY DEF Close
<1>3. QED
  BY <1>1, <1>2 DEF Near

LEMMA AgreesIs == TypeInv => (BalanceAgrees <=> \A u \in Users : Agrees(u))
<1> SUFFICES ASSUME TypeInv, NEW u \in Users
             PROVE  Agrees(u) <=>
               /\ Near(balance[u].current, Accounts!Earned(u) - Accounts!Spent(u), u)
               /\ Near(balance[u].withdrawn, Accounts!Spent(u), u)
               /\ Near(balance[u].current + balance[u].withdrawn, Accounts!Earned(u), u)
  BY DEF BalanceAgrees
<1>1. PICK c \in Int, d \in Int : c = balance[u].current /\ d = balance[u].withdrawn
  BY BalanceInt
<1>2. PICK e \in Int, s \in Int : e = Accounts!Earned(u) /\ s = Accounts!Spent(u)
  BY EarnedType
<1>3. e - s \in Int /\ c + d \in Int
  BY <1>1, <1>2
<1>4. QED
  BY <1>1, <1>2, <1>3, NearIsClose DEF Agrees

\* Every event of the accounts keeps the row in agreement with the sums.
LEMMA EventAgrees ==
  ASSUME TypeInv, TypeInv', BalanceAgrees, Event
  PROVE  BalanceAgrees'
<1>a. \A u \in Users : Agrees(u)
  BY AgreesIs
<1>p. TypeInv' => (BalanceAgrees' <=> \A u \in Users : Agrees(u)')
  <2>1. (TypeInv => (BalanceAgrees <=> \A u \in Users : Agrees(u)))'
    BY AgreesIs, PTL
  <2>2. QED BY <2>1
<1>g. SUFFICES ASSUME NEW u \in Users PROVE Agrees(u)'
  BY <1>p
<1>t. PICK c \in Int, d \in Int, e \in Int, t \in Int, g \in Int, f \in Int :
        /\ c = balance[u].current /\ d = balance[u].withdrawn
        /\ e = Accounts!Earned(u) /\ t = Accounts!Taken(u) /\ g = Accounts!Given(u)
        /\ f = Accounts!Drift(u)
  <2>1. PICK c \in Int, d \in Int : c = balance[u].current /\ d = balance[u].withdrawn
    BY BalanceInt
  <2>2. Accounts!Earned(u) \in Int /\ Accounts!Taken(u) \in Int
    BY EarnedType
  <2>3. Accounts!Given(u) \in Int /\ Accounts!Drift(u) \in Int
    BY EarnedType
  <2>4. QED BY <2>1, <2>2, <2>3, Zenon
<1>s. /\ Accounts!Spent(u) = t - g
      /\ Close(c, e - (t - g), f) /\ Close(d, t - g, f) /\ Close(c + d, e, f)
  BY <1>a, <1>t, SpentIs DEF Agrees
<1>1. CASE Nothing
  <2>1. /\ Accounts!Earned(u)' = Accounts!Earned(u) /\ Accounts!Spent(u)' = Accounts!Spent(u)
        /\ Accounts!Drift(u)' = Accounts!Drift(u)
    BY <1>1, EarnedKept, SpentKept DEF Nothing, RewardsOf
  <2>2. QED BY <1>1, <1>a, <2>1 DEF Nothing, Agrees
<1>2. ASSUME NEW v \in Users, NEW m \in Numbers, UploadEvent(v, m)
      PROVE  Agrees(u)'
  <2>1. RewardsOf(u)' = RewardsOf(u)
    BY <1>2 DEF UploadEvent, RewardsOf, Owner
  <2>2. /\ Accounts!Earned(u)' = Accounts!Earned(u) /\ Accounts!Spent(u)' = Accounts!Spent(u)
        /\ Accounts!Drift(u)' = Accounts!Drift(u)
    BY <1>2, <2>1, EarnedKept, SpentKept DEF UploadEvent
  <2>3. QED BY <1>2, <1>a, <2>2 DEF UploadEvent, Agrees
<1>3. ASSUME NEW v \in Users, NEW m \in Numbers, NEW k \in 0..MaxAmount,
             SettleEvent(v, m, k)
      PROVE  Agrees(u)'
  <2>1. /\ Accounts!Earned(v)' = Accounts!Earned(v) + k
        /\ \A x \in Users \ {v} : Accounts!Earned(x)' = Accounts!Earned(x)
    BY <1>3, EarnedByReward DEF SettleEvent
  <2>2. Accounts!Spent(u)' = Accounts!Spent(u) /\ Accounts!Drift(u)' = Accounts!Drift(u)
    BY <1>3, SpentKept DEF SettleEvent
  <2>3. Moves(v, k, 0) /\ k \in Int
    BY <1>3, MaxAmountAssumption DEF SettleEvent
  <2>4. CASE u = v
    <3>1. /\ balance'[u].current = c + k /\ balance'[u].withdrawn = d
          /\ Accounts!Earned(u)' = e + k
      BY <1>t, <2>1, <2>3, <2>4 DEF Moves
    <3>2. /\ Close(c + k, (e + k) - (t - g), f) /\ Close(d, t - g, f)
          /\ Close((c + k) + d, e + k, f)
      BY <1>s, <2>3 DEF Close
    <3>3. QED BY <1>t, <1>s, <2>2, <3>1, <3>2 DEF Agrees
  <2>5. CASE u # v
    BY <1>a, <2>1, <2>2, <2>3, <2>5 DEF Moves, Agrees
  <2>6. QED BY <2>4, <2>5
<1>4. ASSUME NEW v \in Users, NEW m \in Numbers, NEW k \in Sum, NEW a \in Int,
             NEW b \in Int, WithdrawEvent(v, m, k, a, b)
      PROVE  Agrees(u)'
  <2>1. /\ withdrawals \in [Numbers -> Withdrawal \cup {None}]
        /\ withdrawals[m] = None /\ [user |-> v, sum |-> k] # None
        /\ withdrawals' = [withdrawals EXCEPT ![m] = [user |-> v, sum |-> k]]
    BY <1>4 DEF TypeInv, TypeOK, WithdrawEvent
  <2>2. Accounts!Earned(u)' = Accounts!Earned(u)
    BY <1>4, EarnedKept DEF WithdrawEvent, RewardsOf
  <2>3. CASE u = v
    <3>1. PICK p \in Int, n \in Int, z \in Int : p = Plus(k) /\ n = Plus(-k) /\ z = Slack
      BY MaxAmountAssumption, SlackType DEF Sum, Plus
    <3>2. k \in Int /\ p - n = k
      BY <3>1, MaxAmountAssumption DEF Sum, Plus
    <3>3. /\ Accounts!Taken(u)' = t + p /\ Accounts!Given(u)' = g + n
          /\ Accounts!Drift(u)' = f + z
      BY <1>t, <2>1, <2>3, <3>1, SpentByWithdrawal
    <3>4. /\ balance'[u].current = c + a /\ balance'[u].withdrawn = d + b
          /\ Close(a, -k, z) /\ Close(b, k, z) /\ Close(a + b, 0, z)
      BY <1>t, <1>4, <2>3, <3>1 DEF WithdrawEvent, Moves
    <3>5. Accounts!Spent(u)' = (t + p) - (g + n)
      BY <3>3, SpentIs
    <3>6. /\ Close(c + a, e - ((t + p) - (g + n)), f + z)
          /\ Close(d + b, (t + p) - (g + n), f + z)
          /\ Close((c + a) + (d + b), e, f + z)
      BY <1>s, <3>1, <3>2, <3>4 DEF Close
    <3>7. QED BY <1>t, <2>2, <3>3, <3>4, <3>5, <3>6 DEF Agrees
  <2>4. CASE u # v
    <3>1. /\ Accounts!Taken(u)' = Accounts!Taken(u) /\ Accounts!Given(u)' = Accounts!Given(u)
          /\ Accounts!Drift(u)' = Accounts!Drift(u)
      BY <2>1, <2>4, OthersSpentKept
    <3>2. Accounts!Spent(u)' = Accounts!Spent(u)
      BY <3>1, SpentIs
    <3>3. balance'[u] = balance[u]
      BY <1>4, <2>4 DEF WithdrawEvent, Moves
    <3>4. QED BY <1>a, <2>2, <3>1, <3>2, <3>3 DEF Agrees
  <2>5. QED BY <2>3, <2>4
<1>5. QED
  BY <1>1, <1>2, <1>3, <1>4 DEF Event
-----------------------------------------------------------------------------
\* What the rows and the jobs of the updater know of each other: the reward of
\* a job goes to the owner of its order, and an order without outcome has none.
RowsInv ==
  /\ \A n \in Uploaded : orders[n].status \notin Final => orders[n].accrual = 0
  /\ \A o \in ch : orders[o.number].owner = o.user
  /\ \A w \in Workers : Busy(w) => orders[job[w].number].owner = job[w].user

\* A step by which no job or order of the channel is new.
LEMMA RowsKept ==
  ASSUME TypeInv, RowsInv, OwnersKept, ch' \subseteq ch,
         \A w \in Workers : Busy(w)' => /\ Busy(w)
                                        /\ job'[w].number = job[w].number
                                        /\ job'[w].user = job[w].user,
         \A n \in Uploaded' : \/ n \in Uploaded /\ orders'[n] = orders[n]
                              \/ orders'[n].status \in Final
                              \/ orders'[n].accrual = 0
  PROVE  RowsInv'
<1>1. \A o \in ch : o.number \in Numbers /\ orders[o.number] # None
  BY DEF TypeInv, TypeOK, JobInv, OrderToProcess
<1>2. \A w \in Workers :
        Busy(w) => job[w].number \in Numbers /\ orders[job[w].number] # None
  BY DEF TypeInv, JobInv, Busy
<1>3. \A o \in ch' : orders'[o.number].owner = o.user
  BY <1>1 DEF RowsInv, OwnersKept
<1>4. \A w \in Workers : Busy(w)' => orders'[job'[w].number].owner = job'[w].user
  BY <1>2 DEF RowsInv, OwnersKept
<1>5. \A n \in Uploaded' : orders'[n].status \notin Final => orders'[n].accrual = 0
  BY DEF RowsInv
<1>6. QED
  BY <1>3, <1>4, <1>5 DEF RowsInv

\* A worker that goes on with its order, or gives it up.
LEMMA JobKeepsRows ==
  ASSUME TypeInv, RowsInv, OwnersKept, NEW w \in Workers, NEW j,
         job' = [job EXCEPT ![w] = j], ch' = ch,
         j.pc = "idle" \/ (Busy(w) /\ j.number = job[w].number /\ j.user = job[w].user),
         \A n \in Uploaded' : \/ n \in Uploaded /\ orders'[n] = orders[n]
                              \/ orders'[n].status \in Final
                              \/ orders'[n].accrual = 0
  PROVE  RowsInv'
<1>1. job'[w] = j /\ \A v \in Workers \ {w} : job'[v] = job[v]
  BY DEF TypeInv, TypeOK
<1>2. \A v \in Workers : Busy(v)' => /\ Busy(v)
                                     /\ job'[v].number = job[v].number
                                     /\ job'[v].user = job[v].user
  BY <1>1 DEF Busy
<1>3. QED
  BY <1>2, RowsKept

LEMMA AccrualStepRows ==
  ASSUME TypeInv, TypeInv', PipelineInv, RowsInv, NEW w \in Workers, AccrualStep(w)
  PROVE  RowsInv'
<1> DEFINE j == job[w]
<1>j. j \in Job
  BY DEF TypeInv, TypeOK
<1>o. OwnersKept
  BY AccrualStepIsMonotone DEF OwnersKept, Goes, Uploaded
<1>i. IdleJob.pc = "idle"
  BY DEF IdleJob
<1>a. ASSUME NEW k, UNCHANGED <<ch, orders>>, job' = [job EXCEPT ![w] = k],
             k.pc = "idle" \/ (Busy(w) /\ k.number = j.number /\ k.user = j.user)
      PROVE  RowsInv'
  <2>1. \A n \in Uploaded' : n \in Uploaded /\ orders'[n] = orders[n]
    BY <1>a DEF Uploaded
  <2>2. QED BY <1>a, <1>o, <2>1, JobKeepsRows
<1>1. CASE Receive(w)
  <2>1. PICK o \in ch :
          /\ ch' = ch \ {o}
          /\ job' = [job EXCEPT ![w] =
               [IdleJob EXCEPT !.pc = IF o.status = "NEW" THEN "mark" ELSE "ask",
                               !.number = o.number, !.user = o.user]]
    BY <1>1 DEF Receive
  <2>2. /\ job'[w].number = o.number /\ job'[w].user = o.user
        /\ \A v \in Workers \ {w} : job'[v] = job[v]
    BY <2>1 DEF TypeInv, TypeOK, IdleJob
  <2>3. UNCHANGED orders
    BY <1>1 DEF Receive, store
  <2>4. \A v \in Workers : Busy(v)' => orders[job'[v].number].owner = job'[v].user
    BY <2>2 DEF RowsInv, Busy
  <2>5. QED BY <2>1, <2>3, <2>4 DEF RowsInv, Uploaded
<1>2. CASE MarkProcessing(w)
  <2>1. Busy(w) /\ j.number \in Numbers /\ j.number \in Uploaded /\ ch' = ch
        /\ orders[j.number] \in Order /\ orders[j.number].accrual = 0
    BY <1>2 DEF MarkProcessing, Busy, TypeInv, TypeOK, JobInv, Uploaded, PipelineInv,
      FinalRow, RowsInv
  <2>2. orders' = [orders EXCEPT ![j.number] =
                     [orders[j.number] EXCEPT !.status = "PROCESSING"]]
    BY <1>2 DEF MarkProcessing
  <2>3. orders'[j.number].accrual = 0
    BY <2>1, <2>2 DEF TypeInv, TypeOK, Order
  <2>4. \A n \in Uploaded' : \/ n \in Uploaded /\ orders'[n] = orders[n]
                             \/ orders'[n].accrual = 0
    BY <2>1, <2>2, <2>3 DEF TypeInv, TypeOK, Uploaded
  <2>5. PICK k : /\ job' = [job EXCEPT ![w] = k]
                 /\ k.pc = "idle" \/ (k.number = j.number /\ k.user = j.user)
    <3>1. [j EXCEPT !.pc = "ask"].number = j.number /\ [j EXCEPT !.pc = "ask"].user = j.user
      BY <1>j DEF Job
    <3>2. QED BY <1>2, <1>i, <3>1 DEF MarkProcessing
  <2>6. QED BY <1>o, <2>1, <2>4, <2>5, JobKeepsRows
<1>3. CASE FinalAnswer(w)
  <2>1. PICK s \in Final, a \in AccrualSums \cup {0} :
          job' = [job EXCEPT ![w] =
            [j EXCEPT !.pc = IF a = 0 THEN "settle" ELSE "begin",
                      !.status = s, !.accrual = a]]
    BY <1>3 DEF FinalAnswer
  <2> DEFINE k == [j EXCEPT !.pc = IF a = 0 THEN "settle" ELSE "begin",
                            !.status = s, !.accrual = a]
  <2>2. k.number = j.number /\ k.user = j.user
    BY <1>j DEF Job
  <2>3. Busy(w) /\ UNCHANGED <<ch, orders>>
    BY <1>3 DEF FinalAnswer, Busy, store
  <2> HIDE DEF k
  <2>4. job' = [job EXCEPT ![w] = k]
    BY <2>1 DEF k
  <2>5. QED BY <1>a, <2>2, <2>3, <2>4
<1>b. ASSUME NEW row, Busy(w), ch' = ch, job' = [job EXCEPT ![w] = IdleJob],
             orders' = [orders EXCEPT ![j.number] = row], row.status \in Final
      PROVE  RowsInv'
  <2>1. j.number \in Numbers /\ j.number \in Uploaded
    BY <1>b DEF Busy, TypeInv, JobInv, Uploaded
  <2>2. \A n \in Uploaded' : \/ n \in Uploaded /\ orders'[n] = orders[n]
                             \/ orders'[n].status \in Final
    BY <1>b, <2>1 DEF TypeInv, TypeOK, Uploaded
  <2>3. QED BY <1>b, <1>i, <1>o, <2>2, JobKeepsRows
<1>4. CASE SettleOrder(w)
  <2> DEFINE row == [orders[j.number] EXCEPT !.status = j.status]
  <2>1. /\ Busy(w) /\ ch' = ch /\ job' = [job EXCEPT ![w] = IdleJob]
        /\ orders' = [orders EXCEPT ![j.number] = row]
    BY <1>4 DEF SettleOrder, Busy
  <2>2. row.status \in Final
    BY <1>4 DEF SettleOrder, TypeInv, TypeOK, JobInv, Order
  <2> HIDE DEF row
  <2>3. QED BY <1>b, <2>1, <2>2
<1>5. CASE UpdateOrder(w)
  <2>1. /\ [j EXCEPT !.pc = "ordered"].number = j.number
        /\ [j EXCEPT !.pc = "ordered"].user = j.user
    BY <1>j DEF Job
  <2>2. QED BY <1>5, <1>a, <2>1 DEF UpdateOrder, Busy, store
<1>6. CASE Credit(w)
  <2>1. PICK c : job' = [job EXCEPT ![w] = [j EXCEPT !.pc = "credited", !.current = c]]
    BY <1>6 DEF Credit
  <2>2. /\ [j EXCEPT !.pc = "credited", !.current = c].number = j.number
        /\ [j EXCEPT !.pc = "credited", !.current = c].user = j.user
    BY <1>j DEF Job
  <2>3. QED BY <1>6, <1>a, <2>1, <2>2 DEF Credit, Busy
<1>7. CASE CommitAccrual(w)
  <2> DEFINE row == [orders[j.number] EXCEPT !.status = j.status,
                                             !.accrual = Stored(j.accrual)]
  <2>1. /\ Busy(w) /\ ch' = ch /\ job' = [job EXCEPT ![w] = IdleJob]
        /\ orders' = [orders EXCEPT ![j.number] = row]
    BY <1>7 DEF CommitAccrual, Busy
  <2>2. row.status \in Final
    BY <1>7 DEF CommitAccrual, TypeInv, TypeOK, JobInv, Order
  <2> HIDE DEF row
  <2>3. QED BY <1>b, <2>1, <2>2
<1>8. CASE GiveUp(w)
  BY <1>8, <1>i, <1>a DEF GiveUp
<1>9. QED
  BY <1>1, <1>2, <1>3, <1>4, <1>5, <1>6, <1>7, <1>8 DEF AccrualStep

\* An upload makes a row without reward, and moves no other.
LEMMA UploadStepRows ==
  ASSUME TypeInv, RowsInv, NEW r \in Uploaders, UploadStep(r), UNCHANGED accrualVars
  PROVE  RowsInv'
<1>1. \A n \in Uploaded : orders'[n] = orders[n]
  BY UploadIsMonotone
<1>2. OwnersKept
  BY <1>1 DEF OwnersKept, Uploaded
<1>3. \A n \in Uploaded' : n \in Uploaded \/ orders'[n].accrual = 0
  <2>1. CASE InsertOrder(r)
    <3> DEFINE m   == ureq[r].number
               row == [owner |-> ureq[r].user, status |-> "NEW", accrual |-> 0,
                       uploadedAt |-> Cardinality(Uploaded)]
    <3>1. orders' = [orders EXCEPT ![m] = row] /\ row.accrual = 0
      BY <2>1 DEF InsertOrder
    <3> HIDE DEF m, row
    <3>2. QED BY <3>1 DEF Uploaded, TypeInv, TypeOK
  <2>2. CASE UNCHANGED orders
    BY <2>2 DEF Uploaded
  <2>3. QED
    BY <2>1, <2>2 DEF UploadStep, RefuseUpload, AddOrder, InsertConflict,
      GetOrderByNumber, UploadFails, UploadTimeout, AnswerUpload, store
<1>4. QED
  BY <1>1, <1>2, <1>3, RowsKept DEF accrualVars, Busy

LEMMA RowsStep ==
  TypeInv /\ TypeInv' /\ PipelineInv /\ RowsInv /\ [Next]_vars => RowsInv'
<1> SUFFICES ASSUME TypeInv, TypeInv', PipelineInv, RowsInv, [Next]_vars PROVE RowsInv'
  OBVIOUS
<1>a. CASE UNCHANGED <<orders, accrualVars>>
  BY <1>a DEF RowsInv, accrualVars, Busy, Uploaded
<1>1. ASSUME NEW r \in Withdrawers, WithdrawStep(r), UNCHANGED <<uploadVars, accrualVars>>
      PROVE  RowsInv'
  BY <1>1, <1>a, WithdrawKeepsOrders
<1>2. ASSUME NEW r \in Uploaders, UploadStep(r), UNCHANGED <<withdrawVars, accrualVars>>
      PROVE  RowsInv'
  BY <1>2, UploadStepRows
<1>3. CASE Poll
  <2>1. PICK batch \in SUBSET ToProcess :
          ch' = {[number |-> n, user |-> orders[n].owner,
                  status |-> orders[n].status] : n \in batch}
    BY <1>3 DEF Poll
  <2>2. UNCHANGED <<orders, job>>
    BY <1>3 DEF Poll, store
  <2>3. \A o \in ch' : orders[o.number].owner = o.user
    BY <2>1
  <2>4. QED BY <2>2, <2>3 DEF RowsInv, Busy, Uploaded
<1>4. ASSUME NEW w \in Workers, AccrualStep(w)
      PROVE  RowsInv'
  BY <1>4, AccrualStepRows
<1>5. CASE Crash
  BY <1>5 DEF Crash, RowsInv, Busy, IdleJob, Uploaded
<1>6. CASE UNCHANGED vars
  BY <1>6, <1>a DEF vars, store
<1>7. QED
  BY <1>1, <1>2, <1>3, <1>4, <1>5, <1>6 DEF Next, Running

LEMMA RowsInvariant == Spec => []RowsInv
<1>1. Init => RowsInv
  BY DEF Init, StoreInit, AccrualsInit, RowsInv, Busy, IdleJob, Uploaded
<1>2. QED
  BY <1>1, RowsStep, TypeInvariant, PipelineInvariant, PTL DEF Spec
-----------------------------------------------------------------------------
\* A credit to an even balance adds what the order has stored.
LEMMA StoredAdds ==
  ASSUME NEW c \in Int, NEW a \in Int, Whole(c), c >= 0, a >= 0
  PROVE  /\ Stored(c + a) = c + Stored(a)
         /\ Stored(a) \in Int /\ Stored(a) >= 0
BY DEF Stored, Whole

\* What AddWithdraw writes to the row of a user and what it records as the sum
\* of the withdrawal are the same but for the rounding.
LEMMA Rounding ==
  ASSUME NEW c \in Int, NEW d \in Int, NEW s \in Int, Whole(c), Whole(d),
         Whole(s) \/ Slack = 2, NEW x \in StoredFloats(c - s), NEW y \in StoredFloats(d + s)
  PROVE  /\ x \in Int /\ y \in Int /\ Stored(s) \in Int
         /\ Close(x - c, -Stored(s), Slack) /\ Close(y - d, Stored(s), Slack)
         /\ Close((x - c) + (y - d), 0, Slack)
<1>1. /\ x \in Int /\ y \in Int /\ Stored(s) \in Int
      /\ x \in {(c - s) - 1, c - s, (c - s) + 1} /\ y \in {(d + s) - 1, d + s, (d + s) + 1}
      /\ Stored(s) \in {s - 1, s, s + 1}
  BY DEF StoredFloats, Stored
<1>2. CASE Slack = 2
  BY <1>1, <1>2 DEF Close
<1>3. CASE Whole(s)
  <2>1. x = c - s /\ y = d + s /\ Stored(s) = s
    BY <1>3 DEF StoredFloats, Stored, Whole
  <2>2. QED BY <2>1, SlackType DEF Close
<1>4. QED
  BY <1>2, <1>3

\* A sum that the balance covers is covered as it is recorded.
LEMMA StoredIsCovered ==
  ASSUME NEW c \in Int, NEW s \in Int, Whole(c), c >= 0, s <= c
  PROVE  Stored(s) <= c
BY DEF Stored, Whole

LEMMA NothingOfTables ==
  ASSUME UNCHANGED <<orders, withdrawals, balance>>
  PROVE  Nothing
BY DEF Nothing, Owner, Reward, Settled

\* A commit of AddWithdraw is one withdrawal of the accounts.
LEMMA CommitWithdraws ==
  ASSUME BalanceInv, TypeInv', PaidInv, NEW r \in Withdrawers, CommitWithdrawal(r)
  PROVE  \E k \in Sum, a \in Int, b \in Int :
           WithdrawEvent(wreq[r].user, wreq[r].number, k, a, b)
<1>1. PICK q : q = wreq[r]
  OBVIOUS
<1>t. TypeInv /\ WellFormedWithdraw(q) /\ FreshRequest(q) /\ Pending(q) /\ q.pc = "updated"
  BY <1>1, WithdrawWellFormed DEF BalanceInv, FreshInv, CommitWithdrawal, Pending
<1>2. /\ q.user \in Users /\ q.number \in Numbers /\ q.sum \in Sums
      /\ Fits(Stored(q.sum))
  BY <1>t DEF WellFormedWithdraw
<1>3. PICK s \in Int : s = q.sum /\ (Whole(s) \/ Slack = 2)
  BY <1>2, WithdrawalsAssumption DEF Slack
<1>4. PICK k \in Int : k = Stored(s)
  BY <1>3 DEF Stored
<1>5. k \in Sum /\ k \in Amount
  BY <1>2, <1>3, <1>4, StoredType, AmountInt DEF Sum, Fits, Amount
<1>6. PICK c, d : c = balance[q.user].current /\ d = balance[q.user].withdrawn
  OBVIOUS
<1>7. c \in Int /\ d \in Int /\ Whole(c) /\ Whole(d) /\ c >= 0
  <2>1. c \in Amount /\ d \in Amount
    BY <1>t, <1>2, <1>6 DEF TypeInv, TypeOK, Balance
  <2>2. c >= 0
    BY <1>2, <1>6 DEF BalanceInv, NotOverdrawn
  <2>3. QED BY <2>1, <2>2, AmountInt DEF Amount
<1>8. PICK x, y : x = q.current /\ y = q.withdrawn
  OBVIOUS
<1>9. x \in StoredFloats(c - s) /\ y \in StoredFloats(d + s) /\ s <= c
  BY <1>t, <1>3, <1>6, <1>8 DEF FreshRequest
<1>10. /\ x \in Int /\ y \in Int
       /\ Close(x - c, -k, Slack) /\ Close(y - d, k, Slack)
       /\ Close((x - c) + (y - d), 0, Slack) /\ k <= c
  BY <1>3, <1>4, <1>7, <1>9, Rounding, StoredIsCovered
<1>11. withdrawals[q.number] = None
  BY <1>1, <1>t DEF PaidInv
<1>12. /\ withdrawals' = [withdrawals EXCEPT ![q.number] = [user |-> q.user, sum |-> k]]
       /\ balance' = [balance EXCEPT ![q.user] = [current |-> x, withdrawn |-> y]]
       /\ UNCHANGED orders
  BY <1>1, <1>3, <1>4, <1>8 DEF CommitWithdrawal
<1>13. [user |-> q.user, sum |-> k] # None
  <2>1. [user |-> q.user, sum |-> k] \in Withdrawal
    BY <1>2, <1>5 DEF Withdrawal
  <2>2. QED BY <2>1, RowAssumption
<1>14. PICK a \in Int, b \in Int : a = x - c /\ b = y - d
  BY <1>7, <1>10
<1>15. Moves(q.user, a, b)
  <2>1. x = c + a /\ y = d + b
    BY <1>7, <1>10, <1>14
  <2>2. balance'[q.user] = [current |-> x, withdrawn |-> y]
        /\ \A v \in Users \ {q.user} : balance'[v] = balance[v]
    BY <1>t, <1>2, <1>12 DEF TypeInv, TypeOK
  <2>3. QED BY <1>6, <2>1, <2>2 DEF Moves
<1>16. UNCHANGED <<Owner, Reward>>
  BY <1>12 DEF Owner, Reward, Settled
<1>17. WithdrawEvent(q.user, q.number, k, a, b)
  BY <1>6, <1>10, <1>11, <1>12, <1>13, <1>14, <1>15, <1>16 DEF WithdrawEvent
<1>18. QED
  BY <1>1, <1>5, <1>14, <1>17

\* A write of the updater to a row without outcome, in terms of the accounts.
LEMMA RowSettles ==
  ASSUME TypeInv, TypeInv', NEW m \in Numbers, orders[m] # None, ~FinalRow(orders[m]),
         NEW row, row # None, row.owner = orders[m].owner,
         orders' = [orders EXCEPT ![m] = row]
  PROVE  /\ UNCHANGED Owner
         /\ Reward[m] = None /\ Owner[m] = orders[m].owner
         /\ row.status \in Final => Reward' = [Reward EXCEPT ![m] = row.accrual]
         /\ row.status \notin Final => UNCHANGED Reward
<1>1. orders'[m] = row /\ \A n \in Numbers \ {m} : orders'[n] = orders[n]
  BY DEF TypeInv, TypeOK
<1>2. UNCHANGED Owner /\ Owner[m] = orders[m].owner
  BY <1>1 DEF Owner
<1>3. Reward[m] = None /\ \A n \in Numbers \ {m} : Reward'[n] = Reward[n]
  BY <1>1 DEF Reward, Settled, FinalRow
<1>4. DOMAIN Reward = Numbers /\ DOMAIN Reward' = Numbers
      /\ Reward = [n \in Numbers |-> Reward[n]] /\ Reward' = [n \in Numbers |-> Reward'[n]]
  BY DEF Reward
<1>5. row.status \in Final => Reward'[m] = row.accrual
  BY <1>1 DEF Reward, Settled
<1>6. row.status \notin Final => Reward'[m] = None
  BY <1>1 DEF Reward, Settled
<1>7. ASSUME row.status \in Final PROVE Reward' = [Reward EXCEPT ![m] = row.accrual]
  BY <1>3, <1>4, <1>5, <1>7
<1>8. ASSUME row.status \notin Final PROVE Reward' = Reward
  BY <1>3, <1>4, <1>6, <1>8
<1>9. QED
  BY <1>2, <1>3, <1>7, <1>8

LEMMA MarkIsNothing ==
  ASSUME TypeInv, TypeInv', PipelineInv, NEW w \in Workers, MarkProcessing(w)
  PROVE  Nothing
<1> DEFINE m   == job[w].number
           row == [orders[m] EXCEPT !.status = "PROCESSING"]
<1>1. /\ m \in Numbers /\ orders[m] # None /\ ~FinalRow(orders[m])
      /\ orders[m] \in Order
  BY DEF MarkProcessing, TypeInv, TypeOK, JobInv, PipelineInv, Busy
<1>2. row \in Order /\ row.owner = orders[m].owner /\ row.status = "PROCESSING"
  BY <1>1 DEF Order, Status
<1>3. row # None /\ row.status \notin Final
  BY <1>2, RowAssumption DEF Final
<1>4. orders' = [orders EXCEPT ![m] = row] /\ UNCHANGED <<withdrawals, balance>>
  BY DEF MarkProcessing
<1> HIDE DEF row
<1>5. UNCHANGED Owner /\ UNCHANGED Reward
  BY <1>1, <1>2, <1>3, <1>4, RowSettles
<1>6. QED
  BY <1>4, <1>5 DEF Nothing

\* UpdateOrderStatus with the final status is a settlement without points.
LEMMA SettleOrderSettles ==
  ASSUME TypeInv, TypeInv', PipelineInv, RowsInv, NEW w \in Workers, SettleOrder(w)
  PROVE  \E u \in Users, m \in Numbers : SettleEvent(u, m, 0)
<1> DEFINE m   == job[w].number
           row == [orders[m] EXCEPT !.status = job[w].status]
<1>1. /\ m \in Numbers /\ orders[m] # None /\ ~FinalRow(orders[m])
      /\ orders[m] \in Order /\ orders[m].accrual = 0 /\ job[w].status \in Final
  BY DEF SettleOrder, TypeInv, TypeOK, JobInv, PipelineInv, RowsInv, Busy, Uploaded,
    FinalRow
<1>2. /\ row \in Order /\ row.owner = orders[m].owner /\ row.accrual = 0
      /\ row.status \in Final
  BY <1>1 DEF Order, Status, Final
<1>3. orders' = [orders EXCEPT ![m] = row] /\ UNCHANGED <<withdrawals, balance>>
  BY DEF SettleOrder
<1> HIDE DEF row
<1>4. /\ UNCHANGED Owner /\ Reward[m] = None /\ Owner[m] = orders[m].owner
      /\ Reward' = [Reward EXCEPT ![m] = row.accrual]
  BY <1>1, <1>2, <1>3, RowAssumption, RowSettles
<1>5. PICK u \in Users : u = orders[m].owner
  BY <1>1 DEF Order
<1>6. Moves(u, 0, 0)
  <2>1. balance[u].current \in Int /\ balance[u].withdrawn \in Int
    BY AmountInt DEF TypeInv, TypeOK, Balance
  <2>2. QED BY <1>3, <2>1 DEF Moves
<1>7. SettleEvent(u, m, 0)
  BY <1>2, <1>3, <1>4, <1>5, <1>6 DEF SettleEvent
<1>8. QED
  BY <1>1, <1>7

\* A commit of UpdateOrderAccrual is a settlement, and the balance of the owner
\* of the order rises by what the row of the order has stored.
LEMMA CommitSettles ==
  ASSUME BalanceInv, TypeInv', PipelineInv, RowsInv, NEW w \in Workers, CommitAccrual(w)
  PROVE  \E u \in Users, m \in Numbers, k \in 0..MaxAmount : SettleEvent(u, m, k)
<1> DEFINE m   == job[w].number
           u   == job[w].user
           row == [orders[m] EXCEPT !.status = job[w].status,
                                    !.accrual = Stored(job[w].accrual)]
<1>t. TypeInv /\ job[w].pc = "credited" /\ Busy(w) /\ FreshJob(job[w])
  BY DEF BalanceInv, FreshInv, CommitAccrual, Busy
<1>1. /\ m \in Numbers /\ orders[m] # None /\ ~FinalRow(orders[m])
      /\ orders[m] \in Order /\ orders[m].owner = u /\ job[w].status \in Final
      /\ u \in Users
  BY <1>t DEF TypeInv, TypeOK, JobInv, PipelineInv, RowsInv, Busy
<1>2. PICK a : a = job[w].accrual
  OBVIOUS
<1>3. a \in Int /\ a >= 0 /\ Fits(Stored(a)) /\ Stored(a) \in Amount
  <2>1. job[w] \in Job /\ Fits(Stored(job[w].accrual))
    BY <1>t DEF TypeInv, TypeOK, JobInv
  <2>2. a \in AccrualSums \cup {0}
    BY <1>2, <2>1 DEF Job
  <2>3. QED BY <1>2, <2>1, <2>2, AccrualInt, StoredType
<1>4. PICK k : k = Stored(a)
  OBVIOUS
<1>5. /\ row \in Order /\ row.owner = u /\ row.accrual = k /\ row.status \in Final
  BY <1>1, <1>2, <1>3, <1>4 DEF Order, Status, Final
<1>6. orders' = [orders EXCEPT ![m] = row] /\ UNCHANGED withdrawals
  BY DEF CommitAccrual
<1> HIDE DEF row
<1>7. /\ UNCHANGED Owner /\ Reward[m] = None /\ Owner[m] = u
      /\ Reward' = [Reward EXCEPT ![m] = k]
  BY <1>t, <1>1, <1>5, <1>6, RowAssumption, RowSettles, ZenonT(60)
<1>8. PICK c, d : c = balance[u].current /\ d = balance[u].withdrawn
  OBVIOUS
<1>9. c \in Int /\ d \in Int /\ Whole(c) /\ c >= 0
  <2>1. c \in Amount /\ d \in Amount
    BY <1>t, <1>1, <1>8 DEF TypeInv, TypeOK, Balance
  <2>2. c >= 0
    BY <1>1, <1>8 DEF BalanceInv, NotOverdrawn
  <2>3. QED BY <2>1, <2>2, AmountInt DEF Amount
<1>10. job[w].current = c + k /\ k \in Int /\ k >= 0
  <2>1. job[w].current = Stored(c + a)
    BY <1>t, <1>2, <1>8 DEF FreshJob
  <2>2. QED BY <1>3, <1>4, <1>9, <2>1, StoredAdds
<1>11. k \in 0..MaxAmount
  BY <1>3, <1>4, <1>10, MaxAmountAssumption DEF Fits
<1>12. Moves(u, k, 0)
  <2>1. balance' = [balance EXCEPT ![u] = [balance[u] EXCEPT !.current = job[w].current]]
    BY DEF CommitAccrual
  <2>2. balance[u] \in Balance
    BY <1>t, <1>1 DEF TypeInv, TypeOK
  <2>3. /\ balance'[u].current = job[w].current /\ balance'[u].withdrawn = d
        /\ \A v \in Users \ {u} : balance'[v] = balance[v]
    BY <1>t, <1>1, <1>8, <2>1, <2>2 DEF TypeInv, TypeOK, Balance
  <2>4. d = d + 0
    BY <1>9
  <2>5. QED BY <1>8, <1>10, <2>3, <2>4 DEF Moves
<1>13. SettleEvent(u, m, k)
  BY <1>6, <1>7, <1>12 DEF SettleEvent
<1>14. QED
  BY <1>1, <1>11, <1>13

\* Every step of the service is one event of the accounts or none.
LEMMA StepIsEvent ==
  ASSUME BalanceInv, TypeInv', PipelineInv, PaidInv, RowsInv, [Next]_vars
  PROVE  Event
<1>t. TypeInv
  BY DEF BalanceInv
<1>a. CASE UNCHANGED <<orders, withdrawals, balance>>
  BY <1>a, NothingOfTables DEF Event
<1>1. ASSUME NEW r \in Withdrawers, WithdrawStep(r)
      PROVE  Event
  <2>1. CASE CommitWithdrawal(r)
    <3>1. wreq[r].user \in Users /\ wreq[r].number \in Numbers
      BY <1>t, <2>1, WithdrawWellFormed DEF CommitWithdrawal, WellFormedWithdraw
    <3>2. QED BY <2>1, <3>1, CommitWithdraws DEF Event
  <2>2. CASE ~CommitWithdrawal(r)
    <3>1. UNCHANGED <<orders, withdrawals, balance>>
      BY <1>1, <2>2 DEF WithdrawStep, RefuseWithdraw, AddWithdraw, GetBalanceTx,
        InsufficientFunds, InsertWithdrawal, UpdateBalance, WithdrawFails,
        WithdrawTimeout, AnswerWithdraw, store
    <3>2. QED BY <1>a, <3>1
  <2>3. QED BY <2>1, <2>2
<1>2. ASSUME NEW r \in Uploaders, UploadStep(r)
      PROVE  Event
  <2>1. CASE InsertOrder(r)
    <3> DEFINE m   == ureq[r].number
               u   == ureq[r].user
               row == [owner |-> u, status |-> "NEW", accrual |-> 0,
                       uploadedAt |-> Cardinality(Uploaded)]
    <3>1. m \in Numbers /\ u \in Users
      BY <1>t, <2>1, UploadWellFormed DEF InsertOrder, WellFormedUpload
    <3>2. /\ orders[m] = None /\ orders' = [orders EXCEPT ![m] = row]
          /\ UNCHANGED <<withdrawals, balance>>
      BY <2>1 DEF InsertOrder
    <3>3. /\ row.owner = u /\ row.status \notin Final
          /\ orders'[m] = row /\ \A n \in Numbers \ {m} : orders'[n] = orders[n]
      BY <1>t, <3>1, <3>2 DEF Final, TypeInv, TypeOK
    <3>4. row # None
      <4>1. Cardinality(Uploaded) \in Nat
        BY StoreAssumption, FS_Subset, FS_CardinalityType DEF Uploaded
      <4>2. row \in Order
        BY <3>1, <4>1, ZeroAmount DEF Order, Status
      <4>3. QED BY <4>2, RowAssumption
    <3> HIDE DEF row
    <3>5. Owner[m] = None /\ Owner' = [Owner EXCEPT ![m] = u]
      BY <3>1, <3>2, <3>3, <3>4 DEF Owner
    <3>6. Reward[m] = None /\ UNCHANGED Reward
      BY <3>1, <3>2, <3>3, <3>4 DEF Reward, Settled
    <3>7. UploadEvent(u, m)
      BY <3>2, <3>5, <3>6 DEF UploadEvent
    <3>8. QED BY <3>1, <3>7 DEF Event
  <2>2. CASE ~InsertOrder(r)
    <3>1. UNCHANGED <<orders, withdrawals, balance>>
      BY <1>2, <2>2 DEF UploadStep, RefuseUpload, AddOrder, InsertConflict,
        GetOrderByNumber, UploadFails, UploadTimeout, AnswerUpload, store
    <3>2. QED BY <1>a, <3>1
  <2>3. QED BY <2>1, <2>2
<1>3. ASSUME NEW w \in Workers, AccrualStep(w)
      PROVE  Event
  <2>1. CASE MarkProcessing(w)
    BY <1>t, <2>1, MarkIsNothing DEF Event
  <2>2. CASE SettleOrder(w)
    <3>1. 0 \in 0..MaxAmount
      BY MaxAmountAssumption
    <3>2. QED BY <1>t, <2>2, <3>1, SettleOrderSettles DEF Event
  <2>3. CASE CommitAccrual(w)
    BY <2>3, CommitSettles DEF Event
  <2>4. CASE Receive(w) \/ FinalAnswer(w) \/ UpdateOrder(w) \/ Credit(w) \/ GiveUp(w)
    BY <1>a, <2>4 DEF Receive, FinalAnswer, UpdateOrder, Credit, GiveUp, store
  <2>5. QED BY <1>3, <2>1, <2>2, <2>3, <2>4 DEF AccrualStep
<1>4. CASE Poll \/ Crash \/ UNCHANGED vars
  BY <1>4, <1>a DEF Poll, Crash, vars, store
<1>5. QED
  BY <1>1, <1>2, <1>3, <1>4 DEF Next, Running

LEMMA AgreesStep ==
  ASSUME BalanceInv, TypeInv', PipelineInv, PaidInv, RowsInv, BalanceAgrees,
         [Next]_vars
  PROVE  BalanceAgrees'
<1>1. TypeInv
  BY DEF BalanceInv
<1>2. QED
  BY <1>1, StepIsEvent, EventAgrees

LEMMA AgreesInit ==
  ASSUME Init
  PROVE  BalanceAgrees
<1>1. ASSUME NEW u \in Users
      PROVE  /\ Accounts!Earned(u) = 0 /\ Accounts!Spent(u) = 0 /\ Accounts!Drift(u) = 0
  <2>1. RewardsOf(u) = {} /\ SpentBy(u) = {}
    BY DEF Init, StoreInit, RewardsOf, SpentBy, Reward, Settled
  <2>2. \A f : Under(f, {}) = {}
    BY DEF Under
  <2>3. \A f : Accounts!Total(f, {}) = 0
    BY <2>2, TotalIs, FS_EmptySet
  <2>4. Slack * Cardinality({}) = 0
    BY SlackType, FS_EmptySet
  <2>5. QED BY <2>1, <2>3, <2>4, EarnedIs, TakenIs, SpentIs, DriftIs
<1>2. \A u \in Users : balance[u].current = 0 /\ balance[u].withdrawn = 0
  BY DEF Init, StoreInit
<1>3. 0 - 0 = 0 /\ 0 + 0 = 0 /\ 0 \in -0..0
  OBVIOUS
<1>4. QED
  BY <1>1, <1>2, <1>3, Zenon DEF BalanceAgrees, Near

\* Whatever requests, jobs, failures and crashes do, the current balance is the
\* accrual of the orders of the user less the withdrawals, and withdrawn is
\* their sum: exactly, when clients ask for whole kopecks, and to a kopeck for
\* each withdrawal of the user otherwise.  A sum may be negative.
THEOREM BalancesAgree == Spec => []BalanceAgrees
<1>1. BalanceInv /\ TypeInv' /\ PipelineInv /\ PaidInv /\ RowsInv /\ BalanceAgrees
        /\ [Next]_vars => BalanceAgrees'
  BY AgreesStep
<1>2. Init => BalanceAgrees
  BY AgreesInit
<1>3. QED
  BY <1>1, <1>2, TypeInvariant, BalanceInvariant, PipelineInvariant, PaidInvariant,
    RowsInvariant, PTL DEF Spec

\* What a user has ever earned and taken never shrinks.
LEMMA SumsGrow ==
  ASSUME TypeInv, Event, NEW u \in Users
  PROVE  /\ Accounts!Earned(u) <= Accounts!Earned(u)'
         /\ Accounts!Taken(u) <= Accounts!Taken(u)'
         /\ Accounts!Drift(u) <= Accounts!Drift(u)'
<1>t. PICK e \in Int, t \in Int, f \in Int :
        e = Accounts!Earned(u) /\ t = Accounts!Taken(u) /\ f = Accounts!Drift(u)
  BY EarnedType
<1>1. CASE Nothing \/ \E v \in Users, m \in Numbers : UploadEvent(v, m)
  <2>1. UNCHANGED <<Reward, withdrawals>> /\ RewardsOf(u)' = RewardsOf(u)
    BY <1>1 DEF Nothing, UploadEvent, RewardsOf, Owner
  <2>2. QED BY <1>t, <2>1, EarnedKept, SpentKept
<1>2. ASSUME NEW v \in Users, NEW m \in Numbers, NEW k \in 0..MaxAmount,
             SettleEvent(v, m, k)
      PROVE  /\ e <= Accounts!Earned(u)'
             /\ Accounts!Taken(u)' = t /\ Accounts!Drift(u)' = f
  <2>1. /\ Accounts!Earned(v)' = Accounts!Earned(v) + k
        /\ \A x \in Users \ {v} : Accounts!Earned(x)' = Accounts!Earned(x)
    BY <1>2, EarnedByReward DEF SettleEvent
  <2>2. k \in Nat
    BY MaxAmountAssumption
  <2>3. QED BY <1>2, <1>t, <2>1, <2>2, SpentKept DEF SettleEvent
<1>3. ASSUME NEW v \in Users, NEW m \in Numbers, NEW k \in Sum, NEW a \in Int,
             NEW b \in Int, WithdrawEvent(v, m, k, a, b)
      PROVE  /\ Accounts!Earned(u)' = e
             /\ t <= Accounts!Taken(u)' /\ f <= Accounts!Drift(u)'
  <2>1. /\ withdrawals \in [Numbers -> Withdrawal \cup {None}]
        /\ withdrawals[m] = None /\ [user |-> v, sum |-> k] # None
        /\ withdrawals' = [withdrawals EXCEPT ![m] = [user |-> v, sum |-> k]]
    BY <1>3 DEF TypeInv, TypeOK, WithdrawEvent
  <2>2. Accounts!Earned(u)' = Accounts!Earned(u)
    BY <1>3, EarnedKept DEF WithdrawEvent, RewardsOf
  <2>3. PICK p \in Nat, z \in Nat : p = Plus(k) /\ z = Slack
    BY MaxAmountAssumption, SlackType DEF Sum, Plus
  <2>4. t <= t + p /\ f <= f + z /\ t <= t /\ f <= f
    BY <2>3
  <2>5. CASE u = v
    <3>1. Accounts!Taken(u)' = t + p /\ Accounts!Drift(u)' = f + z
      BY <1>t, <2>1, <2>3, <2>5, SpentByWithdrawal
    <3>2. QED BY <1>t, <2>2, <2>4, <3>1
  <2>6. CASE u # v
    <3>1. Accounts!Taken(u)' = t /\ Accounts!Drift(u)' = f
      BY <1>t, <2>1, <2>6, OthersSpentKept
    <3>2. QED BY <1>t, <2>2, <2>4, <3>1
  <2>7. QED BY <2>5, <2>6
<1>4. QED
  BY <1>t, <1>1, <1>2, <1>3 DEF Event
-----------------------------------------------------------------------------
\* An event, read through the refinement mapping, is a step of the accounts.
LEMMA EventRefines ==
  ASSUME TypeInv, BalanceAgrees, Event
  PROVE  [Accounts!Next]_(Accounts!vars)
<1>1. CASE Nothing
  BY <1>1 DEF Nothing, Accounts!vars, Owner, Reward
<1>2. ASSUME NEW u \in Users, NEW m \in Numbers, UploadEvent(u, m)
      PROVE  Accounts!Next
  <2>1. Accounts!Upload(u, m)
    BY <1>2 DEF UploadEvent, Accounts!Upload, Owner, Reward
  <2>2. QED BY <2>1 DEF Accounts!Next
<1>3. ASSUME NEW u \in Users, NEW m \in Numbers, NEW k \in 0..MaxAmount,
             SettleEvent(u, m, k)
      PROVE  Accounts!Next
  <2>1. u # None
    BY StoreAssumption
  <2>2. Accounts!Settle(m, k)
    BY <1>3, <2>1 DEF SettleEvent, Accounts!Settle, Owner, Reward
  <2>3. QED BY <2>2 DEF Accounts!Next
<1>4. ASSUME NEW u \in Users, NEW m \in Numbers, NEW k \in Sum, NEW c \in Int,
             NEW d \in Int, WithdrawEvent(u, m, k, c, d)
      PROVE  Accounts!Next
  <2>1. PICK i \in Int : i = k
    BY MaxAmountAssumption DEF Sum
  <2>2. CASE i >= 0
    <3>1. k <= Accounts!Earned(u) - Accounts!Spent(u) + Accounts!Drift(u)
      <4>1. Agrees(u)
        BY AgreesIs
      <4>2. PICK x \in Int, e \in Int, s \in Int, f \in Int :
              /\ x = balance[u].current /\ e = Accounts!Earned(u)
              /\ s = Accounts!Spent(u) /\ f = Accounts!Drift(u)
        BY BalanceInt, EarnedType
      <4>3. i <= x /\ x - (e - s) <= f
        BY <1>4, <2>1, <4>1, <4>2 DEF WithdrawEvent, Agrees, Close
      <4>4. i <= e - s + f
        BY <4>3
      <4>5. QED BY <2>1, <4>2, <4>4
    <3>2. Accounts!Withdraw(u, m, k)
      BY <1>4, <3>1 DEF WithdrawEvent, Accounts!Withdraw, Owner, Reward
    <3>3. k \in 0..MaxAmount
      BY <2>1, <2>2, MaxAmountAssumption DEF Sum
    <3>4. QED BY <3>2, <3>3 DEF Accounts!Next
  <2>3. CASE i < 0
    <3>1. PICK j \in 1..MaxAmount : k = -j
      <4>1. -i \in 1..MaxAmount /\ i = -(-i)
        BY <2>1, <2>3, MaxAmountAssumption DEF Sum
      <4>2. QED BY <2>1, <4>1
    <3>2. Accounts!TopUp(u, m, j)
      BY <1>4, <3>1 DEF WithdrawEvent, Accounts!TopUp, Owner, Reward
    <3>3. QED BY <3>2 DEF Accounts!Next
  <2>4. QED BY <2>2, <2>3
<1>5. QED
  BY <1>1, <1>2, <1>3, <1>4 DEF Event

\* The service implements the accounts: a number has one owner and one reward,
\* an order number pays for one withdrawal, and no withdrawal takes more than
\* the user has earned and not spent, whatever is in flight when it commits; what
\* withdrawals are rounded by and those of a negative sum are counted.
THEOREM ServiceKeepsAccounts == Spec => AccountsSpec
<1>1. Init => Accounts!Init
  BY DEF Init, StoreInit, Accounts!Init, Settled
<1>2. BalanceInv /\ TypeInv' /\ PipelineInv /\ PaidInv /\ RowsInv /\ BalanceAgrees
        /\ [Next]_vars => [Accounts!Next]_(Accounts!vars)
  <2> SUFFICES ASSUME BalanceInv, TypeInv', PipelineInv, PaidInv, RowsInv, BalanceAgrees,
                      [Next]_vars
               PROVE  [Accounts!Next]_(Accounts!vars)
    OBVIOUS
  <2>1. TypeInv /\ Event
    BY StepIsEvent DEF BalanceInv
  <2>2. QED BY <2>1, EventRefines
<1>3. QED
  BY <1>1, <1>2, BalancesAgree, TypeInvariant, BalanceInvariant, PipelineInvariant,
    PaidInvariant, RowsInvariant, PTL DEF Spec, AccountsSpec, Accounts!Spec
=============================================================================
