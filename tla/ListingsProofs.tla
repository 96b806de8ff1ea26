--------------------------- MODULE ListingsProofs ---------------------------
(***************************************************************************)
(* What the answers to one user have to do with each other, for every value *)
(* of the constants.  A user is never shown less than before: what has been *)
(* listed is still so in the tables, and the tables only move on            *)
(* (OrdersProofs).  And listings and balance account for each other,        *)
(* because the balance agrees with the rows (AccountsProofs).               *)
(***************************************************************************)
EXTENDS Listings, AccountsProofs

\* A listed order and what its row has become.
MovedOn(old, new) == /\ old.status \in Status
                     /\ Stage(old.status) <= Stage(new.status)
                     /\ old.status \in Final => new = old

ShownOrder(n, old) == /\ n \in Numbers /\ orders[n] # None
                      /\ MovedOn(old, orders[n])

ShownInv ==
  \A u \in Users :
    /\ \A n \in DOMAIN shown[u].orders :
         n \in OrdersOf(u) /\ ShownOrder(n, shown[u].orders[n])
    /\ \A n \in DOMAIN shown[u].withdrawals :
         n \in WithdrawalsOf(u) /\ shown[u].withdrawals[n] = withdrawals[n].sum

\* The listings that shown holds for each user.
ShownTypes ==
  /\ DOMAIN shown = Users /\ shown = [u \in Users |-> shown[u]]
  /\ \A u \in Users : shown[u] = [orders |-> shown[u].orders,
                                 withdrawals |-> shown[u].withdrawals,
                                 balance |-> shown[u].balance]

LEMMA MovedOnTransitive ==
  ASSUME NEW a, NEW b \in Order, NEW c \in Order, MovedOn(a, b), Goes(b, c)
  PROVE  MovedOn(a, c)
<1>1. b.status \in Status /\ c.status \in Status /\ a.status \in Status
  BY DEF Order, MovedOn
<1>2. Stage(b.status) <= Stage(c.status)
  BY <1>1 DEF Goes, Stage, Status, Final
<1>3. Stage(a.status) <= Stage(b.status)
  BY DEF MovedOn
<1>4. \A s \in Status : Stage(s) \in Int
  BY DEF Stage, Status
<1>5. Stage(a.status) <= Stage(c.status)
  BY <1>1, <1>2, <1>3, <1>4
<1>6. a.status \in Final => c = a
  BY DEF MovedOn, Goes
<1>7. QED
  BY <1>1, <1>5, <1>6 DEF MovedOn

\* The rows of the tables after a step.
TablesMoveOn ==
  /\ \A n \in Uploaded : Goes(orders[n], orders'[n])
  /\ \A n \in Numbers : withdrawals[n] # None => withdrawals'[n] = withdrawals[n]

LEMMA StepKeepsShown ==
  ASSUME TypeInv, TypeInv', ShownInv, TablesMoveOn, shown' = shown
  PROVE  ShownInv'
<1>1. ASSUME NEW u \in Users, NEW n \in DOMAIN shown[u].orders
      PROVE  /\ n \in OrdersOf(u)'
             /\ ShownOrder(n, shown[u].orders[n])'
  <2>1. /\ n \in Numbers /\ orders[n] # None /\ orders[n].owner = u
        /\ MovedOn(shown[u].orders[n], orders[n])
    BY DEF ShownInv, ShownOrder, OrdersOf
  <2>2. Goes(orders[n], orders'[n])
    BY <2>1 DEF TablesMoveOn, Uploaded
  <2>3. orders'[n] # None /\ orders'[n].owner = u
    BY <2>1, <2>2 DEF Goes
  <2>4. orders[n] \in Order /\ orders'[n] \in Order
    BY <2>1, <2>3 DEF TypeInv, TypeOK
  <2>5. MovedOn(shown[u].orders[n], orders'[n])
    BY <2>1, <2>2, <2>4, MovedOnTransitive
  <2>6. QED BY <2>1, <2>3, <2>5 DEF ShownOrder, OrdersOf, Uploaded
<1>2. ASSUME NEW u \in Users, NEW n \in DOMAIN shown[u].withdrawals
      PROVE  /\ n \in WithdrawalsOf(u)'
             /\ shown[u].withdrawals[n] = withdrawals'[n].sum
  BY DEF ShownInv, WithdrawalsOf, TablesMoveOn
<1>3. QED
  BY <1>1, <1>2 DEF ShownInv

\* A user asks for one of the listings.
Asks(u) == GetOrders(u) \/ GetWithdrawals(u) \/ GetBalance(u)

\* What a listing shows a user, and that the others are shown nothing new.
LEMMA ListingShows ==
  ASSUME ShownTypes, NEW u \in Users, Asks(u)
  PROVE  /\ ShownTypes'
         /\ \A v \in Users \ {u} : shown'[v] = shown[v]
         /\ \/ shown'[u].orders = shown[u].orders
            \/ shown'[u].orders = [n \in OrdersOf(u) |-> orders[n]]
         /\ \/ shown'[u].withdrawals = shown[u].withdrawals
            \/ shown'[u].withdrawals = [n \in WithdrawalsOf(u) |-> withdrawals[n].sum]
<1>1. CASE GetOrders(u)
  BY <1>1 DEF GetOrders, ShownTypes
<1>2. CASE GetWithdrawals(u)
  BY <1>2 DEF GetWithdrawals, ShownTypes
<1>3. CASE GetBalance(u)
  BY <1>3 DEF GetBalance, ShownTypes
<1>4. QED
  BY <1>1, <1>2, <1>3 DEF Asks

\* A listing shows what is in the tables.
LEMMA AskKeepsShown ==
  ASSUME TypeInv, ShownInv, ShownTypes, NEW u \in Users, Asks(u), UNCHANGED vars
  PROVE  ShownInv'
<1>1. UNCHANGED <<orders, withdrawals>>
  BY DEF vars, store
<1>2. \A n \in Numbers : orders[n] # None => MovedOn(orders[n], orders[n])
  <2>1. \A n \in Numbers : orders[n] # None => orders[n].status \in Status
    BY DEF TypeInv, TypeOK, Order
  <2>2. \A s \in Status : Stage(s) <= Stage(s)
    BY DEF Stage, Status
  <2>3. QED BY <2>1, <2>2 DEF MovedOn
<1>3. ASSUME NEW v \in Users, NEW n \in DOMAIN shown'[v].orders
      PROVE  n \in OrdersOf(v) /\ ShownOrder(n, shown'[v].orders[n])
  <2>1. CASE shown'[v].orders = shown[v].orders
    BY <1>3, <2>1 DEF ShownInv
  <2>2. CASE shown'[v].orders = [m \in OrdersOf(v) |-> orders[m]]
    BY <1>2, <1>3, <2>2 DEF ShownOrder, OrdersOf, Uploaded
  <2>3. QED BY <2>1, <2>2, ListingShows
<1>4. ASSUME NEW v \in Users, NEW n \in DOMAIN shown'[v].withdrawals
      PROVE  /\ n \in WithdrawalsOf(v)
             /\ shown'[v].withdrawals[n] = withdrawals[n].sum
  <2>1. CASE shown'[v].withdrawals = shown[v].withdrawals
    BY <1>4, <2>1 DEF ShownInv
  <2>2. CASE shown'[v].withdrawals = [m \in WithdrawalsOf(v) |-> withdrawals[m].sum]
    BY <1>4, <2>2
  <2>3. QED BY <2>1, <2>2, ListingShows
<1>5. /\ \A v \in Users : OrdersOf(v)' = OrdersOf(v) /\ WithdrawalsOf(v)' = WithdrawalsOf(v)
      /\ \A n, old : ShownOrder(n, old)' = ShownOrder(n, old)
  BY <1>1 DEF OrdersOf, WithdrawalsOf, Uploaded, ShownOrder
<1>6. QED
  BY <1>1, <1>3, <1>4, <1>5 DEF ShownInv, ShownOrder

\* What ShownIsNotTakenBack says of one user.
NotTakenBack(old, new) ==
  /\ \A n \in DOMAIN old.orders :
       /\ n \in DOMAIN new.orders
       /\ Stage(old.orders[n].status) <= Stage(new.orders[n].status)
       /\ old.orders[n].status \in Final => new.orders[n] = old.orders[n]
  /\ \A n \in DOMAIN old.withdrawals :
       /\ n \in DOMAIN new.withdrawals
       /\ new.withdrawals[n] = old.withdrawals[n]

LEMMA SameIsNotTakenBack ==
  ASSUME ShownInv, NEW u \in Users, shown'[u].orders = shown[u].orders
  PROVE  \A n \in DOMAIN shown[u].orders :
           /\ n \in DOMAIN shown'[u].orders
           /\ Stage(shown[u].orders[n].status) <= Stage(shown'[u].orders[n].status)
           /\ shown[u].orders[n].status \in Final
                => shown'[u].orders[n] = shown[u].orders[n]
<1>1. \A n \in DOMAIN shown[u].orders : shown[u].orders[n].status \in Status
  BY DEF ShownInv, ShownOrder, MovedOn
<1>2. \A s \in Status : Stage(s) <= Stage(s)
  BY DEF Stage, Status
<1>3. QED BY <1>1, <1>2

LEMMA AskTakesNothingBack ==
  ASSUME ShownInv, ShownTypes, NEW u \in Users, Asks(u), NEW v \in Users
  PROVE  NotTakenBack(shown[v], shown'[v])
<1>1. /\ \/ shown'[v].orders = shown[v].orders
         \/ shown'[v].orders = [n \in OrdersOf(v) |-> orders[n]]
      /\ \/ shown'[v].withdrawals = shown[v].withdrawals
         \/ shown'[v].withdrawals = [n \in WithdrawalsOf(v) |-> withdrawals[n].sum]
  BY ListingShows
<1>2. ASSUME NEW n \in DOMAIN shown[v].orders
      PROVE  /\ n \in DOMAIN shown'[v].orders
             /\ Stage(shown[v].orders[n].status) <= Stage(shown'[v].orders[n].status)
             /\ shown[v].orders[n].status \in Final
                  => shown'[v].orders[n] = shown[v].orders[n]
  <2>1. CASE shown'[v].orders = shown[v].orders
    BY <2>1, SameIsNotTakenBack
  <2>2. CASE shown'[v].orders = [m \in OrdersOf(v) |-> orders[m]]
    BY <2>2 DEF ShownInv, ShownOrder, MovedOn
  <2>3. QED BY <1>1, <2>1, <2>2
<1>3. ASSUME NEW n \in DOMAIN shown[v].withdrawals
      PROVE  /\ n \in DOMAIN shown'[v].withdrawals
             /\ shown'[v].withdrawals[n] = shown[v].withdrawals[n]
  BY <1>1 DEF ShownInv
<1>4. QED
  BY <1>2, <1>3 DEF NotTakenBack

LEMMA ShownStep ==
  TypeInv /\ TypeInv' /\ PipelineInv /\ PaidInv /\ ShownTypes /\ ShownInv
    /\ [ListingsNext]_listingVars
    => /\ ShownTypes' /\ ShownInv'
       /\ \A u \in Users : NotTakenBack(shown[u], shown'[u])
<1> SUFFICES ASSUME TypeInv, TypeInv', PipelineInv, PaidInv, ShownTypes, ShownInv,
                    [ListingsNext]_listingVars
             PROVE  /\ ShownTypes' /\ ShownInv'
                    /\ \A u \in Users : NotTakenBack(shown[u], shown'[u])
  OBVIOUS
<1>1. CASE [Next]_vars /\ shown' = shown
  <2>1. TablesMoveOn
    BY <1>1, OrdersMoveOn, WithdrawalsKept DEF TablesMoveOn
  <2>2. ShownTypes'
    BY <1>1 DEF ShownTypes
  <2>3. \A u \in Users : NotTakenBack(shown[u], shown'[u])
    BY <1>1, SameIsNotTakenBack DEF NotTakenBack
  <2>4. QED BY <1>1, <2>1, <2>2, <2>3, StepKeepsShown
<1>2. ASSUME NEW u \in Users, Asks(u)
      PROVE  /\ ShownTypes' /\ ShownInv'
             /\ \A v \in Users : NotTakenBack(shown[v], shown'[v])
  <2>1. UNCHANGED vars
    BY <1>2 DEF Asks, GetOrders, GetWithdrawals, GetBalance
  <2>2. QED BY <1>2, <2>1, ListingShows, AskKeepsShown, AskTakesNothingBack
<1>3. QED
  BY <1>1, <1>2 DEF ListingsNext, listingVars, Asks

\* What a user has been shown is never taken back by a later listing: for any
\* number of users, requests and workers, an order stays in the listing, its
\* status moves on only, and an outcome and a withdrawal stay as they were.
THEOREM NothingIsTakenBack == ListingsSpec => ShownIsNotTakenBack
<1>1. Init /\ ListingsInit => ShownTypes /\ ShownInv
  BY DEF ListingsInit, ShownTypes, ShownInv
<1>2. [ListingsNext]_listingVars => [Next]_vars
  BY DEF ListingsNext, listingVars, GetOrders, GetWithdrawals, GetBalance
<1>3. ListingsSpec => Spec
  BY <1>2, PTL DEF ListingsSpec, Spec
<1>4. ListingsSpec => []TypeInv /\ []PipelineInv /\ []PaidInv
  BY <1>3, TypeInvariant, PipelineInvariant, PaidInvariant, PTL
<1>5. ListingsSpec => [](ShownTypes /\ ShownInv)
  BY <1>1, <1>4, ShownStep, PTL DEF ListingsSpec
<1>6. TypeInv /\ TypeInv' /\ PipelineInv /\ PaidInv /\ ShownTypes /\ ShownInv
        /\ [ListingsNext]_listingVars =>
      [\A u \in Users :
         /\ \A n \in DOMAIN shown[u].orders :
              LET old == shown[u].orders[n]
                  new == shown'[u].orders[n]
              IN  /\ n \in DOMAIN shown'[u].orders
                  /\ Stage(old.status) <= Stage(new.status)
                  /\ old.status \in Final => new = old
         /\ \A n \in DOMAIN shown[u].withdrawals :
              /\ n \in DOMAIN shown'[u].withdrawals
              /\ shown'[u].withdrawals[n] = shown[u].withdrawals[n]]_listingVars
  BY ShownStep DEF NotTakenBack
<1>7. QED
  BY <1>4, <1>5, <1>6, PTL DEF ListingsSpec, ShownIsNotTakenBack
-----------------------------------------------------------------------------
\* A balance that the accounts of u explain.
Explained(b, u) ==
  /\ b.current + b.withdrawn <= Accounts!Earned(u) + Accounts!Drift(u)
  /\ b.withdrawn <= Accounts!Taken(u) + Accounts!Drift(u)

\* What a user was shown in terms of the rows and the accounts of now.
SumsInv ==
  \A u \in Users :
    /\ \A n \in DOMAIN shown[u].orders :
         shown[u].orders[n].status \notin Final => shown[u].orders[n].accrual = 0
    /\ shown[u].balance \in Balance /\ Explained(shown[u].balance, u)

LEMMA BalanceInts ==
  ASSUME NEW b \in Balance
  PROVE  b.current \in Int /\ b.withdrawn \in Int
BY AmountInt DEF Balance

\* What BalanceAgrees says of a user, for the two listings.
LEMMA AgreeingBalance ==
  ASSUME TypeInv, BalanceAgrees, NEW u \in Users
  PROVE  /\ Explained(balance[u], u)
         /\ Accounts!Earned(u)
              <= balance[u].current + balance[u].withdrawn + Accounts!Drift(u)
         /\ Accounts!Taken(u)
              <= balance[u].withdrawn + Accounts!Given(u) + Accounts!Drift(u)
<1>1. PICK c \in Int, d \in Int : c = balance[u].current /\ d = balance[u].withdrawn
  BY BalanceInt
<1>2. PICK e \in Nat, f \in Nat : e = Accounts!Earned(u) /\ f = Accounts!Drift(u)
  BY EarnedType
<1>3. PICK t \in Nat, g \in Nat : t = Accounts!Taken(u) /\ g = Accounts!Given(u)
  BY EarnedType
<1>4. Agrees(u)
  BY AgreesIs
<1>5. Close(d, t - g, f) /\ Close(c + d, e, f)
  BY <1>1, <1>2, <1>3, <1>4, SpentIs DEF Agrees
<1>6. c + d <= e + f /\ d <= t + f /\ e <= c + d + f /\ t <= d + g + f
  BY <1>5 DEF Close
<1>7. QED
  BY <1>1, <1>2, <1>3, <1>6 DEF Explained

LEMMA AskKeepsSums ==
  ASSUME TypeInv, RowsInv, BalanceAgrees, ShownTypes, SumsInv, NEW u \in Users, Asks(u),
         UNCHANGED vars
  PROVE  SumsInv'
<1>1. UNCHANGED <<Reward, withdrawals>> /\ \A v \in Users : RewardsOf(v)' = RewardsOf(v)
  <2>1. UNCHANGED <<orders, withdrawals>>
    BY DEF vars, store
  <2>2. UNCHANGED <<Owner, Reward>>
    BY <2>1 DEF Owner, Reward, Settled
  <2>3. QED BY <2>1, <2>2 DEF RewardsOf
<1>2. /\ \A v \in Users \ {u} : shown'[v] = shown[v]
      /\ \/ shown'[u].orders = shown[u].orders
         \/ shown'[u].orders = [n \in OrdersOf(u) |-> orders[n]]
  BY ListingShows
<1>3. shown'[u].balance = shown[u].balance \/ shown'[u].balance = balance[u]
  <2>1. CASE GetOrders(u)
    BY <2>1 DEF GetOrders, ShownTypes
  <2>2. CASE GetWithdrawals(u)
    BY <2>2 DEF GetWithdrawals, ShownTypes
  <2>3. CASE GetBalance(u)
    BY <2>3 DEF GetBalance, ShownTypes
  <2>4. QED BY <2>1, <2>2, <2>3 DEF Asks
<1>4. \A n \in OrdersOf(u) : orders[n].status \notin Final => orders[n].accrual = 0
  BY DEF RowsInv, OrdersOf
<1>5. balance[u] \in Balance /\ Explained(balance[u], u)
  BY AgreeingBalance DEF TypeInv, TypeOK
<1>6. /\ \A n \in DOMAIN shown'[u].orders :
           shown'[u].orders[n].status \notin Final => shown'[u].orders[n].accrual = 0
      /\ shown'[u].balance \in Balance /\ Explained(shown'[u].balance, u)
  BY <1>2, <1>3, <1>4, <1>5 DEF SumsInv
<1>7. ASSUME NEW v \in Users
      PROVE  /\ Accounts!Earned(v)' = Accounts!Earned(v)
             /\ Accounts!Taken(v)' = Accounts!Taken(v)
             /\ Accounts!Drift(v)' = Accounts!Drift(v)
  BY <1>1, EarnedKept, SpentKept
<1>8. \A b : \A v \in Users : Explained(b, v)
               => /\ b.current + b.withdrawn <= Accounts!Earned(v)' + Accounts!Drift(v)'
                  /\ b.withdrawn <= Accounts!Taken(v)' + Accounts!Drift(v)'
  BY <1>7 DEF Explained
<1>9. QED
  BY <1>2, <1>6, <1>8 DEF SumsInv, Explained

LEMMA EventKeepsSums ==
  ASSUME TypeInv, SumsInv, Event, shown' = shown
  PROVE  SumsInv'
<1>1. ASSUME NEW u \in Users, NEW b \in Balance, Explained(b, u)
      PROVE  /\ b.current + b.withdrawn <= Accounts!Earned(u)' + Accounts!Drift(u)'
             /\ b.withdrawn <= Accounts!Taken(u)' + Accounts!Drift(u)'
  <2>1. PICK c \in Int, d \in Int : c = b.current /\ d = b.withdrawn
    BY BalanceInts
  <2>2. PICK e \in Int, t \in Int, f \in Int :
          e = Accounts!Earned(u) /\ t = Accounts!Taken(u) /\ f = Accounts!Drift(u)
    BY EarnedType
  <2>3. /\ Accounts!Earned(u)' \in Int /\ Accounts!Taken(u)' \in Int
        /\ Accounts!Drift(u)' \in Int
    BY SumsType
  <2>4. PICK x \in Int, y \in Int, z \in Int :
          x = Accounts!Earned(u)' /\ y = Accounts!Taken(u)' /\ z = Accounts!Drift(u)'
    BY <2>3
  <2>5. e <= x /\ t <= y /\ f <= z
    BY <2>2, <2>4, SumsGrow
  <2>6. c + d <= e + f /\ d <= t + f
    BY <1>1, <2>1, <2>2 DEF Explained
  <2>7. c + d <= x + z /\ d <= y + z
    BY <2>5, <2>6
  <2>8. QED BY <2>1, <2>4, <2>7
<1>2. QED
  BY <1>1 DEF SumsInv, Explained

LEMMA SumsStep ==
  ASSUME BalanceInv, TypeInv', PipelineInv, PaidInv, RowsInv, BalanceAgrees, ShownTypes,
         SumsInv, [ListingsNext]_listingVars
  PROVE  SumsInv'
<1>1. TypeInv
  BY DEF BalanceInv
<1>2. CASE [Next]_vars /\ shown' = shown
  BY <1>1, <1>2, StepIsEvent, EventKeepsSums
<1>3. ASSUME NEW u \in Users, Asks(u)
      PROVE  SumsInv'
  <2>1. UNCHANGED vars
    BY <1>3 DEF Asks, GetOrders, GetWithdrawals, GetBalance
  <2>2. QED BY <1>1, <1>3, <2>1, AskKeepsSums
<1>4. QED
  BY <1>2, <1>3 DEF ListingsNext, listingVars, Asks

\* The orders a user has been shown have earned no more than all of the user's
\* orders have by now, and those no more than a listing of now.
LEMMA ShownIsEarned ==
  ASSUME TypeInv, ShownInv, SumsInv, NEW u \in Users
  PROVE  Accrued(shown[u].orders) <= Accounts!Earned(u)
<1> DEFINE f == [n \in DOMAIN shown[u].orders |-> shown[u].orders[n].accrual]
           S == DOMAIN shown[u].orders
<1>1. ASSUME NEW n \in S, shown[u].orders[n].status \in Final
      PROVE  n \in RewardsOf(u) /\ Reward[n] = f[n]
  <2>1. /\ n \in Numbers /\ orders[n] # None /\ orders[n].owner = u
        /\ orders[n] = shown[u].orders[n]
    BY <1>1 DEF ShownInv, ShownOrder, MovedOn, OrdersOf
  <2>2. Reward[n] = orders[n].accrual /\ orders[n] \in Order
    BY <1>1, <2>1 DEF Reward, Settled, TypeInv, TypeOK
  <2>3. Reward[n] # None
    BY <2>2, AmountInt, RowAssumption DEF Order
  <2>4. QED BY <2>1, <2>2, <2>3 DEF RewardsOf, Owner
<1>2. ASSUME NEW n \in S, shown[u].orders[n].status \notin Final
      PROVE  f[n] = 0
  BY <1>2 DEF SumsInv
<1>3. Under(f, S) \subseteq Under(Reward, RewardsOf(u))
  <2> SUFFICES ASSUME NEW p \in Under(f, S) PROVE p \in Under(Reward, RewardsOf(u))
    OBVIOUS
  <2>1. p \in S \X (1..MaxAmount) /\ p[2] <= f[p[1]]
    BY DEF Under
  <2>2. PICK n \in S, i \in 1..MaxAmount : p = <<n, i>> /\ i <= f[n]
    BY <2>1
  <2>3. f[n] # 0
    BY <2>2, MaxAmountAssumption
  <2> HIDE DEF f, S
  <2>4. n \in RewardsOf(u) /\ Reward[n] = f[n]
    BY <1>1, <1>2, <2>3
  <2>5. QED BY <2>2, <2>4 DEF Under
<1>4. Cardinality(Under(f, S)) <= Cardinality(Under(Reward, RewardsOf(u)))
  BY <1>3, EarnedType, UnderFinite, FS_Subset
<1>5. QED
  BY <1>4, TotalIs, EarnedIs DEF Accrued

LEMMA EarnedIsListed ==
  ASSUME TypeInv, NEW u \in Users
  PROVE  Accounts!Earned(u) <= Accrued([n \in OrdersOf(u) |-> orders[n]])
<1> DEFINE l == [n \in OrdersOf(u) |-> orders[n]]
           f == [n \in DOMAIN l |-> l[n].accrual]
<1>1. OrdersOf(u) \in SUBSET Numbers
  BY DEF OrdersOf, Uploaded
<1>2. DOMAIN l = OrdersOf(u) /\ IsFiniteSet(OrdersOf(u))
  BY <1>1, StoreAssumption, FS_Subset
<1>3. RewardsOf(u) \subseteq OrdersOf(u) /\ \A n \in RewardsOf(u) : Reward[n] = f[n]
  BY StoreAssumption DEF RewardsOf, Reward, Owner, OrdersOf, Uploaded, Settled
<1>4. Accounts!Total(Reward, RewardsOf(u)) <= Accounts!Total(f, OrdersOf(u))
  <2> HIDE DEF f
  <2>1. QED BY <1>2, <1>3, TotalGrows
<1>5. QED
  BY <1>2, <1>4, EarnedIs DEF Accrued

\* The same for withdrawals: those a user has been shown have taken no more
\* than all of the user's withdrawals, and a listing of now sums up to what
\* they have taken less what those of a negative sum have given.
LEMMA ShownIsSpent ==
  ASSUME ShownInv, NEW u \in Users
  PROVE  /\ Withdrawn(shown[u].withdrawals) <= Accounts!Taken(u)
         /\ Withdrawn([n \in WithdrawalsOf(u) |-> withdrawals[n].sum])
              = Accounts!Taken(u) - Accounts!Given(u)
<1>1. WithdrawalsOf(u) = SpentBy(u)
  BY DEF WithdrawalsOf, SpentBy
<1>2. IsFiniteSet(SpentBy(u))
  BY EarnedType
<1>3. PICK s, D : s = shown[u].withdrawals /\ D = DOMAIN s
  OBVIOUS
<1>4. D \subseteq SpentBy(u) /\ \A n \in D : s[n] = SumsOf(u)[n]
  BY <1>1, <1>3 DEF ShownInv, SumsOf
<1>5. Accounts!Total(s, D) <= Accounts!Total(SumsOf(u), SpentBy(u)) /\ IsFiniteSet(D)
  BY <1>2, <1>4, TotalGrows, FS_Subset
<1>6. /\ Accounts!Total(s, D) \in Nat /\ Accounts!Total([n \in D |-> -s[n]], D) \in Nat
      /\ Accounts!Total(SumsOf(u), SpentBy(u)) \in Nat
  BY <1>2, <1>5, TotalType
<1>7. Accounts!Net(s, D) <= Accounts!Total(SumsOf(u), SpentBy(u))
  BY <1>5, <1>6 DEF Accounts!Net
<1>8. [n \in WithdrawalsOf(u) |-> withdrawals[n].sum] = SumsOf(u)
  BY <1>1 DEF SumsOf
<1>9. /\ DOMAIN SumsOf(u) = SpentBy(u)
      /\ [n \in SpentBy(u) |-> -SumsOf(u)[n]] = RefundsOf(u)
  BY DEF SumsOf, RefundsOf
<1>10. QED
  BY <1>3, <1>7, <1>8, <1>9, TakenIs DEF Withdrawn, Accounts!Net

LEMMA ListedType ==
  ASSUME NEW u \in Users
  PROVE  Accrued([n \in OrdersOf(u) |-> orders[n]]) \in Int
<1>1. OrdersOf(u) \in SUBSET Numbers
  BY DEF OrdersOf, Uploaded
<1>2. IsFiniteSet(OrdersOf(u))
  BY <1>1, StoreAssumption, FS_Subset
<1>3. QED
  BY <1>2, TotalType DEF Accrued

LEMMA ShownAccruedType ==
  ASSUME ShownInv, NEW u \in Users
  PROVE  /\ Accrued(shown[u].orders) \in Int
         /\ Withdrawn(shown[u].withdrawals) \in Int
<1>1. PICK s, D : s = shown[u].orders /\ D = DOMAIN s
  OBVIOUS
<1>2. PICK w, E : w = shown[u].withdrawals /\ E = DOMAIN w
  OBVIOUS
<1>3. D \in SUBSET Numbers /\ E \in SUBSET Numbers
  BY <1>1, <1>2 DEF ShownInv, ShownOrder, WithdrawalsOf
<1>4. IsFiniteSet(D) /\ IsFiniteSet(E)
  BY <1>3, StoreAssumption, FS_Subset
<1>5. Accrued(s) \in Int
  BY <1>1, <1>4, TotalType DEF Accrued
<1>6. Accounts!Total(w, E) \in Int /\ Accounts!Total([x \in E |-> -w[x]], E) \in Int
  BY <1>4, TotalType
<1>7. QED
  BY <1>1, <1>2, <1>5, <1>6 DEF Withdrawn, Accounts!Net

\* What holds in every state of the service with users who look at it.
LEMMA ListingsInvariant ==
  ListingsSpec => [](TypeInv /\ ShownInv /\ SumsInv /\ BalanceAgrees)
<1>1. Init /\ ListingsInit => ShownTypes /\ ShownInv /\ SumsInv
  <2> SUFFICES ASSUME Init, ListingsInit PROVE ShownTypes /\ ShownInv /\ SumsInv
    OBVIOUS
  <2>1. ASSUME NEW u \in Users
        PROVE  shown[u].balance \in Balance /\ Explained(shown[u].balance, u)
    <3>1. shown[u].balance = [current |-> 0, withdrawn |-> 0]
      BY DEF ListingsInit
    <3>2. PICK e \in Nat, f \in Nat : e = Accounts!Earned(u) /\ f = Accounts!Drift(u)
      BY EarnedType
    <3>3. PICK t \in Nat : t = Accounts!Taken(u)
      BY EarnedType
    <3>4. 0 + 0 <= e + f /\ 0 <= t + f
      OBVIOUS
    <3>5. QED BY <3>1, <3>2, <3>3, <3>4, ZeroAmount DEF Explained, Balance
  <2>2. QED BY <2>1 DEF ListingsInit, ShownTypes, ShownInv, SumsInv
<1>2. [ListingsNext]_listingVars => [Next]_vars
  BY DEF ListingsNext, listingVars, GetOrders, GetWithdrawals, GetBalance
<1>3. ListingsSpec => Spec
  BY <1>2, PTL DEF ListingsSpec, Spec
<1>4. ListingsSpec => /\ []TypeInv /\ []BalanceInv /\ []PipelineInv /\ []PaidInv
                      /\ []RowsInv /\ []BalanceAgrees
  BY <1>3, TypeInvariant, BalanceInvariant, PipelineInvariant, PaidInvariant,
    RowsInvariant, BalancesAgree, PTL
<1>5. BalanceInv /\ TypeInv' /\ PipelineInv /\ PaidInv /\ RowsInv /\ BalanceAgrees
        /\ ShownTypes /\ SumsInv /\ [ListingsNext]_listingVars => SumsInv'
  BY SumsStep
<1>6. QED
  BY <1>1, <1>4, <1>5, ShownStep, PTL DEF ListingsSpec

\* Points that a listing shows are in every balance asked for after it: an
\* order is never shown as rewarded before its reward is credited, nor a
\* withdrawal before it is taken, but for the rounding of each withdrawal and
\* for what withdrawals of a negative sum give back.
THEOREM ListedAreInBalance == ListingsSpec => []ListedIsInBalance
<1>1. TypeInv /\ ShownInv /\ SumsInv /\ BalanceAgrees => ListedIsInBalance
  <2> SUFFICES ASSUME TypeInv, ShownInv, SumsInv, BalanceAgrees, NEW u \in Users
               PROVE  /\ Accrued(shown[u].orders)
                           <= balance[u].current + balance[u].withdrawn
                                + Accounts!Drift(u)
                      /\ Withdrawn(shown[u].withdrawals)
                           <= balance[u].withdrawn + Accounts!Given(u)
                                + Accounts!Drift(u)
    BY DEF ListedIsInBalance
  <2>1. PICK x \in Int, y \in Int :
          x = Accrued(shown[u].orders) /\ y = Withdrawn(shown[u].withdrawals)
    BY ShownAccruedType
  <2>2. PICK c \in Int, d \in Int : c = balance[u].current /\ d = balance[u].withdrawn
    BY BalanceInt
  <2>3. PICK e \in Int, f \in Int : e = Accounts!Earned(u) /\ f = Accounts!Drift(u)
    BY EarnedType
  <2>4. PICK t \in Int, g \in Int : t = Accounts!Taken(u) /\ g = Accounts!Given(u)
    BY EarnedType
  <2>5. x <= e /\ y <= t
    BY <2>1, <2>3, <2>4, ShownIsEarned, ShownIsSpent
  <2>6. e <= c + d + f /\ t <= d + g + f
    BY <2>2, <2>3, <2>4, AgreeingBalance
  <2>7. x <= c + d + f /\ y <= d + g + f
    BY <2>5, <2>6
  <2>8. QED BY <2>1, <2>2, <2>3, <2>4, <2>7
<1>2. QED
  BY <1>1, ListingsInvariant, PTL

\* And the points of a balance are explained by every listing asked for after
\* it, but for the same rounding and the same negative sums.
THEOREM BalancesAreListed == ListingsSpec => []BalanceIsListed
<1>1. TypeInv /\ ShownInv /\ SumsInv /\ BalanceAgrees => BalanceIsListed
  <2> SUFFICES ASSUME TypeInv, ShownInv, SumsInv, BalanceAgrees, NEW u \in Users
               PROVE  /\ shown[u].balance.current + shown[u].balance.withdrawn
                           <= Accrued([n \in OrdersOf(u) |-> orders[n]])
                                + Accounts!Drift(u)
                      /\ shown[u].balance.withdrawn
                           <= Withdrawn([n \in WithdrawalsOf(u) |-> withdrawals[n].sum])
                                + Accounts!Given(u) + Accounts!Drift(u)
    BY DEF BalanceIsListed
  <2>1. PICK c \in Int, d \in Int :
          c = shown[u].balance.current /\ d = shown[u].balance.withdrawn
    BY BalanceInts DEF SumsInv
  <2>2. PICK e \in Int, f \in Int : e = Accounts!Earned(u) /\ f = Accounts!Drift(u)
    BY EarnedType
  <2>3. PICK t \in Int, g \in Int : t = Accounts!Taken(u) /\ g = Accounts!Given(u)
    BY EarnedType
  <2>4. PICK x \in Int : x = Accrued([n \in OrdersOf(u) |-> orders[n]])
    BY ListedType
  <2>5. Withdrawn([n \in WithdrawalsOf(u) |-> withdrawals[n].sum]) = t - g
    BY <2>3, ShownIsSpent
  <2>6. c + d <= e + f /\ d <= t + f /\ e <= x
    BY <2>1, <2>2, <2>3, <2>4, EarnedIsListed DEF SumsInv, Explained
  <2>7. c + d <= x + f /\ d <= (t - g) + g + f
    BY <2>6
  <2>8. QED BY <2>1, <2>2, <2>3, <2>4, <2>5, <2>7
<1>2. QED
  BY <1>1, ListingsInvariant, PTL
=============================================================================
