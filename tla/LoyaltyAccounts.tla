-------------------------- MODULE LoyaltyAccounts --------------------------
(***************************************************************************)
(* What Gophermart promises its users, whatever runs at the same time and   *)
(* whatever fails: a number is uploaded by one user and settled once, an    *)
(* order number is used for one withdrawal, and a withdrawal takes no more  *)
(* points than the user has earned and not spent yet, but for what the      *)
(* withdrawals before it were rounded by.  A request may also ask for less  *)
(* than nothing and is given points: TopUp, which no doc promises.  Each    *)
(* event is one atomic step, and there is no balance: what a user has is a  *)
(* function of what happened.                                               *)
(***************************************************************************)
EXTENDS Integers, FiniteSets

CONSTANTS
  Users, Numbers, None,
  MaxAmount,  \* no single reward or withdrawal is larger
  Slack       \* what one withdrawal may be rounded by

VARIABLES
  owner,       \* who has uploaded an order number
  reward,      \* the points a settled order has earned, None before
  withdrawals  \* the withdrawal made for an order number

vars == <<owner, reward, withdrawals>>

\* The sum of the positive values of f over S, as the number of points under
\* the graph of f.
Total(f, S) ==
  Cardinality({p \in S \X (1..MaxAmount) : p[2] <= f[p[1]]})

\* The sum of all values of f over S.
Net(f, S) == Total(f, S) - Total([x \in S |-> -f[x]], S)

Earned(u) == Total(reward, {n \in Numbers : owner[n] = u /\ reward[n] # None})

MadeBy(u) == {n \in Numbers : withdrawals[n] # None /\ withdrawals[n].user = u}

\* What the withdrawals of u have taken, and what those of a negative sum have
\* given to u.
Taken(u) == Total([n \in MadeBy(u) |-> withdrawals[n].sum], MadeBy(u))
Given(u) == Total([n \in MadeBy(u) |-> -withdrawals[n].sum], MadeBy(u))
Spent(u) == Taken(u) - Given(u)

Drift(u) == Slack * Cardinality(MadeBy(u))

\* Orders may have been uploaded before, but none is settled.
Init == /\ owner \in [Numbers -> Users \cup {None}]
        /\ reward      = [n \in Numbers |-> None]
        /\ withdrawals = [n \in Numbers |-> None]

Upload(u, n) == /\ owner[n] = None
                /\ owner' = [owner EXCEPT ![n] = u]
                /\ UNCHANGED <<reward, withdrawals>>

Settle(n, points) == /\ owner[n] # None
                     /\ reward[n] = None
                     /\ reward' = [reward EXCEPT ![n] = points]
                     /\ UNCHANGED <<owner, withdrawals>>

Withdraw(u, n, sum) ==
  /\ withdrawals[n] = None
  /\ withdrawals' = [withdrawals EXCEPT ![n] = [user |-> u, sum |-> sum]]
  /\ sum <= Earned(u) - Spent(u) + Drift(u)
  /\ UNCHANGED <<owner, reward>>

TopUp(u, n, points) ==
  /\ withdrawals[n] = None
  /\ withdrawals' = [withdrawals EXCEPT ![n] = [user |-> u, sum |-> -points]]
  /\ UNCHANGED <<owner, reward>>

Next == \E n \in Numbers :
  \/ \E u \in Users : Upload(u, n)
  \/ \E points \in 0..MaxAmount : Settle(n, points)
  \/ \E u \in Users, sum \in 0..MaxAmount : Withdraw(u, n, sum)
  \/ \E u \in Users, points \in 1..MaxAmount : TopUp(u, n, points)

Spec == Init /\ [][Next]_vars
=============================================================================
