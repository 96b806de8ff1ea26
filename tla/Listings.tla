------------------------------ MODULE Listings ------------------------------
(***************************************************************************)
(* GET /api/user/balance, /orders and /withdrawals: each is one SELECT of   *)
(* committed rows.  A user asks one thing after another, so the answers it  *)
(* has are of different moments, with the work of withdrawals and of the    *)
(* updater in between.  An answer holds what its SELECT has read; a refusal *)
(* (401, 500, 503) shows the user nothing.                                  *)
(***************************************************************************)
EXTENDS Gophermart

VARIABLE shown  \* what each user has been shown last, by each request

listingVars == <<vars, shown>>

\* Nothing yet: no rows, and the balance of a new user.
ListingsInit ==
  shown = [u \in Users |-> [orders |-> <<>>, withdrawals |-> <<>>,
                            balance |-> [current |-> 0, withdrawn |-> 0]]]

OrdersOf(u)      == {n \in Uploaded : orders[n].owner = u}
WithdrawalsOf(u) == {n \in Numbers : withdrawals[n] # None /\ withdrawals[n].user = u}

\* Mutant: the listing leaves the orders out that are final.
GetOpenOrders(u) ==
  /\ shown' = [shown EXCEPT ![u].orders =
       [n \in OrdersOf(u) \ {m \in Uploaded : Settled(m)} |-> orders[n]]]
  /\ UNCHANGED vars

\* 200 with the rows, 204 when there is none.
GetOrders(u) ==
  /\ shown' = [shown EXCEPT ![u].orders = [n \in OrdersOf(u) |-> orders[n]]]
  /\ UNCHANGED vars

GetWithdrawals(u) ==
  /\ shown' = [shown EXCEPT ![u].withdrawals =
       [n \in WithdrawalsOf(u) |-> withdrawals[n].sum]]
  /\ UNCHANGED vars

\* A registered user has its row, so this is never a 404.
GetBalance(u) ==
  /\ shown' = [shown EXCEPT ![u].balance = balance[u]]
  /\ UNCHANGED vars

ListingsNext ==
  \/ Next /\ UNCHANGED shown
  \/ \E u \in Users : GetOrders(u) \/ GetWithdrawals(u) \/ GetBalance(u)

ListingsSpec == Init /\ ListingsInit /\ [][ListingsNext]_listingVars
-----------------------------------------------------------------------------
\* What the orders of a listing have earned and its withdrawals have taken.
Accrued(listing) ==
  Accounts!Total([n \in DOMAIN listing |-> listing[n].accrual], DOMAIN listing)
Withdrawn(listing) == Accounts!Net(listing, DOMAIN listing)

\* Points that a listing shows as earned or spent are in every balance that is
\* asked for after it, but for what withdrawals are rounded by and what those
\* of a negative sum give back: no order is shown as rewarded before it is
\* credited, and no withdrawal before it is taken.
ListedIsInBalance ==
  \A u \in Users :
    /\ Accrued(shown[u].orders)
         <= balance[u].current + balance[u].withdrawn + Accounts!Drift(u)
    /\ Withdrawn(shown[u].withdrawals)
         <= balance[u].withdrawn + Accounts!Given(u) + Accounts!Drift(u)

\* And the other way round: the points of a balance are explained by the
\* listings that are asked for after it.
BalanceIsListed ==
  \A u \in Users :
    /\ shown[u].balance.current + shown[u].balance.withdrawn
         <= Accrued([n \in OrdersOf(u) |-> orders[n]]) + Accounts!Drift(u)
    /\ shown[u].balance.withdrawn
         <= Withdrawn([n \in WithdrawalsOf(u) |-> withdrawals[n].sum])
              + Accounts!Given(u) + Accounts!Drift(u)

\* What a user has been shown is never taken back by a later listing: an order
\* stays, its status moves on only, its outcome and a withdrawal are final.
Stage(status) == CASE status = "NEW" -> 0 [] status = "PROCESSING" -> 1 [] OTHER -> 2

ShownIsNotTakenBack ==
  [][\A u \in Users :
       /\ \A n \in DOMAIN shown[u].orders :
            LET old == shown[u].orders[n]
                new == shown'[u].orders[n]
            IN  /\ n \in DOMAIN shown'[u].orders
                /\ Stage(old.status) <= Stage(new.status)
                /\ old.status \in Final => new = old
       /\ \A n \in DOMAIN shown[u].withdrawals :
            /\ n \in DOMAIN shown'[u].withdrawals
            /\ shown'[u].withdrawals[n] = shown[u].withdrawals[n]]_listingVars

\* A user who goes on asking for the listing is shown the outcome of an order
\* the accrual system has a final answer for.
EventuallyShown ==
  (\A u \in Users : WF_listingVars(GetOrders(u))) =>
    \A n \in Calculated : n \in Uploaded ~>
      \E u \in Users : /\ n \in DOMAIN shown[u].orders
                       /\ shown[u].orders[n].status \in Final
=============================================================================
