--------------------------- MODULE MCGophermart ---------------------------
(***************************************************************************)
(* Symmetry and initial states for the TLC runs of Gophermart.              *)
(***************************************************************************)
EXTENDS Gophermart, TLC

Interchangeable ==
  Permutations(Withdrawers) \cup Permutations(Uploaders) \cup Permutations(Numbers)

\* Sums that a configuration file cannot write: a withdrawal of less than
\* nothing, and one of each kind.
NegativeSums == {-2}
MixedSums    == {-2, 3}

\* The runs about balances start when every number has been uploaded, by some
\* user and in some order, and nothing else has happened.
AllUploaded ==
  \E who \in [Numbers -> Users],
     at \in {f \in [Numbers -> 0..Cardinality(Numbers) - 1] :
               \A m, n \in Numbers : f[m] = f[n] => m = n} :
    orders = [n \in Numbers |-> [owner |-> who[n], status |-> "NEW",
                                 accrual |-> 0, uploadedAt |-> at[n]]]

UploadedInit ==
  /\ AllUploaded
  /\ balance     = [u \in Users |-> [current |-> 0, withdrawn |-> 0]]
  /\ withdrawals = [n \in Numbers |-> None]
  /\ rowLock     = [u \in Users |-> None]
  /\ WithdrawalsInit /\ UploadsInit /\ AccrualsInit

UploadedSpec == UploadedInit /\ [][Next]_vars

UploadedFairSpec == UploadedSpec /\ Fairness
=============================================================================
