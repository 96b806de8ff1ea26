----------------------------- MODULE MCSessions -----------------------------
(***************************************************************************)
(* Sessions for TLC.                                                        *)
(***************************************************************************)
EXTENDS Sessions, TLC

\* Clients, logins and passwords are interchangeable.
Symmetry == Permutations(Clients) \cup Permutations(Logins) \cup Permutations(Passwords)
=============================================================================
