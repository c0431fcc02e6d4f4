------------------------------ MODULE MCAccounts ------------------------------
(***************************************************************************)
(* Model values for Accounts: three requests.                              *)
(***************************************************************************)
EXTENDS Accounts, TLC

CONSTANTS r1, r2, r3

MCRequests == {r1, r2, r3}
\* Requests, and what is named after them, are interchangeable.
MCSymmetry == Permutations(MCRequests)
=============================================================================
