----------------------------- MODULE MCAccounts -----------------------------
(* Accounts with interchangeable clients and callers.                         *)
EXTENDS Accounts, TLC

Symmetry == Permutations(Clients) \union Permutations(Callers)
=============================================================================
