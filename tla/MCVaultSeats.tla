---------------------------- MODULE MCVaultSeats ----------------------------
(* Accounts and connections of VaultSeats are interchangeable.             *)
EXTENDS VaultSeats, TLC
Symmetry == Permutations(Account) \cup Permutations(Worker)
=============================================================================
