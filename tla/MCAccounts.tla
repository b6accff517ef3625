------------------------------ MODULE MCAccounts ------------------------------
(* Accounts for TLC: handlers, ids, passwords are interchangeable.         *)
EXTENDS Accounts, TLC

Symmetry == Permutations(Procs) \cup Permutations(Passwords) \cup Permutations(Ids)
=============================================================================
