----------------------------- MODULE MCSessions -----------------------------
(* Instances of Sessions for TLC, and what the documentation says of it. *)
EXTENDS Sessions, TLC

Symmetry == Permutations(Users) \cup Permutations(Tokens) \cup Permutations(Procs)

(* users.controller.ts:184: logout-all invalidates all active refresh      *)
(* tokens of the account, those of a login it once met half-way included.  *)
LogoutAllRevokesAll ==
  [][\A p \in Procs, u \in Users :
       LogoutAllEnds(p, u) => mem[p].known \cap Live = {}]_vars
=============================================================================
