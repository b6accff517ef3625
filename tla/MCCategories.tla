---------------------------- MODULE MCCategories ----------------------------
(* Instances of Categories for TLC. *)
EXTENDS Categories, TLC

Symmetry == Permutations(Ids) \cup Permutations(Titles) \cup Permutations(Procs)

(* Bound: once saves have overlapped, no further one is begun.       *)
NoNewSavesOnceTorn ==
  torn => \A p \in Procs : mem[p] = Idle => mem'[p].op \in {"idle", "count", "place", "find"}
=============================================================================
