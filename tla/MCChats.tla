------------------------------- MODULE MCChats -------------------------------
(* Instances of Chats for TLC. *)
EXTENDS Chats, TLC

Symmetry == Permutations(Verified) \cup Permutations(Adverts) \cup
            Permutations(Chats) \cup Permutations(Messages) \cup Permutations(Procs)
=============================================================================
