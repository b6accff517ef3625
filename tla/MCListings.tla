------------------------------ MODULE MCListings ------------------------------
(* Listings for TLC: three points, two in one region and one without a     *)
(* place, the third in another region with a city of the same name.        *)
EXTENDS Listings, TLC

CONSTANTS x, y, z, C, R, S, P

MCWhere == x :> [country |-> C, region |-> R, place |-> None] @@
           y :> [country |-> C, region |-> R, place |-> P] @@
           z :> [country |-> C, region |-> S, place |-> P]

(* Bounds: handlers overlap when both create adverts or both have to do    *)
(* with the only one.  Wishes are made and accounts deleted while there is *)
(* one city, and overlap with one other handler.  The visitor comes to an  *)
(* empty wishlist and places not split, filters by the first region or not *)
(* at all, and while he turns pages at most one handler is at work, past   *)
(* its lookup.                                                             *)
Busy == {p \in Procs : mem[p] # Idle}
Creating == {p \in Busy : mem[p].advert \notin DOMAIN createdAt}

Bounds ==
  /\ \/ Busy = Creating \/ \A p, q \in Busy : p = q
     \/ Cardinality(DOMAIN createdAt) <= 1 /\ \A p, q \in Busy : mem[p].advert = mem[q].advert
  /\ wish # {} \/ users # Users \/ (\E p \in Procs : At(p, "wish")) =>
       /\ Len(city) <= 1
       /\ \A p, q \in Busy : p = q \/ At(p, "wish") \/ At(q, "wish")
  /\ visitor.op # "away" =>
       /\ users = Users /\ wish = {} /\ split = {}
       /\ visitor.filter \in {All, [kind |-> "region", id |-> 1]}
       /\ \A p, q \in Busy : p = q /\ mem[p].op \in {"edit", "save"}

Symmetry == Permutations(Adverts) \cup Permutations(Procs)
=============================================================================
