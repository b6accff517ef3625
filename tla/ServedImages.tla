---------------------------- MODULE ServedImages ----------------------------
(***************************************************************************)
(* What the image store promises: a file that an advert has taken into its *)
(* keeping is served until somebody releases it.  Files enter the store    *)
(* once, files nobody keeps may be discarded at any moment.                *)
(***************************************************************************)
CONSTANT Files

VARIABLES stored, kept

served == <<stored, kept>>

Init == stored = {} /\ kept = {}

Receive(f) ==
  /\ f \in Files \ stored
  /\ stored' = stored \cup {f}
  /\ UNCHANGED kept

(* Only what is there can be kept.                                         *)
Keep(new) ==
  /\ new \subseteq stored
  /\ kept' = kept \cup new
  /\ UNCHANGED stored

Release(old) ==
  /\ kept' = kept \ old
  /\ UNCHANGED stored

Discard(gone) ==
  /\ gone \cap kept = {}
  /\ stored' = stored \ gone
  /\ UNCHANGED kept

Next ==
  \/ \E f \in Files : Receive(f)
  \/ \E fs \in SUBSET Files : Keep(fs) \/ Release(fs) \/ Discard(fs)

Spec == Init /\ [][Next]_served
=============================================================================
