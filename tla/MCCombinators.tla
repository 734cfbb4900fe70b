--------------------------- MODULE MCCombinators ---------------------------
(* Instances of Combinators for TLC. *)
EXTENDS Combinators

(* Three contestants, the second of them lazy and the third never settled. *)
ThreeContestants == <<1, 2, 3>>

=============================================================================
