---------------------------- MODULE MCStatePromise ---------------------------
(* Instances of StatePromise for TLC. *)
EXTENDS StatePromise, TLC

(* No definition tells two waiters apart. *)
Symmetric == Permutations(Waiters)

==============================================================================
