--------------------------- MODULE PromiseContract ---------------------------
(***************************************************************************)
(* What one promise promises, whatever threads drive it: it leaves the     *)
(* pending state at most once, and every party that waits for it learns    *)
(* the one outcome, at most once, and never before the promise settled.    *)
(* PromiseCore, the model of the code, is shown to implement this module.  *)
(***************************************************************************)

CONSTANT Awaiters      \* the coroutines and callbacks that wait

VARIABLES outcome,     \* "pending", "resolved" or "rejected"
          delivered    \* what each awaiter has been told so far

vars == <<outcome, delivered>>

Final == {"resolved", "rejected"}

TypeOK ==
    /\ outcome \in Final \union {"pending"}
    /\ delivered \in [Awaiters -> Final \union {"none"}]

Init ==
    /\ outcome \in Final \union {"pending"}
    /\ delivered = [a \in Awaiters |-> "none"]

Settle(o) ==
    /\ outcome = "pending"
    /\ outcome' = o
    /\ UNCHANGED delivered

Deliver(a) ==
    /\ outcome \in Final
    /\ delivered[a] = "none"
    /\ delivered' = [delivered EXCEPT ![a] = outcome]
    /\ UNCHANGED outcome

Next == (\E o \in Final : Settle(o)) \/ (\E a \in Awaiters : Deliver(a))

Spec == Init /\ [][Next]_vars

==============================================================================
