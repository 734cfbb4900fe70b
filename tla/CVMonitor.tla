------------------------------ MODULE CVMonitor ------------------------------
(***************************************************************************)
(* CVPromise together with promise::Mutex, used as a monitor: consumers    *)
(* hold the lock, look at a shared flag and wait for it with               *)
(* CVPromise::Wait(lock); producers set the flag under the lock and call   *)
(* Notify; enders call Reject, and the CVPromise is destroyed at last.     *)
(*                                                                         *)
(* The condition variable is a chain of promises, or rounds: Notify and    *)
(* Reject put a new one into promise_ and settle the one they took out.    *)
(***************************************************************************)
EXTENDS AsyncMutex

CONSTANTS
    Consumers,  \* guards whose users wait for the flag
    Producers,  \* guards whose users set it and call Notify
    Enders,     \* callers of Reject
    MaxRounds   \* bound on the rounds

ASSUME RolesAssumption ==
    /\ Guards = Consumers \union Producers
    /\ Consumers \intersect Producers = {}
    /\ Enders \intersect Guards = {}

ASSUME RoundsAssumption == MaxRounds \in Nat

Callers == Producers \union Enders
Users == Guards \union Enders

VARIABLES
    round,      \* CVPromise::promise_, resolve_ and reject_
    outcome,    \* of each round: "pending", "resolved" or "rejected"
    flag,       \* what the consumers wait for
    upc,        \* where each user is
    snap,       \* the local promise of Wait(lock): the round it waits for
    took,       \* the local old_promise of Notify and Reject
    alive       \* ~CVPromise has not run

cvVars == <<round, outcome, flag, upc, snap, took, alive>>
mvars == <<vars, cvVars>>

MInit ==
    /\ Init
    /\ round = 0
    /\ outcome = [r \in 0 .. MaxRounds |-> "pending"]
    /\ flag = FALSE
    /\ upc = [u \in Users |-> IF u \in Enders THEN "called" ELSE "start"]
    /\ snap = [g \in Consumers |-> 0]
    /\ took = [c \in Callers |-> 0]
    /\ alive = TRUE

Go(u, place) == upc' = [upc EXCEPT ![u] = place]

------------------------------------------------------------------------------
(* Users of the lock. *)

Enter(g) ==
    /\ upc[g] = "start"
    /\ alive
    /\ Lock(g)
    /\ Go(g, "entering")
    /\ UNCHANGED <<round, outcome, flag, snap, took, alive>>

Inside(g) == upc[g] = "entering" /\ stage[ticket[g]] = "granted"

(* A consumer that finds the flag set leaves; one that does not calls
   Wait(lock), which first of all copies promise_. *)
Check(g) ==
    /\ g \in Consumers
    /\ Inside(g)
    /\ IF flag
         THEN Go(g, "leaving") /\ UNCHANGED snap
         ELSE /\ alive
              /\ Go(g, "snapped")
              /\ snap' = [snap EXCEPT ![g] = round]
    /\ UNCHANGED <<vars, round, outcome, flag, took, alive>>

(* if (lock.OwnsLock()) lock.Unlock(), in Wait(lock). *)
WaitUnlock(g) ==
    /\ upc[g] = "snapped"
    /\ Unlock(g)
    /\ Go(g, "unlocking")
    /\ UNCHANGED <<round, outcome, flag, snap, took, alive>>

(* Mutant: the promise is copied only after the lock has been released. *)
WaitReleasedLate(g) ==
    /\ upc[g] = "unlocking"
    /\ \/ Release(g) /\ UNCHANGED <<upc, snap>>
       \/ /\ after[g] = Idle
          /\ Go(g, "awaiting")
          /\ snap' = [snap EXCEPT ![g] = round]
          /\ UNCHANGED vars
    /\ UNCHANGED <<round, outcome, flag, took, alive>>

WaitReleased(g) ==
    /\ upc[g] = "unlocking"
    /\ Release(g)
    /\ Go(g, "awaiting")
    /\ UNCHANGED <<round, outcome, flag, snap, took, alive>>

(* The continuation that Wait(lock) put on the round locks again, if the
   round was resolved; a rejected one ends the wait without the lock. *)
Wake(g) ==
    /\ upc[g] = "awaiting"
    /\ \/ /\ outcome[snap[g]] = "resolved"
          /\ Lock(g)
          /\ Go(g, "entering")
       \/ /\ outcome[snap[g]] = "rejected"
          /\ Go(g, "ended")
          /\ UNCHANGED vars
    /\ UNCHANGED <<round, outcome, flag, snap, took, alive>>

(* A producer sets the flag. *)
Produce(g) ==
    /\ g \in Producers
    /\ Inside(g)
    /\ flag' = TRUE
    /\ Go(g, "leaving")
    /\ UNCHANGED <<vars, round, outcome, snap, took, alive>>

Exit(g) ==
    /\ upc[g] = "leaving"
    /\ Unlock(g)
    /\ Go(g, "left")
    /\ UNCHANGED <<round, outcome, flag, snap, took, alive>>

Left(g) ==
    /\ upc[g] = "left"
    /\ Release(g)
    /\ Go(g, IF g \in Producers THEN "called" ELSE "ended")
    /\ UNCHANGED <<round, outcome, flag, snap, took, alive>>

------------------------------------------------------------------------------
(* CVPromise. *)

(* Mutant: the call takes the promise it has just created. *)
SwapTakesNew(c) ==
    /\ took' = [took EXCEPT ![c] = round + 1]
    /\ round' = round + 1

(* The critical section of Notify and of Reject. *)
Swap(c) ==
    /\ took' = [took EXCEPT ![c] = round]
    /\ round' = round + 1

TakeOut(c) ==
    /\ c \in Callers
    /\ upc[c] = "called"
    /\ alive
    /\ round < MaxRounds
    /\ Swap(c)
    /\ Go(c, "settling")
    /\ UNCHANGED <<vars, outcome, flag, snap, alive>>

(* The resolver settles a promise once. *)
Settle(r, o) ==
    outcome' = [outcome EXCEPT ![r] = IF @ = "pending" THEN o ELSE @]

Notify(c) ==
    /\ c \in Producers
    /\ upc[c] = "settling"
    /\ Settle(took[c], "resolved")
    /\ Go(c, "ended")
    /\ UNCHANGED <<vars, round, flag, snap, took, alive>>

Reject(c) ==
    /\ c \in Enders
    /\ upc[c] = "settling"
    /\ Settle(took[c], "rejected")
    /\ Go(c, "ended")
    /\ UNCHANGED <<vars, round, flag, snap, took, alive>>

(* ~CVPromise, once no call of Notify, Reject or Wait can come or is under
   way, rejects the current promise with End. *)
DestroyCV ==
    /\ alive
    /\ \A c \in Callers : upc[c] = "ended"
    /\ \A g \in Consumers : upc[g] \in {"awaiting", "ended"}
    /\ Settle(round, "rejected")
    /\ alive' = FALSE
    /\ UNCHANGED <<vars, round, flag, upc, snap, took>>

------------------------------------------------------------------------------

UserStep(g) ==
    \/ Enter(g) \/ Check(g) \/ WaitUnlock(g) \/ WaitReleased(g) \/ Wake(g)
    \/ Produce(g) \/ Exit(g) \/ Left(g)

CallStep(c) == TakeOut(c) \/ Notify(c) \/ Reject(c)

MutexStep(n) == LockStep(n) /\ UNCHANGED cvVars

(* Everybody has ended. *)
Over ==
    /\ \A u \in Users : upc[u] = "ended"
    /\ UNCHANGED mvars

MNext ==
    \/ \E g \in Guards : UserStep(g)
    \/ \E c \in Callers : CallStep(c)
    \/ \E n \in Locks : MutexStep(n)
    \/ DestroyCV
    \/ Over

MSpec == MInit /\ [][MNext]_mvars

(* Every user's coroutine and every resumed coroutine goes on.  The CVPromise
   need not be destroyed. *)
MFairness ==
    /\ \A g \in Guards : WF_mvars(UserStep(g))
    /\ \A c \in Callers : WF_mvars(CallStep(c))
    /\ \A n \in Locks : WF_mvars(MutexStep(n))

MFairSpec == MSpec /\ MFairness

------------------------------------------------------------------------------
(* Correctness. *)

(* No notification is lost between the unlock and the wait of Wait(lock):
   whoever waits although the flag is set has a producer that has yet to
   notify, or to resolve the very promise it waits for. *)
NoNotificationLost ==
    \A g \in Consumers :
        /\ upc[g] \in {"snapped", "unlocking", "awaiting"}
        /\ flag
        /\ outcome[snap[g]] = "pending"
        => \E c \in Producers \union Enders :
              \/ c \in Producers /\ upc[c] \in {"leaving", "left", "called"}
              \/ upc[c] = "settling" /\ took[c] = snap[g]

(* assert(old_promise.Done()) and more: a round that left promise_ is settled
   or in the hands of exactly one call, and the one in promise_ is pending
   until the CVPromise is destroyed: a signal is for those who waited when it
   came, and a later Wait waits for a later one. *)
RoundsSettled ==
    /\ \A r \in 0 .. round - 1 : outcome[r] = "pending" =>
         /\ \E c \in Callers : upc[c] = "settling" /\ took[c] = r
         /\ \A c, d \in Callers : /\ upc[c] = "settling" /\ took[c] = r
                                  /\ upc[d] = "settling" /\ took[d] = r
                                  => c = d
    /\ alive => outcome[round] = "pending"

(* With a producer that notifies every consumer gets through. *)
EveryoneEnds == \A u \in Users : <>(upc[u] = "ended")

==============================================================================
