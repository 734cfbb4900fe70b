----------------------------- MODULE AsyncMutex ------------------------------
(***************************************************************************)
(* promise::Mutex and promise::LockGuard.  The mutex is a chain of         *)
(* promises: the n-th call of Mutex::Lock puts a new promise, n, into      *)
(* promise_, awaits the one it found there, n - 1, and then stores the     *)
(* resolver of n in resolve_, for UnLock to call.  Promise 0 is the        *)
(* resolved one the mutex starts with.                                     *)
(*                                                                         *)
(* A promise is used through what PromiseContract says of it: it settles   *)
(* once, and whoever awaits it goes on some time after that.               *)
(***************************************************************************)
EXTENDS Naturals

CONSTANTS
    Guards,     \* LockGuard objects on one Mutex
    MaxLocks,   \* bound on the calls of Mutex::Lock
    Plain,      \* what a guard does after UnLock: Unlock returns,
    Gone,       \*   ~LockGuard ends,
    Idle,       \*   or nothing is under way
    Trust       \* when users take a guard for the owner of the lock

(* "granted": once the promise of Lock() has resolved; "ownsLock": whenever
   OwnsLock() says so. *)
Trusts == {"granted", "ownsLock"}

ASSUME TrustAssumption == Trust \in Trusts

ASSUME LocksAssumption == MaxLocks \in Nat

ASSUME GuardsAssumption ==
    /\ Plain \notin Guards /\ Gone \notin Guards /\ Idle \notin Guards
    /\ Plain # Gone /\ Plain # Idle /\ Gone # Idle

VARIABLES
    bound,      \* LockGuard::mutex_ is set (not moved from, not destroyed)
    own,        \* LockGuard::own_lock_
    ticket,     \* the call of Mutex::Lock that own_lock_ stands for
    after,      \* what a guard inside Mutex::UnLock does next: Plain, Gone,
                \*   or the guard whose state operator= will take
    carry,      \* the local resolve of UnLock: a promise, or 0 for none
    stage,      \* how far each call of Mutex::Lock has come
    tail,       \* Mutex::promise_
    resolve,    \* Mutex::resolve_: the promise it resolves, 0 when null
    settled     \* the promises of the chain that are settled

guardVars == <<bound, own, ticket, after, carry>>
mutexVars == <<stage, tail, resolve, settled>>
vars == <<guardVars, mutexVars>>

Locks == 1 .. MaxLocks

Init ==
    /\ bound = [g \in Guards |-> TRUE]
    /\ own = [g \in Guards |-> FALSE]
    /\ ticket = [g \in Guards |-> 0]
    /\ after = [g \in Guards |-> Idle]
    /\ carry = [g \in Guards |-> 0]
    /\ stage = [n \in Locks |-> "new"]
    /\ tail = 0
    /\ resolve = 0
    /\ settled = {0}

------------------------------------------------------------------------------
(* The guard is the right-hand side of an assignment under way. *)
Argument(g) == \E h \in Guards : after[h] = g

(* The user of a guard works on it in one thread at a time.  What an
   assignment is going to take may be used again by the coroutines that its
   UnLock resumes, once the resolver has been called. *)
Free(g) ==
    /\ after[g] = Idle
    /\ \A h \in Guards : after[h] = g => carry[h] = 0

(* When a guard that owns may be unlocked, destroyed or assigned to. *)
MayGiveUp(g) ==
    own[g] /\ (Trust = "granted" => stage[ticket[g]] = "granted")

Construct(g) ==
    /\ Free(g)
    /\ ~bound[g]
    /\ bound' = [bound EXCEPT ![g] = TRUE]
    /\ UNCHANGED <<own, ticket, after, carry, mutexVars>>

(* LockGuard::Lock, and Mutex::Lock up to its co_await: own_lock_ is set
   before the lock is acquired. *)
Lock(g) ==
    /\ Free(g)
    /\ bound[g]
    /\ ~own[g]
    /\ tail < MaxLocks
    /\ own' = [own EXCEPT ![g] = TRUE]
    /\ ticket' = [ticket EXCEPT ![g] = tail + 1]
    /\ tail' = tail + 1
    /\ stage' = [stage EXCEPT ![tail + 1] = "waiting"]
    /\ UNCHANGED <<bound, after, carry, resolve, settled>>

(* Mutant: the newcomer does not wait for the promise it replaced. *)
TurnSkipped(n) == n \in Locks

(* co_await current_promise *)
Turn(n) == n - 1 \in settled

(* Mutex::Lock after its co_await. *)
Acquire(n) ==
    /\ stage[n] = "waiting"
    /\ Turn(n)
    /\ stage' = [stage EXCEPT ![n] = "acquired"]
    /\ resolve' = n
    /\ UNCHANGED <<guardVars, tail, settled>>

(* The coroutine of Mutex::Lock ends: its caller goes on with the lock. *)
Grant(n) ==
    /\ stage[n] = "acquired"
    /\ stage' = [stage EXCEPT ![n] = "granted"]
    /\ UNCHANGED <<guardVars, tail, resolve, settled>>

(* Mutant: resolve_ is copied, and stays set. *)
UnLockKeeps(g) ==
    /\ carry' = [carry EXCEPT ![g] = resolve]
    /\ stage' = [stage EXCEPT ![ticket[g]] =
                                IF @ = "granted" THEN "released" ELSE @]
    /\ UNCHANGED <<bound, ticket, tail, resolve, settled>>

(* The critical section of Mutex::UnLock. *)
UnLock(g) ==
    /\ carry' = [carry EXCEPT ![g] = resolve]
    /\ resolve' = 0
    /\ stage' = [stage EXCEPT ![ticket[g]] =
                                IF @ = "granted" THEN "released" ELSE @]
    /\ UNCHANGED <<bound, ticket, tail, settled>>

Unlock(g) ==
    /\ Free(g) /\ bound[g] /\ MayGiveUp(g)
    /\ own' = [own EXCEPT ![g] = FALSE]
    /\ after' = [after EXCEPT ![g] = Plain]
    /\ UnLock(g)

(* ~LockGuard of a guard that owns, and of one that does not. *)
Destroy(g) ==
    /\ Free(g) /\ ~Argument(g) /\ bound[g] /\ MayGiveUp(g)
    /\ own' = [own EXCEPT ![g] = FALSE]
    /\ after' = [after EXCEPT ![g] = Gone]
    /\ UnLock(g)

DestroyIdle(g) ==
    /\ Free(g) /\ ~Argument(g) /\ bound[g] /\ ~own[g]
    /\ bound' = [bound EXCEPT ![g] = FALSE]
    /\ UNCHANGED <<own, ticket, after, carry, mutexVars>>

(* Mutant: the source of the move keeps own_lock_. *)
TakeCopies(g, h) ==
    /\ own' = [own EXCEPT ![g] = own[h]]
    /\ ticket' = [ticket EXCEPT ![g] = ticket[h]]
    /\ bound' = [bound EXCEPT ![g] = bound[h]]

(* The move itself: own_lock_ and mutex_ go from h to g. *)
Take(g, h) ==
    /\ own' = [own EXCEPT ![g] = own[h], ![h] = FALSE]
    /\ ticket' = [ticket EXCEPT ![g] = ticket[h]]
    /\ bound' = [bound EXCEPT ![g] = bound[h], ![h] = FALSE]

(* operator= of a guard that owns: UnLock first.  h may still be waiting. *)
MoveAssign(g, h) ==
    /\ g # h
    /\ Free(g) /\ Free(h) /\ bound[g] /\ MayGiveUp(g)
    /\ own' = [own EXCEPT ![g] = FALSE]
    /\ after' = [after EXCEPT ![g] = h]
    /\ UnLock(g)

(* operator= of a guard that owns nothing, and the move constructor. *)
Move(g, h) ==
    /\ g # h
    /\ Free(g) /\ Free(h) /\ ~own[g]
    /\ Take(g, h)
    /\ UNCHANGED <<after, carry, mutexVars>>

(* Mutant: the resolver is dropped without a call. *)
ResolveDropped(g) == settled

(* The call of the resolver that UnLock took. *)
Resolve(g) == settled \union {carry[g]}

(* The rest of UnLock, which calls the resolver it took; Unlock then returns.
   (An UnLock that found resolve_ null has failed its assertion.) *)
Release(g) ==
    /\ carry[g] # 0
    /\ settled' = Resolve(g)
    /\ carry' = [carry EXCEPT ![g] = 0]
    /\ after' = [after EXCEPT ![g] = IF @ = Plain THEN Idle ELSE @]
    /\ UNCHANGED <<bound, own, ticket, stage, tail, resolve>>

(* The rest of the method that called UnLock, when the resolver has returned
   and with it what the resumed coroutines did to the other guard. *)
Return(g) ==
    /\ after[g] # Idle
    /\ carry[g] = 0
    /\ after' = [after EXCEPT ![g] = Idle]
    /\ \/ /\ after[g] = Gone
          /\ bound' = [bound EXCEPT ![g] = FALSE]
          /\ UNCHANGED <<own, ticket>>
       \/ /\ after[g] \in Guards
          /\ after[after[g]] = Idle
          /\ Take(g, after[g])
    /\ UNCHANGED <<carry, mutexVars>>

------------------------------------------------------------------------------

GuardStep(g) ==
    \/ Construct(g) \/ Lock(g)
    \/ Unlock(g) \/ Destroy(g) \/ DestroyIdle(g)
    \/ Release(g) \/ Return(g)
    \/ \E h \in Guards : MoveAssign(g, h) \/ Move(g, h)

LockStep(n) == Acquire(n) \/ Grant(n)

Next == (\E g \in Guards : GuardStep(g)) \/ (\E n \in Locks : LockStep(n))

Spec == Init /\ [][Next]_vars

(* Lock n is given up by the guard that has it by then. *)
GiveUp(n) ==
    \E g \in Guards : ticket[g] = n /\ (Unlock(g) \/ Destroy(g))

(* Coroutines that can go on are resumed, and a lock that was granted is given
   up in the end.  No guard is made to lock. *)
Fairness ==
    /\ \A n \in Locks : WF_vars(LockStep(n))
    /\ \A g \in Guards : WF_vars(Release(g) \/ Return(g))
    /\ \A n \in Locks : WF_vars(GiveUp(n))

FairSpec == Spec /\ Fairness

------------------------------------------------------------------------------
(* Correctness. *)

TypeOK ==
    /\ bound \in [Guards -> BOOLEAN]
    /\ own \in [Guards -> BOOLEAN]
    /\ ticket \in [Guards -> 0 .. MaxLocks]
    /\ after \in [Guards -> Guards \union {Plain, Gone, Idle}]
    /\ carry \in [Guards -> 0 .. MaxLocks]
    /\ stage \in [Locks -> {"new", "waiting", "acquired", "granted", "released"}]
    /\ tail \in 0 .. MaxLocks
    /\ resolve \in 0 .. MaxLocks
    /\ settled \subseteq 0 .. MaxLocks

Holds(n) == stage[n] \in {"acquired", "granted"}

(* The lock is held once, by whoever Lock() let through, however the guards
   are unlocked, destroyed and moved while other calls of Lock wait. *)
MutualExclusion == \A m, n \in Locks : Holds(m) /\ Holds(n) => m = n

(* assert(!resolve_) of Mutex::Lock: whoever's turn it is finds the resolver
   of the previous holder gone. *)
AcquireFindsFree ==
    \A n \in Locks : stage[n] = "waiting" /\ Turn(n) => resolve = 0

(* assert(resolve_) of Mutex::UnLock: a guard that may give its lock up finds
   a resolver, and it is the one of its own Lock, so that it lets its own
   successor in and no other. *)
HolderCanUnlock ==
    \A g \in Guards :
        own[g] /\ stage[ticket[g]] = "granted" => resolve = ticket[g]

(* Both assertions of Mutex hold, wherever the other users are. *)
MutexAssertions == AcquireFindsFree /\ HolderCanUnlock

(* A lock that is held belongs to one guard that can give it up: no move
   loses it or leaves it with two guards. *)
HeldByOneGuard ==
    \A n \in Locks : Holds(n) =>
        /\ \E g \in Guards : own[g] /\ ticket[g] = n
        /\ \A g, h \in Guards : /\ own[g] /\ ticket[g] = n
                                /\ own[h] /\ ticket[h] = n
                                => g = h

(* First come, first served: a later call of Lock gets the lock only after
   every earlier one has given it up. *)
Fifo ==
    \A m, n \in Locks :
        m < n /\ stage[n] \in {"acquired", "granted", "released"}
            => stage[m] = "released"

(* Every call of Lock is served in the end. *)
EveryLockGranted ==
    \A n \in Locks : stage[n] = "waiting" ~> stage[n] = "granted"

==============================================================================
