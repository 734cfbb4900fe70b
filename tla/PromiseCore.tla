----------------------------- MODULE PromiseCore -----------------------------
(***************************************************************************)
(* One promise: the shared state of Handle<T>, Resolver<T> and             *)
(* details::Promise<T>, and every thread that works on it at once:         *)
(*                                                                         *)
(*   - the coroutine (Body), from its last statement through               *)
(*     final_suspend, where the promise finds out that it has finished;    *)
(*   - the calls made on the Resolve and Reject handles;                   *)
(*   - the parties that wait: coroutines (co_await), continuations (Then,  *)
(*     Catch, Finally) and race callbacks, which may be unregistered;      *)
(*   - the WPromise copies that own the shared state, and whose            *)
(*     destructors wait for it;                                            *)
(*   - the threads blocked in WaitAwaited.                                 *)
(*                                                                         *)
(* A critical section of Handle::mutex_ is one action; what the code does  *)
(* between two critical sections is interleaved with every other thread.   *)
(***************************************************************************)
EXTENDS Naturals, Sequences, SequencesExt

CONSTANTS
    Resolves,       \* calls of Resolve<T>::operator()
    Rejects,        \* calls of Reject::operator()
    Body,           \* the thread that runs the coroutine to its end
    Coroutines,     \* coroutines that co_await the promise
    Continuations,  \* callbacks of Then, Catch and Finally
    Racers,         \* callbacks registered by Race
    Owners,         \* WPromise copies that share the promise
    Watchers,       \* threads in WaitAwaited
    Kinds,          \* how the promise may have been made
    Policy          \* what an owner does before it lets go of its WPromise

Calls == Resolves \union Rejects
Threads == Calls \union {Body}
Callbacks == Continuations \union Racers
Awaiters == Coroutines \union Callbacks

(* "coroutine": MakePromise of a plain coroutine; "resolver": MakePromise of
   a coroutine that takes Resolve and Reject; "bare": promise::Create(), no
   coroutine; "resolved", "rejected": the static Resolve() and Reject(). *)
AllKinds == {"coroutine", "resolver", "bare", "resolved", "rejected"}

(* "destructor": rely on ~WPromise alone; "waitDone": call WaitDone() first;
   "join": and wait for the promises its continuations returned as well. *)
Policies == {"destructor", "waitDone", "join"}

ASSUME ThreadsAssumption ==
    /\ Resolves \intersect Rejects = {}
    /\ Body \notin Calls

ASSUME AwaitersAssumption ==
    /\ Coroutines \intersect Callbacks = {}
    /\ Continuations \intersect Racers = {}

ASSUME UsageAssumption ==
    /\ Owners # {}
    /\ Kinds \subseteq AllKinds
    /\ Policy \in Policies

VARIABLES
    kind,       \* how this promise was made
    resolved,   \* Resolver::resolved_, the flag the winning call exchanges
    rejected,   \* Reject::rejected_
    value,      \* ResolverValue: a value has been stored
    exception,  \* Resolver::exception_ is set
    handle,     \* Handle::handle_ is not null
    awaiters,   \* Promise::awaiters_
    useCount,   \* Promise::use_count_
    selfOwned,  \* Handle::self_owned_ is set
    pc,         \* where each thread of Threads is
    delayed,    \* the delayed_return of final_suspend
    batch,      \* the local awaiters vector of OnResolved, per thread
    saved,      \* the local save_self of OnResolved, per thread
    apc,        \* where each awaiter is
    id,         \* the AwaitFunction id (the registration number)
    seen,       \* what await_resume or the callback read
    owner,      \* where each WPromise copy is
    watch,      \* where each WaitAwaited call is
    last        \* its last_count

resolverVars == <<resolved, rejected, value, exception>>
handleVars   == <<handle, awaiters, useCount, selfOwned>>
threadVars   == <<pc, delayed, batch, saved>>
awaiterVars  == <<apc, id, seen>>
waiterVars   == <<owner, watch, last>>
vars == <<kind, resolverVars, handleVars, threadVars, awaiterVars, waiterVars>>

------------------------------------------------------------------------------
(* State functions of the code. *)

IsDone == value \/ exception

Done == ~handle

(* The predicate of Handle::WaitDone. *)
Finished == IsDone /\ Done

(* Only these promises hand out a Resolve and a Reject. *)
HasHandles == kind \in {"resolver", "bare"}

(* Mutants: the reader takes the value without looking for an exception. *)
OutcomeOfValue == IF value THEN "resolved" ELSE "pending"
OutcomeUnchecked == "resolved"

Outcome == IF exception THEN "rejected" ELSE "resolved"

Held(o) == owner[o] \in {"holding", "waiting", "blocked"}

(* The strong references to the shared state: the WPromise copies, the
   Awaitable of a coroutine that awaits, the shared_from_this of Race's
   Finally, self_owned_ and its copy in OnResolved, and the pointer a call
   of the resolver locks.  The coroutine and the callbacks hold none. *)
Alive ==
    \/ selfOwned
    \/ \E o \in Owners : Held(o)
    \/ \E t \in Threads : pc[t] = "firing" \/ saved[t]
    \/ \E a \in Coroutines : apc[a] \in {"ready", "suspended"}
    \/ \E a \in Racers : apc[a] = "suspended"
    \/ \E w \in Watchers : watch[w] \in {"waiting", "blocked"}

(* Refcount::counter: the promise counts from its construction until the last
   reference to it is dropped. *)
Refcount == IF Alive THEN 1 ELSE 0

(* Awaiters waiting for a call: still registered, or taken by a thread. *)
Pending(a) == apc[a] \in {"suspended", "late"}

(* Mutant: the notification is forgotten. *)
NotifyNobody == UNCHANGED waiterVars

(* cv_.notify_all(): every blocked thread evaluates its predicate again. *)
NotifyAll ==
    /\ owner' = [o \in Owners |->
                    IF owner[o] = "blocked" THEN "waiting" ELSE owner[o]]
    /\ watch' = [w \in Watchers |->
                    IF watch[w] = "blocked" THEN "waiting" ELSE watch[w]]
    /\ UNCHANGED last

------------------------------------------------------------------------------
(* Creation. *)

Init ==
    /\ kind \in Kinds
    /\ resolved = (kind \in {"resolved", "rejected"})
    /\ rejected = (kind \in {"rejected"})
    /\ value = (kind \in {"resolved"})
    /\ exception = (kind \in {"rejected"})
    /\ handle = (kind \in {"coroutine", "resolver"})
    /\ awaiters = <<>>
    /\ useCount = 0
    /\ selfOwned = FALSE
    /\ pc = [t \in Threads |->
                IF t \in Resolves THEN "exchange"
                ELSE IF t \in Rejects THEN "idle"
                ELSE IF handle THEN "running" ELSE "ended"]
    /\ delayed = "none"
    /\ batch = [t \in Threads |-> <<>>]
    /\ saved = [t \in Threads |-> FALSE]
    /\ apc = [a \in Awaiters |-> "idle"]
    /\ id = [a \in Awaiters |-> 0]
    /\ seen = [a \in Awaiters |-> "none"]
    /\ owner = [o \in Owners |-> "holding"]
    /\ watch = [w \in Watchers |-> "idle"]
    /\ last = [w \in Watchers |-> 0]

------------------------------------------------------------------------------
(* The Resolve and Reject handles. *)

(* Where a thread continues after Resolver::Resolve or Resolver::Reject. *)
AfterResolver(t) == IF t = Body THEN "exit" ELSE "returned"

(* Reject::operator(): only the first call reaches the resolver. *)
RejectCall(t) ==
    /\ t \in Rejects
    /\ HasHandles
    /\ pc[t] = "idle"
    /\ pc' = [pc EXCEPT ![t] = IF rejected THEN "returned" ELSE "exchange"]
    /\ rejected' = TRUE
    /\ UNCHANGED <<kind, resolved, value, exception, handleVars, delayed,
                   batch, saved, awaiterVars, waiterVars>>

(* Mutant: a plain store in place of the exchange. *)
WinsAlways == TRUE

(* resolved_.exchange(true): the one caller that read false goes on. *)
Wins == ~resolved

Exchange(t) ==
    /\ pc[t] = "exchange"
    /\ t = Body \/ HasHandles
    /\ pc' = [pc EXCEPT ![t] = IF Wins THEN "claimed" ELSE AfterResolver(t)]
    /\ resolved' = TRUE
    /\ UNCHANGED <<kind, rejected, value, exception, handleVars, delayed,
                   batch, saved, awaiterVars, waiterVars>>

(* Mutant: save_self is not taken. *)
OnResolvedForgets(t) ==
    /\ batch' = [batch EXCEPT ![t] = awaiters]
    /\ awaiters' = <<>>
    /\ selfOwned' = FALSE
    /\ NotifyAll
    /\ UNCHANGED saved

(* OnResolved(lock): unless the coroutine still has to finish, wake the
   waiters, take the awaiters and self_owned_, and unlock. *)
OnResolved(t) ==
    /\ batch' = [batch EXCEPT ![t] = awaiters]
    /\ awaiters' = <<>>
    /\ saved' = [saved EXCEPT ![t] = selfOwned]
    /\ selfOwned' = FALSE
    /\ NotifyAll

(* The rest of Resolve and Reject under the mutex: store, then OnResolved. *)
Settle(t) ==
    /\ pc[t] = "claimed"
    /\ IF t \in Resolves \/ (t = Body /\ delayed = "value")
         THEN value' = TRUE /\ UNCHANGED exception
         ELSE exception' = TRUE /\ UNCHANGED value
    /\ pc' = [pc EXCEPT ![t] = "firing"]
    /\ IF Done
         THEN OnResolved(t)
         ELSE UNCHANGED <<batch, awaiters, saved, selfOwned, waiterVars>>
    /\ UNCHANGED <<kind, resolved, rejected, handle, useCount, delayed,
                   awaiterVars>>

(* One turn of the loop of OnResolved, outside the mutex: resume the next
   coroutine or call the next callback, which reads the outcome. *)
Fire(t) ==
    /\ batch[t] # <<>>
    /\ LET a == Head(batch[t]) IN
         /\ apc' = [apc EXCEPT ![a] = "done"]
         /\ seen' = [seen EXCEPT ![a] = Outcome]
    /\ batch' = [batch EXCEPT ![t] = Tail(batch[t])]
    /\ UNCHANGED <<kind, resolverVars, handleVars, pc, delayed, saved, id,
                   waiterVars>>

(* The end of OnResolved drops save_self; the end of Resolve and Reject drops
   the locked pointer. *)
Return(t) ==
    /\ pc[t] = "firing"
    /\ batch[t] = <<>>
    /\ pc' = [pc EXCEPT ![t] = AfterResolver(t)]
    /\ saved' = [saved EXCEPT ![t] = FALSE]
    /\ UNCHANGED <<kind, resolverVars, handleVars, delayed, batch,
                   awaiterVars, waiterVars>>

------------------------------------------------------------------------------
(* The coroutine. *)

(* co_return: a plain coroutine resolves through final_suspend; one with a
   resolver leaves that to its handles. *)
BodyReturn ==
    /\ pc[Body] = "running"
    /\ IF kind = "coroutine"
         THEN /\ delayed' = "value"
              /\ pc' = [pc EXCEPT ![Body] = "exchange"]
         ELSE /\ pc' = [pc EXCEPT ![Body] = "exit"]
              /\ UNCHANGED delayed
    /\ UNCHANGED <<kind, resolverVars, handleVars, batch, saved,
                   awaiterVars, waiterVars>>

(* unhandled_exception, then final_suspend's Resolver::Reject. *)
BodyThrow ==
    /\ pc[Body] = "running"
    /\ delayed' = "exception"
    /\ pc' = [pc EXCEPT ![Body] = "exchange"]
    /\ UNCHANGED <<kind, resolverVars, handleVars, batch, saved,
                   awaiterVars, waiterVars>>

(* Mutant: the awaiters are left to a Resolve call that is already over. *)
FinalSuspendSilent ==
    /\ pc[Body] = "exit"
    /\ handle' = FALSE
    /\ pc' = [pc EXCEPT ![Body] = "leaving"]
    /\ NotifyAll
    /\ UNCHANGED <<kind, resolverVars, batch, awaiters, saved, selfOwned,
                   useCount, delayed, awaiterVars>>

(* The ScopeExit of final_suspend: one critical section. *)
FinalSuspend ==
    /\ pc[Body] = "exit"
    /\ handle' = FALSE
    /\ pc' = [pc EXCEPT ![Body] = "leaving"]
    /\ IF IsDone
         THEN OnResolved(Body)
         ELSE NotifyAll /\ UNCHANGED <<batch, awaiters, saved, selfOwned>>
    /\ UNCHANGED <<kind, resolverVars, useCount, delayed, awaiterVars>>

Leave ==
    /\ pc[Body] = "leaving"
    /\ batch[Body] = <<>>
    /\ pc' = [pc EXCEPT ![Body] = "ended"]
    /\ saved' = [saved EXCEPT ![Body] = FALSE]
    /\ UNCHANGED <<kind, resolverVars, handleVars, delayed, batch,
                   awaiterVars, waiterVars>>

------------------------------------------------------------------------------
(* The parties that wait.  Each is started by a thread that holds the
   promise through some WPromise. *)

Reachable == \E o \in Owners : owner[o] = "holding"

(* Mutant: the newest awaiter goes first. *)
EnqueueFront(s, a) == <<a>> \o s

(* awaiters_.emplace_back *)
Enqueue(s, a) == Append(s, a)

(* Await: count the registration, wake WaitAwaited, append. *)
Await(a) ==
    /\ useCount' = useCount + 1
    /\ id' = [id EXCEPT ![a] = useCount + 1]
    /\ awaiters' = Enqueue(awaiters, a)
    /\ apc' = [apc EXCEPT ![a] = "suspended"]
    /\ NotifyAll
    /\ UNCHANGED seen

(* The awaiter goes on at once with the outcome of a settled promise. *)
Immediately(a) ==
    /\ apc' = [apc EXCEPT ![a] = "done"]
    /\ seen' = [seen EXCEPT ![a] = Outcome]
    /\ UNCHANGED <<id, useCount, awaiters, waiterVars>>

AwaitReady(a) ==
    /\ a \in Coroutines
    /\ apc[a] = "idle"
    /\ Reachable
    /\ IF IsDone
         THEN Immediately(a)
         ELSE /\ apc' = [apc EXCEPT ![a] = "ready"]
              /\ UNCHANGED <<id, seen, useCount, awaiters, waiterVars>>
    /\ UNCHANGED <<kind, resolverVars, handle, selfOwned, threadVars>>

(* Mutant: await_suspend trusts what await_ready saw. *)
AwaitSuspendUnchecked(a) ==
    /\ a \in Coroutines
    /\ apc[a] = "ready"
    /\ Await(a)
    /\ UNCHANGED <<kind, resolverVars, handle, selfOwned, threadVars>>

AwaitSuspend(a) ==
    /\ a \in Coroutines
    /\ apc[a] = "ready"
    /\ IF IsDone THEN Immediately(a) ELSE Await(a)
    /\ UNCHANGED <<kind, resolverVars, handle, selfOwned, threadVars>>

(* Then, Catch and Finally: run the callback now, or register it. *)
Chain(a) ==
    /\ a \in Continuations
    /\ apc[a] = "idle"
    /\ Reachable
    /\ IF IsDone THEN Immediately(a) ELSE Await(a)
    /\ UNCHANGED <<kind, resolverVars, handle, selfOwned, threadVars>>

(* Race against a promise that is still pending: the same protocol. *)
Race(a) ==
    /\ a \in Racers
    /\ apc[a] = "idle"
    /\ Reachable
    /\ IF IsDone THEN Immediately(a) ELSE Await(a)
    /\ UNCHANGED <<kind, resolverVars, handle, selfOwned, threadVars>>

(* Race against a promise that is already done: only count the use. *)
RaceSkip(a) ==
    /\ a \in Racers
    /\ apc[a] = "idle"
    /\ Reachable
    /\ useCount' = useCount + 1
    /\ apc' = [apc EXCEPT ![a] = "skipped"]
    /\ NotifyAll
    /\ UNCHANGED <<kind, resolverVars, handle, awaiters, selfOwned,
                   threadVars, id, seen>>

(* Mutant: erase(it, end). *)
EraseToEnd(s, i) == SubSeq(s, 1, i - 1)

(* awaiters_.erase(it) *)
Erase(s, i) == RemoveAt(s, i)

(* The Finally that Race puts on the race promise: erase the callback if it
   is still registered, and drop the shared_from_this it captured. *)
UnAwait(a) ==
    /\ a \in Racers
    /\ apc[a] = "suspended"
    /\ \/ \E i \in 1 .. Len(awaiters) :
            /\ awaiters[i] = a
            /\ awaiters' = Erase(awaiters, i)
            /\ apc' = [apc EXCEPT ![a] = "removed"]
       \/ /\ ~Contains(awaiters, a)
          /\ apc' = [apc EXCEPT ![a] = "late"]
          /\ UNCHANGED awaiters
    /\ UNCHANGED <<kind, resolverVars, handle, useCount, selfOwned,
                   threadVars, id, seen, waiterVars>>

------------------------------------------------------------------------------
(* Ownership and blocking waits. *)

(* Under "join" an owner that chained continuations waits for the promises
   they returned, which settle when the callbacks have run. *)
MayLetGo ==
    Policy = "join" => \A a \in Continuations : ~Pending(a)

(* ~WPromise: release a promise that IsDone, else go into WaitDone. *)
Destroy(o) ==
    /\ owner[o] = "holding"
    /\ MayLetGo
    /\ owner' = [owner EXCEPT ![o] =
                    IF Policy = "destructor" /\ IsDone THEN "released"
                                                       ELSE "waiting"]
    /\ UNCHANGED <<kind, resolverVars, handleVars, threadVars, awaiterVars,
                   watch, last>>

(* The predicate of WaitDone, evaluated under the shared lock. *)
WaitDone(o) ==
    /\ owner[o] = "waiting"
    /\ owner' = [owner EXCEPT ![o] =
                    IF Finished THEN "released" ELSE "blocked"]
    /\ UNCHANGED <<kind, resolverVars, handleVars, threadVars, awaiterVars,
                   watch, last>>

(* Mutant: the reference is dropped in place of being moved. *)
DetachForgets(o) ==
    /\ owner[o] = "holding"
    /\ ~IsDone
    /\ owner' = [owner EXCEPT ![o] = "released"]
    /\ UNCHANGED <<kind, resolverVars, handleVars, threadVars, awaiterVars,
                   watch, last>>

(* Mutant: a done promise is made its own owner, too. *)
DetachLate(o) ==
    /\ owner[o] = "holding"
    /\ selfOwned' = TRUE
    /\ owner' = [owner EXCEPT ![o] = "released"]
    /\ UNCHANGED <<kind, resolverVars, handle, awaiters, useCount, threadVars,
                   awaiterVars, watch, last>>

(* Detach of a pending promise; a done one stays with its owner. *)
Detach(o) ==
    /\ owner[o] = "holding"
    /\ ~IsDone
    /\ selfOwned' = TRUE
    /\ owner' = [owner EXCEPT ![o] = "released"]
    /\ UNCHANGED <<kind, resolverVars, handle, awaiters, useCount, threadVars,
                   awaiterVars, watch, last>>

(* WaitAwaited(count), with the caller's count or the current one. *)
WaitAwaited(w) ==
    /\ watch[w] = "idle"
    /\ Reachable
    /\ \E count \in {0, useCount} :
         /\ last' = [last EXCEPT ![w] = count]
         /\ watch' = [watch EXCEPT ![w] =
                         IF useCount > count THEN "done" ELSE "blocked"]
    /\ UNCHANGED <<kind, resolverVars, handleVars, threadVars, awaiterVars,
                   owner>>

(* The predicate of WaitAwaited, evaluated again after a notification. *)
Awaited(w) ==
    /\ watch[w] = "waiting"
    /\ watch' = [watch EXCEPT ![w] =
                    IF useCount > last[w] THEN "done" ELSE "blocked"]
    /\ UNCHANGED <<kind, resolverVars, handleVars, threadVars, awaiterVars,
                   owner, last>>

------------------------------------------------------------------------------

ThreadStep(t) == Exchange(t) \/ Settle(t) \/ Fire(t) \/ Return(t)

BodyStep == BodyReturn \/ BodyThrow \/ FinalSuspend \/ Leave

AwaiterStep(a) ==
    \/ AwaitReady(a) \/ AwaitSuspend(a)
    \/ Chain(a)
    \/ Race(a) \/ RaceSkip(a) \/ UnAwait(a)

OwnerStep(o) == Destroy(o) \/ WaitDone(o) \/ Detach(o)

WatcherStep(w) == WaitAwaited(w) \/ Awaited(w)

Next ==
    \/ \E t \in Rejects : RejectCall(t)
    \/ \E t \in Threads : ThreadStep(t)
    \/ BodyStep
    \/ \E a \in Awaiters : AwaiterStep(a)
    \/ \E o \in Owners : OwnerStep(o)
    \/ \E w \in Watchers : WatcherStep(w)

Spec == Init /\ [][Next]_vars

(* Running threads are scheduled: user code ends and calls the handles it
   was given, a coroutine between await_ready and await_suspend goes on, and
   a notified thread evaluates its predicate.  Nobody is made to await, to
   unregister, to detach or to destroy. *)
Fairness ==
    /\ \A t \in Resolves : WF_vars(ThreadStep(t))
    /\ \A t \in Rejects : WF_vars(RejectCall(t) \/ ThreadStep(t))
    /\ WF_vars(BodyStep \/ ThreadStep(Body))
    /\ \A a \in Coroutines : WF_vars(AwaitSuspend(a))
    /\ \A o \in Owners : WF_vars(WaitDone(o))
    /\ \A w \in Watchers : WF_vars(Awaited(w))

FairSpec == Spec /\ Fairness

------------------------------------------------------------------------------
(* Correctness. *)

(* Types; and the loops of OnResolved belong to threads that are in one. *)
TypeOK ==
    /\ kind \in AllKinds
    /\ resolved \in BOOLEAN
    /\ rejected \in BOOLEAN
    /\ value \in BOOLEAN
    /\ exception \in BOOLEAN
    /\ handle \in BOOLEAN
    /\ awaiters \in Seq(Awaiters)
    /\ useCount \in Nat
    /\ selfOwned \in BOOLEAN
    /\ pc \in [Threads -> {"idle", "exchange", "claimed", "firing",
                           "returned", "running", "exit", "leaving", "ended"}]
    /\ delayed \in {"none", "value", "exception"}
    /\ batch \in [Threads -> Seq(Awaiters)]
    /\ saved \in [Threads -> BOOLEAN]
    /\ apc \in [Awaiters -> {"idle", "ready", "suspended", "done",
                             "skipped", "removed", "late"}]
    /\ id \in [Awaiters -> Nat]
    /\ seen \in [Awaiters -> {"none", "resolved", "rejected"}]
    /\ owner \in [Owners -> {"holding", "waiting", "blocked", "released"}]
    /\ watch \in [Watchers -> {"idle", "waiting", "blocked", "done"}]
    /\ last \in [Watchers -> Nat]

(* The asserts of Resolver::Resolve and Resolver::Reject: whoever reaches the
   store finds neither a value nor an exception, and nobody else is on the
   way there, however many calls and a throwing coroutine race. *)
OneWinner ==
    \A t \in Threads : pc[t] = "claimed" =>
        /\ ~IsDone
        /\ \A u \in Threads : pc[u] = "claimed" => u = t

(* A registered awaiter is called exactly once: it sits in exactly one place
   among awaiters_ and the vectors that OnResolved swapped it into, and an
   awaiter that was resumed, called or unregistered sits in none. *)
AwaiterAccounted ==
    /\ \A a \in Awaiters :
          Pending(a) <=> \/ Contains(awaiters, a)
                         \/ \E t \in Threads : Contains(batch[t], a)
    /\ \A a \in Awaiters, t \in Threads :
          Contains(batch[t], a) =>
              /\ ~Contains(awaiters, a)
              /\ \A u \in Threads : Contains(batch[u], a) => u = t
    /\ IsInjective(awaiters)
    /\ \A t \in Threads : IsInjective(batch[t])

(* No awaiter is left behind: once the promise is settled and its coroutine
   has finished there is nobody in awaiters_, where no one would look again. *)
NoneStranded == Finished => awaiters = <<>>

(* Awaiters run in the order of their registration, whichever thread runs
   them: none is called while an earlier one waits. *)
RegistrationOrder ==
    \A a, b \in Awaiters :
        /\ id[a] # 0 /\ id[b] # 0 /\ id[a] < id[b]
        /\ apc[b] = "done"
        => ~Pending(a)

(* No thread sleeps on cv_ while what it waits for is true: every change of
   a predicate of WaitDone and WaitAwaited is notified. *)
NoLostWakeup ==
    /\ \A o \in Owners : owner[o] = "blocked" => ~Finished
    /\ \A w \in Watchers : watch[w] = "blocked" => useCount <= last[w]

(* assert(promise) in the resolver: the winning call locks a live promise,
   although neither the Resolve nor the Reject handle owns it. *)
ResolverFindsPromise == \A t \in Threads : pc[t] = "claimed" => Alive

(* The asserts of ~Promise and ~Handle: the promise is not destroyed before
   its coroutine, which keeps a raw parent_ pointer, has left final_suspend's
   critical section, nor before it has settled. *)
CoroutineFindsPromise == handle \/ ~IsDone => Alive

(* "We must not use self anymore": a callback reads the promise through the
   raw this it captured, so the promise must outlive the loop that calls it.
   (Said of continuations: nobody can wait for the callback of a race that is
   decided, and one that UnAwait came too late for may find nothing.) *)
CallbackFindsPromise ==
    \A t \in Threads :
        batch[t] # <<>> /\ Head(batch[t]) \in Continuations => Alive

(* Nobody is in a call on the promise, and nobody holds a WPromise of it. *)
Abandoned ==
    /\ \A o \in Owners : owner[o] = "released"
    /\ \A t \in Threads : pc[t] \notin {"firing", "leaving"}
    /\ \A a \in Coroutines : apc[a] # "ready"
    /\ \A w \in Watchers : watch[w] \notin {"waiting", "blocked"}

(* What Memcheck asserts when the program ends: a promise that has finished
   and that everybody has let go of is gone.  A Detach that meets the end of
   the promise must not make it its own owner for ever, whoever fires must
   take it back, and no awaiter may be left with a reference. *)
NoLeak == Finished /\ Abandoned => Refcount = 0

(* The promise implements its contract: it settles once, and each awaiter is
   told the one outcome, once, after it settled. *)
Contract == INSTANCE PromiseContract WITH
    outcome <- IF exception THEN "rejected"
                            ELSE IF value THEN "resolved" ELSE "pending",
    delivered <- seen

ImplementsContract == Contract!Spec

(* Every coroutine, continuation and race callback that waits is eventually
   served: each of them waits once, so that there comes a time when nobody
   waits. *)
EveryAwaiterServed ==
    (\E a \in Awaiters : Pending(a)) ~> (\A a \in Awaiters : ~Pending(a))

(* Every destructor that waits eventually returns, and so does WaitAwaited
   once there has been a registration after its count. *)
EveryWaitEnds ==
    /\ \A o \in Owners : (owner[o] = "waiting") ~> (owner[o] = "released")
    /\ \A w \in Watchers :
          watch[w] \in {"waiting", "blocked"} /\ useCount > last[w]
              ~> watch[w] = "done"

==============================================================================
