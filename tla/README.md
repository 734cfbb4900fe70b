# A verification of JSProCpp

JSProCpp is a C++ library of JavaScript-like promises on top of coroutines:
`WPromise<T>` is an owning handle on a shared promise state, which a coroutine,
or the `Resolve` and `Reject` handles, settle from any thread, and which other
coroutines (`co_await`), continuations (`Then`, `Catch`, `Finally`) and threads
(`WaitDone`, `WaitAwaited`) wait for. A mutex, a condition variable and a
two-stage state object are built from promises.

This directory holds TLA+ models of the library's concurrency, the TLC
configurations that check them and TLAPS proofs of what matters most.
`PROJECT.json` maps every definition to the lines it models and lists the runs,
the mutants that show each property can fail, the hazards of the code, the
findings and the theorems. Paths below are relative to the repository.

## 1. The system and its parts

| Part | State | Operations | What makes it hard |
|---|---|---|---|
| `Handle`, `Resolver`, `details::Promise` (`include/promise/details/{Handle,Resolver,Promise}.inl`) | `mutex_`, `cv_`, `handle_`, `awaiters_`, `use_count_`, `self_owned_`; `resolved_`, `exception_`, the value | settle (`Resolve`, `Reject`, `co_return`, throw), `OnResolved`, `final_suspend`, `Await`, `UnAwait`, `Then`/`Catch`/`Finally`/`Race`, `WaitDone`, `WaitAwaited`, `Detach` | several threads settle; two of them may be the one that has to run the awaiters; awaiters run outside the lock; the coroutine and the continuations hold raw pointers |
| `WPromise` (`details/WPromise.inl`) | a shared pointer to the above | copy, move, destroy (blocks), `Detach`, forwarding; the queries `Done`, `Resolved`, `Rejected`, `Value`, `Exception`, `Awaiters`, `UseCount` | its destructor decides when the shared state ends; queries take a `shared_mutex` that callers may already hold |
| `Mutex`, `LockGuard` (`src/Mutex.cpp`) | `promise_`, `resolve_`; `own_lock_`, `mutex_` | `Lock`, `UnLock`, guard moves, assignment, destruction | a chain of promises, each resolved by the previous holder |
| `CVPromise` (`src/CVPromise.cpp`) | `promise_`, `resolve_`, `reject_` | `Wait`, `Wait(lock)`, `Notify`, `Reject`, destruction | a notification between the unlock and the wait; concurrent swaps |
| `StatePromise` (`src/StatePromise.cpp`) | a ready and a done promise | five waits, `Ready`, `Done`, `Reset`, destruction | waiters run inside the calls that resolve them, and call back |
| `All`, `Race`, `MakePromise` (`details/helpers.inl`) | `All`: a coroutine and the promises it captured; `Race`: a promise and a chain of `Finally` stages | combine promises | losers must be unregistered while they settle; a failed `All` waits, on the thread of the rejected member, for members it never awaits |
| `Pool`, `MessageQueue`, `Proxy` (`include/promise/Pool.h`, ...) | a queue in the external base `::Pool` | `Dispatch`, `Ensure`, `Stop` | stop against dispatch; a worker that waits in `WaitAwaited` for its caller; coroutines change threads |
| `Memcheck` (`core/Memcheck.h`) | `Refcount::counter` | counts promises, asserts zero at the end of `main` | a promise that owns itself and is never taken back |
| `VPromise`, `concepts`, explicit instantiations | none | compile-time | - |

Interactions: everything above the first row is built on the first row and sees
it as `PromiseContract`: it settles once, and every awaiter is told the outcome
once, after it settled. A resolver call runs the awaiters before it returns
(callbacks and resumed coroutines are executed by the resolving thread), which
is how control passes between components: `Mutex::UnLock` resumes the next
holder, `CVPromise::Notify` the waiters, which call `LockGuard::Lock` again.

## 2. Modules

| Module | Role |
|---|---|
| `PromiseContract` | abstract specification of one promise |
| `PromiseCore` | one promise in detail, every thread that works on it |
| `PromiseCoreProofs` | types, one winner, wake-ups, exactly-once, refinement; lifetime and end of the shared state, order of the awaiters |
| `PromiseLock` | the `shared_mutex` of one promise, taken apart into its steps, with the queries |
| `PromiseLockProofs` | its proofs |
| `AsyncMutex` | `Mutex` and `LockGuard` |
| `AsyncMutexProofs` | its proofs |
| `CVMonitor` | `CVPromise` composed with `AsyncMutex` as a monitor |
| `CVMonitorProofs` | its proofs, on top of those of `AsyncMutex` |
| `StatePromise`, `MCStatePromise` | `StatePromise` with re-entrant waiters |
| `StatePromiseProofs` | its proofs |
| `PromiseChain`, `MCPromiseChain` | trees of `Then`, `Catch` and `Finally` stages |
| `PromiseChainProofs` | its proofs |
| `Combinators`, `MCCombinators` | `All` and `Race` over promises that they share |
| `CombinatorsProofs` | its proofs |
| `PromisePool` | `Pool` and `MessageQueue`, and the coroutines that move to their threads |
| `PromisePoolProofs` | its proofs |

### PromiseCore

One action is one critical section of `Handle::mutex_` (or one atomic exchange,
or one turn of the loop that runs awaiters); everything between two of them is
interleaved.

- *Settling.* A call passes `RejectCall` (`Reject::rejected_`), `Exchange`
  (`Resolver::resolved_`), and, if it won, `Settle`: the store and `OnResolved`
  under the mutex. `OnResolved` does nothing while the coroutine's handle is
  set; else it notifies, swaps `awaiters_` into a local vector (`batch`), moves
  `self_owned_` into `save_self` (`saved`), and unlocks. `Fire` then runs one
  awaiter per step, and `Return` ends the call.
- *The coroutine.* `BodyReturn` and `BodyThrow` lead to `final_suspend`, which
  settles through the same resolver and whose `ScopeExit` (`FinalSuspend`)
  clears the handle and runs the awaiters if the promise is settled.
- *Awaiters.* `AwaitReady`/`AwaitSuspend` are the two halves of `co_await`;
  `Chain` and `Race` run the callback at once or register it; `RaceSkip` is the
  race that is already decided; `UnAwait` is what a decided race does to its
  losers. What a callback does with the outcome is not part of this module.
- *Owners.* `Destroy` and `WaitDone` are `~WPromise`, `Detach` gives the promise
  to itself. `Alive` lists the strong references the code holds: the owners, the
  `Awaitable` in the frame of an awaiting coroutine, `shared_from_this` in
  `Race`, `self_owned_` and `save_self`, and the pointer the resolver locks.
  `final_suspend` and the callbacks hold none.
- `Policy` is what users do before they let go of a promise: rely on the
  destructor, call `WaitDone()`, or also wait for the promises their
  continuations returned.
- `Refcount` is what `Memcheck` counts for this promise, and `NoLeak` what it
  asserts at the end of the program.

### PromiseLock

The other modules take a critical section for one step. Here a thread asks for
`Handle::mutex_` (`LockShared`; `Ask`, then `LockExclusive`), holds it, and lets
go of it in the step that does the work: `Query` (the five queries and
`Awaiters`), `WaitDone` and `WaitAwaited` (which block, and start again at the
lock when notified), `Store` (the resolver with `OnResolved`), `Clear` (the
`ScopeExit` of `final_suspend`) and `Register` (`await_suspend`, and `Then`,
`Catch`, `Finally`). `Exchange` is `Resolver::resolved_`. `Load` is what is read
without the lock: the atomic `use_count_`, and the plain `value_is_set_` in the
operator bool of `Resolve<void>`. On a settled `void` promise `Then` with a
promise function, and `Finally`, call the function under the shared lock they
took after letting go of the exclusive one: `CallFunction` is what that function
calls on the promise (`Nested`), `EndFunction` its end. `Awaiters` of the wrapper
locks, and calls `Awaiters` of the promise, which locks again (`again`).

A `std::shared_mutex` is external: many shared holders or one exclusive one.
`WritersFirst` is the implementation's choice to let new readers wait behind a
waiting writer. `kind` is how the promise was made: a coroutine that returns its
value, one with handles (`MakePromise` of a function of `Resolve` and `Reject`),
or handles alone (`Create`). `seen` is what the answers so far let a caller
conclude, `last` the use count it remembers.

### AsyncMutex

Promise `n` is the one the `n`-th call of `Mutex::Lock` puts into `promise_`.
`Lock` is `LockGuard::Lock` with the first half of `Mutex::Lock`, `Acquire` its
second half, `Grant` the end of its coroutine. `UnLock` clears `resolve_` in one
critical section; `Release` calls the resolver, and `Return` is the rest of
whichever method called it (`Unlock`, `~LockGuard`, or the assignment, which only
then takes the other guard's state). The coroutine that the resolver resumed may
use the other guard in between. `Trust` says when users give a guard up: once
its `Lock()` was granted, or whenever `OwnsLock()` is true.

### CVMonitor

Extends `AsyncMutex`. Consumers hold the lock, look at a flag and call
`Wait(lock)`: `Check` copies `promise_`, `WaitUnlock` and `WaitReleased` are the
unlock, `Wake` the continuation that locks again. Producers set the flag under
the lock, leave it and `Notify`; enders `Reject`. Users, flag and roles are the
environment (the documented use of the pair); rounds number the promises that go
through `promise_`.

### StatePromise

The object has no lock and is used by one thread. A call that resolves a promise
becomes a frame on `stack` with the waiters it has to run; between two of them
the resumed waiter may call the object again (`Reentrant` says what). `byReady`
is history: the ready promises that `Ready()` itself resolved. Waiters of one
promise run in any order here, registration order being `PromiseCore`'s subject.
`Overtaken` is a waiter that a call further out on the stack has still to run:
the innermost call was made from inside that one and may get to it first.

### PromiseChain

Promise 0 is the root; each stage is attached to the root or to another stage
with a *form*: the operation, a plain or a promise-returning function, whether
it throws, whether a typed `Catch` matches, `&` or `&&`, and a `void` result.
An outcome is a value or an exception together with the promise that produced
it, so that a `Finally` or a passed-over stage can be seen to hand on what it
got.

A thread is the stack of the library calls it is in. `Attach` is the call of
`Then`, `Catch` or `Finally`: under the mutex it registers the stage or finds
the promise settled, and then runs the stage itself (`Enter`). What becomes of a
stage is written twice in the code, for a promise that has settled and for the
callback of one that has not, and so it is here: `ThenNow` and `ThenLater`,
`CatchNow` and `CatchLater`, `FinallyNow` and `FinallyLater` say whether the
function is called, and the results likewise; `eager` remembers which of the two
called the function. `Settle` is a
resolver call: it stores the outcome, takes the awaiters and becomes a frame
that runs them one by one (`Fire`), each inside the one before, as deep as the
chain goes. `Return` ends a function, `Suspend` leaves its coroutine behind, and
`Resume` ends that on another thread. `Attached` is the return to the user, with
the `Detach` of the `&&` overloads. Functions may attach stages themselves.
`Locked` is the shared lock that the eager `Then` (promise function) and
`Finally` keep on a `void` promise while they call the function.

The inner promise of a promise-returning function and the `Then(...).Catch(...)`
that forwards its outcome are one step; that settling a coroutine's promise and
running its awaiters are two is `PromiseCore`'s subject.

### Combinators

Each member promise is settled by a thread of its own (`Settle`, which waits to
be awaited if the member is `Lazy`, as those of `Pool::Dispatch()` are), which
then calls the awaiters it took (`FireAll`, `FireRace`). `AllAwait` is one
`co_await` of `All`: over arguments the order is unspecified, so `order` is any.
`AllReturn` or a rejected member settles it; `AllClear` is the rest of
`final_suspend`, where `function_` and with it the captured promises are
destroyed, each of them waiting until it is done. That thread is not `Free`
meanwhile.

The call of `Race` deals with one of its arguments (`Contestants`) after the other: `Test` looks
whether the race is decided, `Join` uses the outcome of a settled contestant or
registers the callback, `Attach` appends the `Finally` that unregisters it
again. A callback passes its outcome to the resolver (`Claim`), which takes the
first; `SettleChain` settles one promise of the chain and takes its `Finally`,
`UnAwait` is that function. `carry` and `unawait` are the thread's position in
this recursion.

### PromisePool

A coroutine is on a thread (`at`): its own, a worker that resumed it, or the
thread that called the handles a callback kept. `Dispatch` creates the promise
and gives the function to `::Pool`, or rejects it if that is stopped; every
overload of `Dispatch` and `Ensure` is one of `Switches` (no function),
`Functions` and `Callbacks`, and one with a duration or a time point is
`Delayed` until it is `Due`. A worker takes a function (`Take`), waits for a
switch to be awaited (`Awaited`), settles (`Resolve`, `Call`), returns from a
callback (`Leave`), and resumes the awaiters (`Resume`), each of which keeps the
thread until it suspends or ends. A callback may pass its handles on (`Pass`) and
go on: from then on whoever got them may settle the promise while the callback
still runs, calls them too or throws, and the first of them wins. `Await` is
`co_await`, `Drop` and `WaitDone` a destructor or a blocking wait. `::Pool` is
external: a queue that refuses functions once it is stopped and still runs those
it accepted. That it refuses a function and that `Dispatch` then rejects the
promise is one step, for nobody else knows that promise yet.

`Careful` is how the documentation uses the class: `Dispatch()` is awaited on the
spot, and only threads outside the pool block.

## 3. Runs

| Run | Checks | Result |
|---|---|---|
| `PromiseCore` | types, one winner, nobody stranded, no lost wake-up, exactly-once, registration order, no use after the end, nothing left of it at the end, refinement of `PromiseContract`, progress of awaiters and waits | holds |
| `PromiseCoreDestructor` | the coroutine finds its promise when owners rely on `~WPromise` | violated |
| `PromiseLock` | no data race, no thread locks twice, answers stay true, every call returns | holds |
| `PromiseLockAwaiters` | every call returns when `Awaiters()` is one of them | violated |
| `AsyncMutex` | exclusion, both assertions, moves, FIFO, progress | holds |
| `CVMonitor` | no notification lost, rounds, progress | holds |
| `StatePromise` | with waiters that call `Ready` and `Done` again: `Done` unblocks all, `Reset` forgets nobody, `WaitWithReject` tells the two apart | holds |
| `StatePromiseDestructor` | `WaitWithReject` resolves only if `Ready` was called, the destructor included | violated |
| `PromiseChain` | outcomes as of `try`/`catch`/`finally`, functions called once, no stage lost, progress | holds |
| `PromiseChainArgument` | the value a `Then` function refers to lives as long as the function | violated |
| `Combinators` | `All` has the right outcome, one winner of the race, no callback left behind, progress | holds |
| `PromisePool` | every dispatch is accepted or refused, `Dispatch()` ends on a worker of its own, progress | holds |

The violated runs are the findings of `PROJECT.json`; each quotes the line of
the documentation or the assertion that the code disagrees with. Each is as small
as its counterexample allows: one owner and a coroutine; one waiter; a reader and
a writer; one stage.

What a passing run leaves out is a constant of its module, so that further
limits of the code can be seen by changing the value:

- `PromiseCore` with `Policy = "waitDone"`: `CallbackFindsPromise` fails. An
  owner that calls `WaitDone()` and lets go may free the promise while the
  callbacks of its continuations, which hold a raw `this`, are still called;
  waiting for the promises the continuations returned closes the gap.
- `AsyncMutex` with `Trust = "ownsLock"`: `MutualExclusion` and `MutexAssertions`
  fail. `OwnsLock()` is true from the call of `Lock()` on, and a guard that is
  given up before its lock was granted releases somebody else's.
- `StatePromise` with `"reset"` in `Reentrant`: `NoneForgotten` fails. A waiter
  that calls `Reset` from inside `Done()` replaces a ready promise that is not
  resolved yet, against `assert(ready_promise_.Resolved())`, and who waits for it
  waits for ever. Without `Overtaken` in them, `VoidMeansReadyFirst` and
  `EndMeansDoneFirst` fail: a waiter that `Ready()` resumes and that calls
  `Done()` lets those that `Ready()` has not got to yet be rejected with `End`.
- `PromiseLock` with `"Bool"` in `Ops`: `NoDataRace` fails, the operator bool of
  `Resolve<void>` reads a plain `bool` that a resolving thread writes. With
  `"Done"` in `Nested`: `LocksOnce` and `EveryCallReturns` fail, a function that
  `Then` or `Finally` runs under the lock must not ask the same promise.
- `PromisePool` with `Careful = FALSE` and one worker: `EveryDispatchSettles`
  fails, the worker waits to be awaited by a coroutine that waits for the
  worker.
- `Combinators` with `Contestants = <<3>>`: `AllSettles` fails. Nobody awaits the lazy
  member when `All` was rejected before it came to it, the destruction of the
  captured promises waits for it, and its worker waits to be awaited:
  `All(failing, pool.Dispatch())` hangs. In the run, `Race` counts member 2 as
  awaited. Nor may one thread settle two members of `All`: if the first is
  rejected, it blocks inside that call, before it settles the second.

Bounds. `PromiseCore` has a resolving call, a rejecting call and a coroutine
that race, which is every pair of settling threads; one awaiter of each sort, so
that two are in different vectors, one is in front of another and a race
callback is unregistered in front of and behind others; an owner and a thread in
`WaitAwaited`. More owners and continuations are left to the proofs. The
`AsyncMutex` run has three guards and five `Lock` calls: a holder, a waiter and
a third guard to move into, with locks to spare for each to lock again.
`CVMonitor` has two consumers, two producers and one ender, hence three rounds
and at most six locks (each of four users once, and each consumer once more).
`StatePromise` has three waiters and two resets, so that a waiter of an old
promise, of the current one and a third that is resumed in between coexist, and
calls three deep: `Done` inside `Done` inside `Ready`. `PromiseChain` has three
stages, every tree of which occurs, so that an outcome passes a stage between
the one that produced it and the one that handles it; its six forms have each
operation with a plain and a promise-returning function, one of the two throwing
in `Then` and in `Finally`, and a `Catch` that does not match; the threads are
one user, the settler of the root and one per suspended function, and all of
them attach. `PromiseLock` has two users with two calls each, so that a
conclusion from two answers, a remembered use count and a call inside a function
occur, and the coroutine as a third thread, over all three kinds of promise: a
reader, a waiting writer and a holder meet. `Combinators` has three members: two
that `All` and `Race` share, so that a callback of one is registered in front of
and behind the other's, one of them lazy, and a third contestant that need not
settle, so that there are losers before and after the winner. `PromisePool` has
two workers and two coroutines, so that one worker can hold a coroutine while
the other must go on, two switches (one delayed), so that jobs overtake each
other, and one callback, which settles its promise itself or passes its handles
on and returns, calls them or throws; `Functions` is empty, for a function is a
callback that does not pass its handles on. `N` bounds the stages; `MaxCalls`,
`MaxLocks`, `MaxRounds`, `MaxResets` and `MaxDepth` are the other bounds in
guards.

Deadlock is checked in `AsyncMutex` and `CVMonitor` (whose end is the explicit
stuttering action `Over`). It is off for `PromiseCore`, where every party acts
once and the system stops when all are done, or when a promise that nobody
settles leaves its awaiters waiting, for `StatePromise`, which ends with the
destructor, for `PromiseChain`, which ends when all stages have settled, and for
`PromiseLock`, `Combinators` and `PromisePool`, whose users stop after their last
call; there progress is stated by the liveness properties and by
`DoneUnblocksAll`. In the violated runs it is off too: they look for one violation.

Symmetry is used in the safety run `StatePromise`, over waiters, which no
definition tells apart.

Fairness. `PromiseCore!Fairness` makes running threads go on: user code ends and
calls its handles, a thread in a resolver call finishes it, a coroutine between
`await_ready` and `await_suspend` continues, a notified thread re-evaluates its
predicate. Nobody is made to await, unregister, detach or destroy. The handles
are called in the end: a promise that is never settled keeps everybody waiting,
by design. In `AsyncMutex` whoever was granted the lock gives it up in the end,
and coroutines that can go on are resumed (the resolver's thread runs them). In
`CVMonitor` every user's coroutine goes on when it can; the object need not be
destroyed. In `PromiseChain` the root is settled, functions end and library
calls go on; nobody has to attach anything. In `PromiseLock` a thread inside a
call goes on; that a thread gets the lock in the end follows from the finite
number of calls. In `Combinators` threads go on and the work behind a member ends
unless it is `Stuck`. In `PromisePool` workers go on, time passes, functions end,
kept handles are called and coroutines come to their end; nobody has to dispatch
or to stop the pool. Weak fairness suffices everywhere.

## 4. Proofs

TLAPS proves, for all values of the constants (any number of threads, awaiters,
owners, guards and locks):

*PromiseCore* (`PromiseCoreProofs`). `TypeCorrect`; `OneWinnerHolds`;
`NoLostWakeupHolds`; `NoneStrandedHolds`; `AwaiterAccountedHolds`;
`ContractHolds`, the refinement of `PromiseContract`. The inductive invariant
has three parts. `SettleInv` ties the flags to the program counters: the promise
has no outcome until the one thread that is "claimed" has stored it, the handle
is set exactly while the coroutine is before its `ScopeExit`. Without it a
second winner cannot be excluded. `BatchInv` says that only threads inside
`OnResolved` own a vector and that awaiters are registered only while somebody
is still to come who will run them; from it follow exactly-once and that nobody
is stranded. `SeenInv` relates what awaiters were told to the outcome, which the
refinement needs: a step of the loop must map to `Deliver` of the abstract
promise and never to a second one.

*Lifetime* (`PromiseCoreProofs`, second part). With owners that call `WaitDone()`
(`Policy # "destructor"`) the shared state outlives its coroutine
(`CoroutineFindsPromiseHolds`) and the winning resolver call
(`ResolverFindsPromiseHolds`); with owners that also join their continuations it
outlives the loop that calls these (`CallbackFindsPromiseHolds`; the callback of a
race that was decided too late to unregister it is something nobody can join).
`OwnedInv` and `CallbackInv` say who still holds a reference in each phase. The
hypotheses are needed: the run `PromiseCoreDestructor` drops the first, and
`Policy = "waitDone"` the second. `RegistrationOrderHolds` needs the order of
ids within and across the vectors.
`NoLeakHolds` has no hypothesis about the owners: once the promise has finished
and nobody is in a call on it, the shared state is gone. Its `LeakInv` says that
a promise owns itself (`Detach`) only while it is unfinished or while a thread
that will take the reference back has not passed `OnResolved`.

*PromiseLock* (`PromiseLockProofs`). `LockTypeCorrect`, `NoDataRaceHolds` (if
nobody calls the operator bool), `LocksOnceHolds` (if nobody calls `Awaiters()`
and functions under the lock ask for the use count only), `AnswersHoldAlways`,
`AssertionsHoldAlways` and `NoneLeftBehindHolds`, for any number of threads and
calls. `LockInv` counts the shared locks of a thread by where it is and says that
the writer is the thread that writes; the type invariant needs it, for a thread
that let go of a lock it does not have would make its count negative. `ControlInv`
says which call may be at which place. `AnswerInv` says that at most one thread
is past the exchange and before its store, and that value and exception exclude
each other; from it follow the answers, which no later step may make false, and
the assertions.

*AsyncMutex* (`AsyncMutexProofs`). `TypeCorrect`, `MutualExclusionHolds`,
`MutexAssertionsHold` (both assertions of the code), `HeldByOneGuardHolds` and
`FifoHolds`, the last four under `Trust = "granted"`. `ChainInv` describes the
chain as it is at any time: a prefix of released locks whose promises are
settled up to the last one or one that `UnLock` still carries, at most one
holder, and waiters behind it; `GuardInv` says that a lock in use belongs to
exactly one guard, moves included.

*PromisePool* (`PromisePoolProofs`). `PoolTypeCorrect`, `AcceptedOrRefusedHolds`
and `OnPoolThreadHolds`, also without `Careful`. `JobInv` and `QueueInv` say that
a function is queued once or in the hands of one thread (a callback that passed
its handles on may have left its promise to another), whose place tells the state
of its promise; they are inductive together, for a worker takes from the
queue what nobody else has. `SwitchInv` is the argument for the second theorem: a
promise that has not been awaited is held by one coroutine, and the worker behind
`Dispatch()` does not resolve it before it is awaited, so that whoever comes to
await it cannot find it resolved.

*CVMonitor* (`CVMonitorProofs`). `RoundsSettledTheorem` (with it the code's
`assert(old_promise.Done())`) and `NoNotificationLostTheorem`, for any number of
users, rounds and locks. `RoundsInv` numbers the promises that go through
`promise_`: what a call is settling has left it, what has not been there is
pending, and no consumer holds a round to come. Neither theorem says anything
about the mutex. `MonitorUsesMutex` does: every step of the monitor is a step of
`AsyncMutex` or leaves it alone (`MSpec => Spec`), so that the theorems above hold
inside the monitor. From it follow, under `Trust = "granted"`,
`MonitorExclusionTheorem` (one user at a time is between `Lock` and `Unlock`,
which is what makes the flag safe to read and write) and
`MonitorMutexAssertions`.

*StatePromise* (`StatePromiseProofs`). `NoneForgottenTheorem`,
`DoneUnblocksAllTheorem`, `VoidMeansReadyTheorem` and `EndMeansDoneFirstTheorem`
hold for waiters that wait again or call `Ready()` and `Done()` from inside a call,
to any depth, but not `Reset()`, with which they fail (section 3). `StateInv` says
that `ready_was_done` is still true when `Done()` uses it, that a resolved `done`
beside a pending `ready` has a `Done()` on the stack that will resolve it, and that
whoever waits for a resolved promise is in the batch of the call that resolved it.
The last part is also the argument about `WaitWithReject`: a waiter that hears of
one promise while the other has been resolved is in the batch of a call further
out, and so overtaken. `RaceInv` adds that the batch of `Ready()` waits for what
`Ready()` resolved, that the second half of `Done()` comes after the first, and
that the promises of a pair are replaced together.

*PromiseChain* (`PromiseChainProofs`). `OutcomeExplainedTheorem`,
`CalledOnceTheorem` and `NoStageLostTheorem`, for any number of stages, forms and
threads, without a hypothesis beyond `ChainAssumption`. The invariant has five
parts beside the types. `TreeInv`: a stage hangs below an older promise and runs
only when that one has settled. `StageInv`: the number of calls and the outcome
of a stage follow from its place and from the outcome of the promise above it.
It says so with one reference definition (`Due`, `Result`), to which `NowFacts`
and `LaterFacts` compare what the two branches of the code do.
`AwaitersInv`, `StackInv` and `FoundInv`: a list of awaiters, or the batch of an
`OnResolved`, holds stages that wait for that promise, each once; a promise calls
its callbacks, and a stage its function, in one place of one stack; and a waiting
stage is in one of them. Without the uniqueness of frames a callback could be
called by two threads, and `CalledOnce` would not follow. `SettleMove` and
`CallMove` treat the two things that happen to a promise once for all the
actions that do them. `OutcomeExplained` speaks of the recursive `Lineage`: that
the recursion has a solution (`LineageExists`) and that every outcome is
explained (`AllFrom`) are shown by least counterexample, from the
well-foundedness of the natural numbers.

*Combinators* (`CombinatorsProofs`). `AllOutcomeTheorem`, `OneWinnerTheorem` and
`NoLoserRegisteredTheorem`, for any number of members and contestants, members of
both included. `AllInv` says that `All` found resolved what it has passed,
`BatchInv` that callbacks run for settled members. `WinnerInv` says that whatever
is on its way down the chain or has arrived there is the outcome of one
contestant. `ChainInv` is what this rests on: the chain of `Finally` promises
settles from its head, through one thread at a time, which is at the first
pending one. `RegisteredInv` gives every registered callback somebody who will
unregister it: the call of `Race` that is about to attach the `Finally`, a
`Finally` that is attached, or the thread that is in it.

Assumptions are those named in the modules: disjoint sets of threads and
awaiters, at least one owner, distinct markers, distinct contestants.

Only model-checked: liveness (`EveryAwaiterServed`, `EveryWaitEnds`,
`EveryLockGranted`, `EveryoneEnds`, `EveryStageSettles`, `EveryCallReturns`,
`AllSettles`, `RaceSettles`, `EveryDispatchSettles`), which the prover does not
reach: it treats neither fairness nor `ENABLED`. Every other property that a
passing run checks is a theorem.

## 5. Not modelled

- Values and exceptions are reduced to resolved or rejected, and in
  `PromiseChain` to the promise they come from; the `optional` and `variant`
  types of `Catch` and the extra arguments of functions are left out.
- Memory order: a critical section is atomic and the atomics are sequentially
  consistent, which is what the code uses.
- The start of a coroutine (`get_return_object`, `initial_suspend`): nobody else
  knows the promise yet.
- `ToPointer` and `VAwait`, which change the static type of a promise only, and
  the life of the `VAwaitable` on the heap.
- The queue proxy (`core/MessageQueueProxy.inl`): it specialises a template
  of a submodule that is not in the repository, so neither the queue nor what
  `Ensure()` does there can be known. That its callback captures the handles by
  reference is listed as a hazard.
- The base class `::Pool` is in the same submodule; `PromisePool` models it from
  how `Pool.h` uses it. Whether `Stop()` really runs what was accepted is its
  promise, not checked here.
- The operator bool of `Reject` and of a non-void `Resolve`. The latter calls
  `resolver_->await_ready()` (`details/Resolve.inl:64`), which the resolver does
  not have: it does not compile when it is used.
- A call that finds the lock of a promise taken by a function that `Then` or
  `Finally` runs is not attempted in `PromiseChain` (`MayAttach`): blocking on the
  lock is what `PromiseLock` is about.
- The destruction of a `Mutex` whose chain is pending, and moves between guards
  of two mutexes.
- `VPromise`, `concepts`, explicit instantiations: compile-time code.

## 6. Plan

The components are modelled as far as the repository allows, and the safety
properties of the passing runs are proved. What is left:

1. The safety half of the liveness properties that has no theorem yet: that a
   thread which is not done can take a step, or waits for one that can
   (`PromiseLock`, `PromisePool`).
2. `ArgumentAlive` of `PromiseChain`, which the code violates, under the use that
   makes it true: a user who holds a promise until the functions attached to it
   have ended.
