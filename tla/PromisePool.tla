---------------------------- MODULE PromisePool ----------------------------
(***************************************************************************)
(* promise::Pool and promise::MessageQueue: coroutines dispatch jobs to    *)
(* the worker threads of the base class ::Pool and get promises for them.  *)
(*                                                                         *)
(* A coroutine runs on a thread: its own at first, later the worker that   *)
(* resolved what it awaited, which executes it inside Resolve() until it   *)
(* suspends again.  Dispatch() without a function exists for just that:    *)
(* its job waits until it is awaited and then resolves.                    *)
(*                                                                         *)
(* ::Pool is external.  It is a queue of functions, some of them with a    *)
(* time point; Stop() makes it refuse functions, and the workers still run *)
(* those it has accepted.                                                  *)
(***************************************************************************)
EXTENDS Naturals, Sequences, Functions

CONSTANTS
    Workers,    \* the threads of the pool (one, in a MessageQueue)
    Coros,      \* the coroutines that use it, and the threads they start on
    Switches,   \* calls of Dispatch() without a function
    Functions,  \* calls of Dispatch(function)
    Callbacks,  \* calls of Dispatch(function of Resolve and Reject)
    Delayed,    \* those of them that are given a duration or a time point
    Careful     \* coroutines co_await Dispatch() on the spot, and block
                \* only the thread they started on

None == "none"

ASSUME PoolAssumption ==
    /\ Careful \in BOOLEAN
    /\ Workers \intersect (Coros \union Callbacks) = {}
    /\ Coros \intersect Callbacks = {}
    /\ Switches \intersect (Functions \union Callbacks) = {}
    /\ Functions \intersect Callbacks = {}
    /\ None \notin Switches \union Functions \union Callbacks
    /\ {"suspended", "ended"} \intersect
         (Workers \union Coros \union Callbacks) = {}

Jobs == Switches \union Functions \union Callbacks

(* The threads that settle promises: the workers, and for each callback that
   kept its handles some thread that calls them later. *)
Settlers == Workers \union Callbacks
Threads == Settlers \union Coros

VARIABLES
    out,        \* the outcome of each job's promise
    uses,       \* Promise::use_count_ of it
    awaiters,   \* Promise::awaiters_ of it
    queue,      \* ::Pool: the functions that are due, in order
    later,      \* ::Pool: the functions whose time point is to come
    stopped,    \* ::Pool: Stop() was called
    pc,         \* what each settling thread does
    job,        \* the job it does it for
    batch,      \* the awaiters its resolver call has still to resume
    at,         \* the thread each coroutine is on, or suspended, or ended
    waits,      \* the job it is suspended on or blocks its thread for
    holds,      \* the promises it has neither awaited nor dropped yet
    after       \* the job whose co_await has just returned

promiseVars == <<out, uses, awaiters>>
poolVars    == <<queue, later, stopped>>
workerVars  == <<pc, job, batch>>
coroVars    == <<at, waits, holds, after>>
vars == <<promiseVars, poolVars, workerVars, coroVars>>

Init ==
    /\ out = [j \in Jobs |-> "none"]
    /\ uses = [j \in Jobs |-> 0]
    /\ awaiters = [j \in Jobs |-> <<>>]
    /\ queue = <<>>
    /\ later = {}
    /\ stopped = FALSE
    /\ pc = [t \in Settlers |-> "idle"]
    /\ job = [t \in Settlers |-> None]
    /\ batch = [t \in Settlers |-> <<>>]
    /\ at = [c \in Coros |-> c]
    /\ waits = [c \in Coros |-> None]
    /\ holds = [c \in Coros |-> {}]
    /\ after = [c \in Coros |-> None]

IsDone(j) == out[j] \notin {"none", "pending"}

(* Coroutine c executes user code. *)
Runs(c) == at[c] \in Threads /\ waits[c] = None

(* It holds the promise of a Dispatch() it has to co_await first. *)
Owes(c) == Careful /\ \E j \in holds[c] \intersect Switches : out[j] = "pending"

------------------------------------------------------------------------------
(* Dispatching. *)

(* Mutant: the function of a rejected promise stays in the queue. *)
DispatchAnyway(c, j) ==
    /\ Runs(c)
    /\ ~Owes(c)
    /\ out[j] = "none"
    /\ out' = [out EXCEPT ![j] = IF stopped THEN "stopped" ELSE "pending"]
    /\ queue' = IF j \in Delayed THEN queue ELSE Append(queue, j)
    /\ later' = IF j \in Delayed THEN later \union {j} ELSE later
    /\ holds' = [holds EXCEPT ![c] = @ \union {j}]
    /\ after' = [after EXCEPT ![c] = None]
    /\ UNCHANGED <<uses, awaiters, stopped, workerVars, at, waits>>

(* Pool::Dispatch: a promise is created and the function given to ::Pool; if
   that has been stopped the promise is rejected before it is returned. *)
Dispatch(c, j) ==
    /\ Runs(c)
    /\ ~Owes(c)
    /\ out[j] = "none"
    /\ out' = [out EXCEPT ![j] = IF stopped THEN "stopped" ELSE "pending"]
    /\ queue' = IF stopped \/ j \in Delayed THEN queue ELSE Append(queue, j)
    /\ later' = IF ~stopped /\ j \in Delayed THEN later \union {j} ELSE later
    /\ holds' = [holds EXCEPT ![c] = @ \union {j}]
    /\ after' = [after EXCEPT ![c] = None]
    /\ UNCHANGED <<uses, awaiters, stopped, workerVars, at, waits>>

(* The time point of a delayed job has come. *)
Due(j) ==
    /\ j \in later
    /\ later' = later \ {j}
    /\ queue' = Append(queue, j)
    /\ UNCHANGED <<promiseVars, stopped, workerVars, coroVars>>

Stop ==
    /\ ~stopped
    /\ stopped' = TRUE
    /\ UNCHANGED <<promiseVars, queue, later, workerVars, coroVars>>

------------------------------------------------------------------------------
(* The settling threads. *)

(* A worker takes a function.  That of Dispatch() begins with WaitAwaited(0). *)
Take(w) ==
    /\ pc[w] = "idle"
    /\ queue # <<>>
    /\ job' = [job EXCEPT ![w] = Head(queue)]
    /\ pc' = [pc EXCEPT ![w] = IF Head(queue) \in Switches THEN "wait" ELSE "call"]
    /\ queue' = Tail(queue)
    /\ UNCHANGED <<promiseVars, later, stopped, batch, coroVars>>

(* Mutant: the worker does not wait to be awaited. *)
NotAwaited(w) ==
    /\ pc[w] = "wait"
    /\ pc' = [pc EXCEPT ![w] = "resolve"]
    /\ UNCHANGED <<promiseVars, poolVars, job, batch, coroVars>>

(* Mutant: the worker waits to be awaited by two. *)
AwaitedTwice(w) ==
    /\ pc[w] = "wait"
    /\ uses[job[w]] > 1
    /\ pc' = [pc EXCEPT ![w] = "resolve"]
    /\ UNCHANGED <<promiseVars, poolVars, job, batch, coroVars>>

(* WaitAwaited(0) returns. *)
Awaited(w) ==
    /\ pc[w] = "wait"
    /\ uses[job[w]] > 0
    /\ pc' = [pc EXCEPT ![w] = "resolve"]
    /\ UNCHANGED <<promiseVars, poolVars, job, batch, coroVars>>

(* Thread t settles the promise of its job, and takes its awaiters. *)
Settle(t, j, outcome) ==
    /\ out' = [out EXCEPT ![j] = outcome]
    /\ batch' = [batch EXCEPT ![t] = awaiters[j]]
    /\ awaiters' = [awaiters EXCEPT ![j] = <<>>]
    /\ pc' = [pc EXCEPT ![t] = "resume"]
    /\ UNCHANGED uses

Resolve(w) ==
    /\ pc[w] = "resolve"
    /\ Settle(w, job[w], "value")
    /\ UNCHANGED <<poolVars, job, coroVars>>

(* The function returns or throws, or a handle of a callback is called, by the
   callback, the catch around it or another thread that has been given it. *)
Call(t) ==
    /\ pc[t] = "call"
    /\ ~IsDone(job[t])
    /\ \E outcome \in {"value", "error"} : Settle(t, job[t], outcome)
    /\ UNCHANGED <<poolVars, job, coroVars>>

(* A callback passes its handles to another thread, and goes on. *)
Pass(w) ==
    /\ pc[w] = "call"
    /\ job[w] \in Callbacks
    /\ ~IsDone(job[w])
    /\ job[job[w]] = None
    /\ pc' = [pc EXCEPT ![job[w]] = "call"]
    /\ job' = [job EXCEPT ![job[w]] = job[w]]
    /\ UNCHANGED <<promiseVars, poolVars, batch, coroVars>>

(* It leaves the rest to that thread; or it throws, or the thread calls its
   handle, when the other of the two has settled the promise. *)
Leave(t) ==
    /\ pc[t] = "call"
    /\ job[t] \in Callbacks
    /\ IsDone(job[t]) \/ (t \in Workers /\ job[job[t]] = job[t])
    /\ pc' = [pc EXCEPT ![t] = "idle"]
    /\ job' = [job EXCEPT ![t] = None]
    /\ UNCHANGED <<promiseVars, poolVars, batch, coroVars>>

Free(t) == \A c \in Coros : at[c] # t

(* The resolver call resumes the next awaiter on this thread. *)
Resume(t) ==
    /\ pc[t] = "resume"
    /\ Free(t)
    /\ batch[t] # <<>>
    /\ LET c == Head(batch[t]) IN
         /\ at' = [at EXCEPT ![c] = t]
         /\ waits' = [waits EXCEPT ![c] = None]
         /\ after' = [after EXCEPT ![c] = job[t]]
    /\ batch' = [batch EXCEPT ![t] = Tail(@)]
    /\ UNCHANGED <<promiseVars, poolVars, pc, job, holds>>

(* It returns, and the function with what it captured is destroyed. *)
Finish(t) ==
    /\ pc[t] = "resume"
    /\ Free(t)
    /\ batch[t] = <<>>
    /\ pc' = [pc EXCEPT ![t] = "idle"]
    /\ job' = [job EXCEPT ![t] = None]
    /\ UNCHANGED <<promiseVars, poolVars, batch, coroVars>>

------------------------------------------------------------------------------
(* The coroutines. *)

(* co_await: a settled promise answers at once, on the thread of the caller;
   else the coroutine registers and leaves its thread. *)
Await(c, j) ==
    /\ Runs(c)
    /\ j \in holds[c]
    /\ Owes(c) => j \in Switches
    /\ holds' = [holds EXCEPT ![c] = @ \ {j}]
    /\ IF IsDone(j)
         THEN /\ after' = [after EXCEPT ![c] = j]
              /\ UNCHANGED <<promiseVars, at, waits>>
         ELSE /\ uses' = [uses EXCEPT ![j] = @ + 1]
              /\ awaiters' = [awaiters EXCEPT ![j] = Append(@, c)]
              /\ at' = [at EXCEPT ![c] = "suspended"]
              /\ waits' = [waits EXCEPT ![c] = j]
              /\ after' = [after EXCEPT ![c] = None]
              /\ UNCHANGED out
    /\ UNCHANGED <<poolVars, workerVars>>

(* WaitDone(), or the destructor of the promise: the thread blocks until the
   promise is settled. *)
Drop(c, j) ==
    /\ Runs(c)
    /\ j \in holds[c]
    /\ ~Owes(c)
    /\ Careful => IsDone(j) \/ at[c] = c
    /\ holds' = [holds EXCEPT ![c] = @ \ {j}]
    /\ waits' = [waits EXCEPT ![c] = IF IsDone(j) THEN None ELSE j]
    /\ after' = [after EXCEPT ![c] = None]
    /\ UNCHANGED <<promiseVars, poolVars, workerVars, at>>

WaitDone(c) ==
    /\ at[c] \in Threads
    /\ waits[c] # None
    /\ IsDone(waits[c])
    /\ waits' = [waits EXCEPT ![c] = None]
    /\ UNCHANGED <<promiseVars, poolVars, workerVars, at, holds, after>>

(* The coroutine ends, and leaves its thread. *)
End(c) ==
    /\ Runs(c)
    /\ holds[c] = {}
    /\ at' = [at EXCEPT ![c] = "ended"]
    /\ after' = [after EXCEPT ![c] = None]
    /\ UNCHANGED <<promiseVars, poolVars, workerVars, waits, holds>>

------------------------------------------------------------------------------
Work(t) ==
    \/ t \in Workers /\ (Take(t) \/ Awaited(t) \/ Resolve(t) \/ Pass(t))
    \/ Call(t)
    \/ Leave(t)
    \/ Resume(t)
    \/ Finish(t)

Go(c) ==
    \/ \E j \in Jobs : Await(c, j) \/ Drop(c, j)
    \/ WaitDone(c)
    \/ End(c)

Next ==
    \/ \E c \in Coros, j \in Jobs : Dispatch(c, j)
    \/ \E c \in Coros : Go(c)
    \/ \E t \in Settlers : Work(t)
    \/ \E j \in Jobs : Due(j)
    \/ Stop

Spec == Init /\ [][Next]_vars

(* The threads of the pool go on, time passes, functions end and kept handles
   are called, and coroutines come to their end.  Nobody has to dispatch. *)
Fairness ==
    /\ \A t \in Settlers : WF_vars(Work(t))
    /\ \A c \in Coros : WF_vars(Go(c))
    /\ \A j \in Jobs : WF_vars(Due(j))

FairSpec == Spec /\ Fairness

------------------------------------------------------------------------------
Outcomes == {"none", "pending", "value", "error", "stopped"}

(* The types of the variables; a thread that is at work has a job. *)
TypeOK ==
    /\ out \in [Jobs -> Outcomes]
    /\ uses \in [Jobs -> Nat]
    /\ awaiters \in [Jobs -> Seq(Coros)]
    /\ queue \in Seq(Jobs)
    /\ later \in SUBSET Jobs
    /\ stopped \in BOOLEAN
    /\ pc \in [Settlers -> {"idle", "wait", "resolve", "call", "resume"}]
    /\ job \in [Settlers -> Jobs \union {None}]
    /\ \A t \in Settlers : pc[t] = "idle" <=> job[t] = None
    /\ batch \in [Settlers -> Seq(Coros)]
    /\ at \in [Coros -> Threads \union {"suspended", "ended"}]
    /\ waits \in [Coros -> Jobs \union {None}]
    /\ holds \in [Coros -> SUBSET Jobs]
    /\ after \in [Coros -> Jobs \union {None}]

(* Where the function of job j is. *)
Queued(j) == j \in later \/ j \in Range(queue)
Handled(j) == \E t \in Settlers : job[t] = j

(* A dispatch is accepted or refused, whatever Stop() it raced with: the
   promise of a function that is queued or being called is pending, so that
   nobody is told QueueStopped about work that is still to come, and a
   pending promise has its function in the queue or in somebody's hands, so
   that none is lost.  (A callback that has passed its handles on may find the
   promise settled.) *)
AcceptedOrRefused ==
    \A j \in Jobs :
        /\ Queued(j) => out[j] = "pending"
        /\ out[j] = "pending" => Queued(j) # Handled(j)
        /\ j \notin Callbacks =>
             \A t \in Settlers : job[t] = j /\ pc[t] # "resume" => out[j] = "pending"
        /\ out[j] = "stopped" => ~Queued(j) /\ ~Handled(j)

(* What co_await queue.Ensure() is for: when it returns without an exception
   the coroutine is on a thread of the pool, the one that ran the job, and
   has it for itself.  It holds because the worker waits to be awaited: else
   a caller that is slow to await would find the promise resolved and stay
   where it is. *)
OnPoolThread ==
    \A c \in Coros :
        after[c] \in Switches /\ out[after[c]] = "value" =>
            /\ at[c] \in Workers
            /\ job[at[c]] = after[c]
            /\ \A d \in Coros : at[d] = at[c] => d = c

(* Every dispatched job is settled: executed, or refused after Stop(). *)
EveryDispatchSettles ==
    \A j \in Jobs : (out[j] = "pending") ~> IsDone(j)

=============================================================================
