---------------------------- MODULE PromiseLock ----------------------------
(***************************************************************************)
(* The lock of one promise.  The other modules take a critical section of  *)
(* Handle::mutex_ for one step; here it is taken apart: a thread asks for  *)
(* the lock, shared or exclusive, holds it, and lets go of it, and the     *)
(* state queries, the waits on the condition variable, the resolver, the   *)
(* registrations and final_suspend meet in between.                        *)
(*                                                                         *)
(* std::shared_mutex is external: many shared holders or one exclusive     *)
(* one, and a thread must not ask for it when it has it.                   *)
(***************************************************************************)
EXTENDS Naturals, FiniteSets

CONSTANTS
    Users,          \* threads that call the promise
    Body,           \* the thread that runs its coroutine
    Ops,            \* the calls the users make
    Nested,         \* the calls a function makes that runs under the lock
    Kinds,          \* how the promise may have been made
    MaxCalls,       \* how many calls a user makes
    WritersFirst    \* a waiting writer holds back new readers

Queries == {"Done", "Resolved", "Rejected", "Value", "Exception", "Awaiters"}
Waits == {"WaitDone", "WaitAwaited"}
AllOps == Queries \union Waits \union
          {"UseCount", "Bool", "Resolve", "Reject", "Await", "Then"}
Nobody == "nobody"

ASSUME LockAssumption ==
    /\ IsFiniteSet(Users)
    /\ Body \notin Users
    /\ Nobody \notin Users \union {Body}
    /\ Ops \subseteq AllOps
    /\ Nested \subseteq AllOps \ {"Then"}
    /\ Kinds \subseteq {"coroutine", "resolver", "bare"}
    /\ MaxCalls \in Nat
    /\ WritersFirst \in BOOLEAN

Threads == Users \union {Body}
Unset == MaxCalls * (Cardinality(Users) + 1) + 1

VARIABLES
    kind,       \* how the promise was made
    resolved,   \* Resolver::resolved_
    value,      \* ResolverValue: a value has been stored
    exception,  \* Resolver::exception_ is set
    handle,     \* Handle::handle_ is not null
    awaiters,   \* the length of Promise::awaiters_
    useCount,   \* Promise::use_count_
    writer,     \* who holds the lock exclusively
    shared,     \* how often each thread holds it shared
    pc,         \* where each thread is
    op,         \* the call it is in
    inner,      \* that call is made by a function under the lock of a Then
    seen,       \* what the answers told the thread about the promise
    last,       \* the use count it remembers
    calls       \* how many calls it has made

stateVars == <<resolved, value, exception, handle, awaiters, useCount>>
lockVars  == <<writer, shared>>
userVars  == <<seen, last, calls>>
vars == <<kind, stateVars, lockVars, pc, op, inner, userVars>>

Init ==
    /\ kind \in Kinds
    /\ resolved = FALSE
    /\ value = FALSE
    /\ exception = FALSE
    /\ handle = (kind # "bare")
    /\ awaiters = 0
    /\ useCount = 0
    /\ writer = Nobody
    /\ shared = [t \in Threads |-> 0]
    /\ pc = [t \in Threads |-> "idle"]
    /\ op = [t \in Threads |-> "none"]
    /\ inner = [t \in Threads |-> FALSE]
    /\ seen = [t \in Threads |-> "nothing"]
    /\ last = [t \in Threads |-> Unset]
    /\ calls = [t \in Threads |-> 0]

------------------------------------------------------------------------------
(* Mutant: the flag that the resolver sets before it stores the outcome. *)
IsDoneEarly == resolved

IsDone == value \/ exception

Done == ~handle

(* Mutant: Done() looks without the lock. *)
FirstUnlocked(o) ==
    CASE o \in {"Resolve", "Reject", "Return"} -> "exchange"
      [] o \in {"Await", "Then", "Clear"}      -> "excl"
      [] o \in {"UseCount", "Bool"}            -> "load"
      [] o = "Done"                            -> "read"
      [] OTHER                                 -> "shared"

(* Where a call begins. *)
First(o) ==
    CASE o \in {"Resolve", "Reject", "Return"} -> "exchange"
      [] o \in {"Await", "Then", "Clear"}      -> "excl"
      [] o \in {"UseCount", "Bool"}            -> "load"
      [] OTHER                                 -> "shared"

(* A user asks for the value or the exception if it knows that it is there,
   and has a handle to resolve with only of some promises. *)
May(t, o) ==
    /\ o = "Value" => seen[t] = "resolved"
    /\ o = "Exception" => seen[t] # "nothing"
    /\ o \in {"Resolve", "Reject", "Bool"} => kind # "coroutine"

Begin(t, o) ==
    /\ t \in Users
    /\ pc[t] = "idle"
    /\ calls[t] < MaxCalls
    /\ May(t, o)
    /\ calls' = [calls EXCEPT ![t] = @ + 1]
    /\ op' = [op EXCEPT ![t] = o]
    /\ pc' = [pc EXCEPT ![t] = First(o)]
    /\ UNCHANGED <<kind, stateVars, lockVars, inner, seen, last>>

(* The coroutine ends: final_suspend. *)
BeginFinal ==
    /\ pc[Body] = "idle"
    /\ handle
    /\ LET o == IF kind = "coroutine" THEN "Return" ELSE "Clear" IN
         /\ op' = [op EXCEPT ![Body] = o]
         /\ pc' = [pc EXCEPT ![Body] = First(o)]
    /\ UNCHANGED <<kind, stateVars, lockVars, inner, userVars>>

(* Mutant: a notification that wakes nobody. *)
WokenNone == {}

(* cv_.notify_all(): the threads that evaluate their predicate again. *)
Woken == {t \in Threads : pc[t] = "blocked"}

(* Thread t goes on at the given place, and the woken ones lock again. *)
Goto(t, at, woken) ==
    pc' = [u \in Threads |-> IF u = t THEN at
                             ELSE IF u \in woken THEN "shared" ELSE pc[u]]

(* The call returns, to the user or to the function under the lock. *)
Return(t, woken) ==
    /\ Goto(t, IF inner[t] THEN "call" ELSE "idle", woken)
    /\ op' = [op EXCEPT ![t] = IF inner[t] THEN "Then" ELSE "none"]
    /\ inner' = [inner EXCEPT ![t] = FALSE]

------------------------------------------------------------------------------
(* The lock. *)

Queued == {t \in Threads : pc[t] = "queued"}

(* std::shared_lock.  Awaiters() of the wrapper calls Awaiters() of the
   promise, and both take the lock. *)
LockShared(t) ==
    /\ pc[t] \in {"shared", "again"}
    /\ writer = Nobody
    /\ WritersFirst => Queued = {}
    /\ shared' = [shared EXCEPT ![t] = @ + 1]
    /\ pc' = [pc EXCEPT ![t] =
                 CASE op[t] = "Then"                     -> "call"
                   [] op[t] = "Awaiters" /\ @ = "shared" -> "again"
                   [] OTHER                              -> "read"]
    /\ UNCHANGED <<kind, stateVars, writer, op, inner, userVars>>

(* std::unique_lock: the thread queues, and has the lock when it is free. *)
Ask(t) ==
    /\ pc[t] = "excl"
    /\ pc' = [pc EXCEPT ![t] = "queued"]
    /\ UNCHANGED <<kind, stateVars, lockVars, op, inner, userVars>>

LockExclusive(t) ==
    /\ pc[t] = "queued"
    /\ writer = Nobody
    /\ \A u \in Threads : shared[u] = 0
    /\ writer' = t
    /\ pc' = [pc EXCEPT ![t] = "write"]
    /\ UNCHANGED <<kind, stateVars, shared, op, inner, userVars>>

------------------------------------------------------------------------------
(* Under the shared lock. *)

Unlock(t, n) ==
    /\ shared' = [shared EXCEPT ![t] = @ - n]
    /\ UNCHANGED writer

(* What the thread knows when query q has been answered.  "if (p.Done()) { if
   (p.Resolved()) ... else ... }" draws conclusions from both answers. *)
Learn(q, old) ==
    CASE q = "Resolved" /\ value                      -> "resolved"
      [] q = "Rejected" /\ exception                  -> "rejected"
      [] q = "Resolved" /\ ~value /\ old = "done"     -> "rejected"
      [] q = "Rejected" /\ ~exception /\ old = "done" -> "resolved"
      [] q = "Done" /\ IsDone /\ old = "nothing"      -> "done"
      [] OTHER                                        -> old

Query(t) ==
    /\ pc[t] = "read"
    /\ op[t] \in Queries
    /\ seen' = [seen EXCEPT ![t] = Learn(op[t], @)]
    /\ Unlock(t, IF op[t] = "Awaiters" THEN 2 ELSE 1)
    /\ Return(t, {})
    /\ UNCHANGED <<kind, stateVars, last, calls>>

(* The operator bool of Resolve<void> tells whether a value has been stored. *)
Peek(t) == IF op[t] = "Bool" /\ value THEN "resolved" ELSE seen[t]

(* What is read without the lock: the atomic use_count_, and value_is_set_,
   which is not atomic. *)
Load(t) ==
    /\ pc[t] = "load"
    /\ last' = [last EXCEPT ![t] = IF op[t] = "UseCount" THEN useCount ELSE @]
    /\ seen' = [seen EXCEPT ![t] = Peek(t)]
    /\ Return(t, {})
    /\ UNCHANGED <<kind, stateVars, lockVars, calls>>

(* The predicate of WaitDone. *)
Finished == IsDone /\ Done

WaitDone(t) ==
    /\ pc[t] = "read"
    /\ op[t] = "WaitDone"
    /\ Unlock(t, 1)
    /\ IF Finished
         THEN /\ seen' = [seen EXCEPT ![t] = IF @ = "nothing" THEN "done" ELSE @]
              /\ Return(t, {})
         ELSE /\ pc' = [pc EXCEPT ![t] = "blocked"]
              /\ UNCHANGED <<seen, op, inner>>
    /\ UNCHANGED <<kind, stateVars, last, calls>>

(* From a use count the caller had, or the one found now. *)
LastCount(t) == IF last[t] = Unset THEN useCount ELSE last[t]

WaitAwaited(t) ==
    /\ pc[t] = "read"
    /\ op[t] = "WaitAwaited"
    /\ Unlock(t, 1)
    /\ IF useCount > LastCount(t)
         THEN /\ last' = [last EXCEPT ![t] = Unset]
              /\ Return(t, {})
         ELSE /\ last' = [last EXCEPT ![t] = LastCount(t)]
              /\ pc' = [pc EXCEPT ![t] = "blocked"]
              /\ UNCHANGED <<op, inner>>
    /\ UNCHANGED <<kind, stateVars, seen, calls>>

(* Then with a promise function, and Finally, on a settled promise<void>: the
   function runs before the shared lock is released. *)
CallFunction(t, o) ==
    /\ pc[t] = "call"
    /\ calls[t] < MaxCalls
    /\ May(t, o)
    /\ calls' = [calls EXCEPT ![t] = @ + 1]
    /\ inner' = [inner EXCEPT ![t] = TRUE]
    /\ op' = [op EXCEPT ![t] = o]
    /\ pc' = [pc EXCEPT ![t] = First(o)]
    /\ UNCHANGED <<kind, stateVars, lockVars, seen, last>>

EndFunction(t) ==
    /\ pc[t] = "call"
    /\ Unlock(t, 1)
    /\ Return(t, {})
    /\ UNCHANGED <<kind, stateVars, userVars>>

------------------------------------------------------------------------------
(* Under the exclusive lock. *)

(* Resolver::Resolve and Reject: the first caller goes on. *)
Exchange(t) ==
    /\ pc[t] = "exchange"
    /\ resolved' = TRUE
    /\ IF resolved THEN Return(t, {})
       ELSE /\ pc' = [pc EXCEPT ![t] = "excl"]
            /\ UNCHANGED <<op, inner>>
    /\ UNCHANGED <<kind, value, exception, handle, awaiters, useCount, lockVars, userVars>>

(* It stores the outcome; OnResolved takes the awaiters unless the coroutine
   is still there, which then does that in the second half of final_suspend. *)
Store(t) ==
    /\ pc[t] = "write"
    /\ op[t] \in {"Resolve", "Reject", "Return"}
    /\ writer' = Nobody
    /\ \/ op[t] # "Reject" /\ value' = TRUE /\ UNCHANGED exception
       \/ op[t] # "Resolve" /\ exception' = TRUE /\ UNCHANGED value
    /\ IF Done
         THEN /\ awaiters' = 0
              /\ Return(t, Woken)
         ELSE /\ UNCHANGED awaiters
              /\ IF t = Body
                   THEN /\ op' = [op EXCEPT ![t] = "Clear"]
                        /\ Goto(t, First("Clear"), {})
                        /\ UNCHANGED inner
                   ELSE Return(t, {})
    /\ UNCHANGED <<kind, resolved, handle, useCount, shared, userVars>>

(* final_suspend: the coroutine is gone, and the awaiters are told. *)
Clear(t) ==
    /\ pc[t] = "write"
    /\ op[t] = "Clear"
    /\ writer' = Nobody
    /\ handle' = FALSE
    /\ awaiters' = IF IsDone THEN 0 ELSE awaiters
    /\ op' = [op EXCEPT ![t] = "none"]
    /\ Goto(t, "ended", Woken)
    /\ UNCHANGED <<kind, resolved, value, exception, useCount, shared, inner, userVars>>

(* Mutant: Then on a settled promise keeps its exclusive lock. *)
RegisterKeepsLock(t) ==
    /\ pc[t] = "write"
    /\ op[t] \in {"Await", "Then"}
    /\ writer' = IF IsDone /\ op[t] = "Then" THEN t ELSE Nobody
    /\ IF IsDone
         THEN /\ UNCHANGED <<awaiters, useCount>>
              /\ IF op[t] = "Then" THEN Goto(t, "shared", {}) /\ UNCHANGED <<op, inner>>
                                   ELSE Return(t, {})
         ELSE /\ awaiters' = awaiters + 1
              /\ useCount' = useCount + 1
              /\ Return(t, Woken)
    /\ UNCHANGED <<kind, resolved, value, exception, handle, shared, userVars>>

(* await_suspend, and Then, Catch and Finally on a pending promise: register.
   On a settled one await_suspend has nothing to do, and Then lets go of the
   lock to take it again, shared. *)
Register(t) ==
    /\ pc[t] = "write"
    /\ op[t] \in {"Await", "Then"}
    /\ writer' = Nobody
    /\ IF IsDone
         THEN /\ UNCHANGED <<awaiters, useCount>>
              /\ IF op[t] = "Then" THEN Goto(t, "shared", {}) /\ UNCHANGED <<op, inner>>
                                   ELSE Return(t, {})
         ELSE /\ awaiters' = awaiters + 1
              /\ useCount' = useCount + 1
              /\ Return(t, Woken)
    /\ UNCHANGED <<kind, resolved, value, exception, handle, shared, userVars>>

------------------------------------------------------------------------------
Step(t) ==
    \/ LockShared(t) \/ Ask(t) \/ LockExclusive(t)
    \/ Query(t) \/ Load(t) \/ WaitDone(t) \/ WaitAwaited(t)
    \/ EndFunction(t)
    \/ Exchange(t) \/ Store(t) \/ Clear(t) \/ Register(t)

Next ==
    \/ \E t \in Users, o \in Ops : Begin(t, o)
    \/ \E t \in Users, o \in Nested : CallFunction(t, o)
    \/ BeginFinal
    \/ \E t \in Threads : Step(t)

Spec == Init /\ [][Next]_vars

(* A thread that is in a call goes on. *)
Fairness == \A t \in Threads : WF_vars(Step(t))

FairSpec == Spec /\ Fairness

------------------------------------------------------------------------------
(* The types of the variables. *)
TypeOK ==
    /\ kind \in Kinds
    /\ {resolved, value, exception, handle} \subseteq BOOLEAN
    /\ awaiters \in Nat
    /\ useCount \in Nat
    /\ writer \in Threads \union {Nobody}
    /\ shared \in [Threads -> Nat]
    /\ pc \in [Threads -> {"idle", "exchange", "load", "shared", "again", "read",
                            "call", "blocked", "excl", "queued", "write", "ended"}]
    /\ op \in [Threads -> AllOps \union {"none", "Return", "Clear"}]
    /\ inner \in [Threads -> BOOLEAN]
    /\ seen \in [Threads -> {"nothing", "done", "resolved", "rejected"}]
    /\ last \in [Threads -> Nat]
    /\ calls \in [Threads -> 0 .. MaxCalls]

(* No thread looks at the state while another one changes it, though queries
   and registrations from every thread meet the resolver; nor at the value
   that is being stored, for those who look without the lock. *)
NoDataRace ==
    \A t, u \in Threads :
        /\ t # u /\ pc[t] = "write" => pc[u] \notin {"read", "call", "write"}
        /\ pc[t] = "write" /\ op[t] \in {"Resolve", "Return"} =>
             ~(pc[u] = "load" /\ op[u] = "Bool")

(* The lock is not asked for by a thread that has it, which std::shared_mutex
   does not allow: neither by a continuation on a settled promise nor by the
   wait in its second round. *)
LocksOnce ==
    \A t \in Threads :
        pc[t] \in {"shared", "again", "queued"} => shared[t] = 0 /\ writer # t

(* What the queries have told a thread remains true, and the conclusions it
   draws from several answers, between which the promise settles, are right. *)
AnswersHold ==
    \A t \in Threads :
        /\ seen[t] # "nothing" => IsDone
        /\ seen[t] = "resolved" => value /\ ~exception
        /\ seen[t] = "rejected" => exception /\ ~value

(* The assertions of Value, Exception and the resolver hold when the lock has
   been taken, whatever happened since the caller had a reason to call. *)
AssertionsHold ==
    \A t \in Threads :
        /\ pc[t] = "read" /\ op[t] = "Value" => value
        /\ pc[t] = "read" /\ op[t] = "Exception" => IsDone
        /\ pc[t] = "write" /\ op[t] \in {"Resolve", "Reject", "Return"} => ~IsDone

(* Nobody registers with a promise after its awaiters have been taken, for
   nobody would come back to it; and of the registrations that were counted
   none has gone before. *)
NoneLeftBehind ==
    /\ IsDone /\ Done => awaiters = 0
    /\ ~IsDone => awaiters = useCount

(* What call t is in waits for has happened. *)
NeedNotWait(t) ==
    /\ op[t] = "WaitDone" => Finished
    /\ op[t] = "WaitAwaited" => last[t] # Unset /\ useCount > last[t]

(* Every call returns: the queries and the resolver always, WaitDone once the
   promise has settled and its coroutine is gone, WaitAwaited once there is
   a registration its caller did not know of, even if that came between the
   call of UseCount() and this one. *)
EveryCallReturns ==
    \A t \in Users : (pc[t] # "idle" /\ NeedNotWait(t)) ~> (pc[t] = "idle")
=============================================================================
