---------------------------- MODULE StatePromise -----------------------------
(***************************************************************************)
(* StatePromise: a ready promise and a done promise, and the waits that    *)
(* are built on them.  The object has no lock: one thread uses it.  What   *)
(* makes it hard is that resolving a promise runs its waiters before the   *)
(* resolver returns, in the middle of Ready() or Done(), and that a waiter *)
(* may call the object again.                                              *)
(*                                                                         *)
(* The n-th ready promise and the n-th done promise are written n: Reset   *)
(* replaces the current ones by the next.                                  *)
(***************************************************************************)
EXTENDS Naturals, Sequences

CONSTANTS
    Waiters,    \* coroutines that wait, once each
    Reentrant,  \* what a waiter may call once it has been resumed
    MaxResets,  \* bound on the effective calls of Reset
    MaxDepth    \* bound on calls inside calls

Operations == {"wait", "ready", "done", "reset"}

ASSUME UseAssumption ==
    /\ Reentrant \subseteq Operations
    /\ MaxResets \in Nat
    /\ MaxDepth \in Nat

VARIABLES
    ready,      \* ready_promise_, ready_resolve_: the current ready promise
    done,       \* done_promise_, done_resolve_: the current done promise
    readySet,   \* the ready promises that are resolved
    doneSet,    \* the done promises that are resolved
    byReady,    \* the ready promises that Ready() resolved
    stack,      \* the calls under way, the innermost first
    kind,       \* which wait each waiter used
    onReady,    \* the ready promise it found
    onDone,     \* the done promise it found
    result,     \* "none", "pending", "void" or "End"
    alive       \* ~StatePromise has not returned

promiseVars == <<ready, done, readySet, doneSet, byReady>>
waiterVars  == <<kind, onReady, onDone, result>>
vars == <<promiseVars, stack, waiterVars, alive>>

(* WaitReady, WaitDone, WaitDoneWithReject, Wait and WaitWithReject. *)
Kinds == {"ready", "done", "doneReject", "either", "eitherReject"}

UsesReady(k) == k \in {"ready", "either", "eitherReject"}
UsesDone(k)  == k \in {"done", "doneReject", "either", "eitherReject"}

Init ==
    /\ ready = 0 /\ done = 0
    /\ readySet = {} /\ doneSet = {} /\ byReady = {}
    /\ stack = <<>>
    /\ kind = [w \in Waiters |-> "ready"]
    /\ onReady = [w \in Waiters |-> 0]
    /\ onDone = [w \in Waiters |-> 0]
    /\ result = [w \in Waiters |-> "none"]
    /\ alive = TRUE

------------------------------------------------------------------------------
(* Calls. *)

(* An operation is called from outside, or by a waiter that the innermost
   call has resumed. *)
Callable(op) ==
    /\ alive
    /\ \/ stack = <<>>
       \/ /\ stack # <<>> /\ Head(stack).resumed
          /\ op \in Reentrant /\ Len(stack) < MaxDepth

(* A call that has resolved a promise and has yet to run its waiters: at
   tells which resolver call of which method, wasReady is the local
   ready_was_done. *)
Frame(at, wasReady, batch) ==
    [at |-> at, wasReady |-> wasReady, batch |-> batch, resumed |-> FALSE]

Call(frame) == stack' = <<frame>> \o stack
Continue(frame) == stack' = <<frame>> \o Tail(stack)
Return == stack' = Tail(stack)

(* At the end of the innermost call's current resolver call. *)
Drained(at) == stack # <<>> /\ Head(stack).at = at /\ Head(stack).batch = {}

(* The waiters registered with a promise that is being resolved for the
   first time. *)
ReadyBatch ==
    {w \in Waiters : /\ ready \notin readySet
                     /\ result[w] = "pending"
                     /\ UsesReady(kind[w]) /\ onReady[w] = ready}
DoneBatch ==
    {w \in Waiters : /\ done \notin doneSet
                     /\ result[w] = "pending"
                     /\ UsesDone(kind[w]) /\ onDone[w] = done}

(* Called once both promises are pending, as its asserts ask. *)
Ready ==
    /\ Callable("ready")
    /\ ready \notin readySet /\ done \notin doneSet
    /\ Call(Frame("ready", FALSE, ReadyBatch))
    /\ readySet' = readySet \union {ready}
    /\ byReady' = byReady \union {ready}
    /\ UNCHANGED <<ready, done, doneSet, waiterVars, alive>>

ReadyReturns ==
    /\ Drained("ready")
    /\ Return
    /\ UNCHANGED <<promiseVars, waiterVars, alive>>

Done ==
    /\ Callable("done")
    /\ Call(Frame("doneFirst", ready \in readySet, DoneBatch))
    /\ doneSet' = doneSet \union {done}
    /\ UNCHANGED <<ready, done, readySet, byReady, waiterVars, alive>>

(* Mutant: a state that was never ready keeps its ready promise pending. *)
DoneGoesOnShort ==
    /\ Drained("doneFirst")
    /\ Return
    /\ UNCHANGED <<promiseVars, waiterVars, alive>>

(* Done after its first resolver call. *)
DoneGoesOn ==
    /\ Drained("doneFirst")
    /\ IF Head(stack).wasReady
         THEN Return /\ UNCHANGED readySet
         ELSE /\ Continue(Frame("doneSecond", FALSE, ReadyBatch))
              /\ readySet' = readySet \union {ready}
    /\ UNCHANGED <<ready, done, doneSet, byReady, waiterVars, alive>>

DoneReturns ==
    /\ Drained("doneSecond")
    /\ Return
    /\ UNCHANGED <<promiseVars, waiterVars, alive>>

(* ~StatePromise resolves both in the order ready, done. *)
Destroy ==
    /\ alive
    /\ stack = <<>>
    /\ Call(Frame("destroyFirst", FALSE, ReadyBatch))
    /\ readySet' = readySet \union {ready}
    /\ UNCHANGED <<ready, done, doneSet, byReady, waiterVars, alive>>

DestroyGoesOn ==
    /\ Drained("destroyFirst")
    /\ Continue(Frame("destroySecond", FALSE, DoneBatch))
    /\ doneSet' = doneSet \union {done}
    /\ UNCHANGED <<ready, done, readySet, byReady, waiterVars, alive>>

DestroyReturns ==
    /\ Drained("destroySecond")
    /\ Return
    /\ alive' = FALSE
    /\ UNCHANGED <<promiseVars, waiterVars>>

(* Mutant: both promises are replaced whatever their state. *)
RenewAlways == <<ready + 1, done + 1>>

(* What Reset leaves as the current promises. *)
Renew ==
    IF done \in doneSet THEN <<ready + 1, done + 1>>
    ELSE IF ready \in readySet THEN <<ready + 1, done>>
    ELSE <<ready, done>>

Reset ==
    /\ Callable("reset")
    /\ ready < MaxResets
    /\ ready' = Renew[1] /\ done' = Renew[2]
    /\ UNCHANGED <<readySet, doneSet, byReady, stack, waiterVars, alive>>

------------------------------------------------------------------------------
(* Waiters. *)

(* Mutant: Race looks at ready first. *)
AtOnceReadyFirst(k) ==
    IF UsesReady(k) /\ ready \in readySet THEN "void"
    ELSE IF UsesDone(k) /\ done \in doneSet
           THEN IF k \in {"doneReject", "eitherReject"} THEN "End" ELSE "void"
    ELSE "pending"

(* What a wait that starts now ends with: Race looks at done first. *)
AtOnce(k) ==
    IF UsesDone(k) /\ done \in doneSet
      THEN IF k \in {"doneReject", "eitherReject"} THEN "End" ELSE "void"
    ELSE IF UsesReady(k) /\ ready \in readySet THEN "void"
    ELSE "pending"

Wait(w, k) ==
    /\ Callable("wait")
    /\ result[w] = "none"
    /\ kind' = [kind EXCEPT ![w] = k]
    /\ onReady' = [onReady EXCEPT ![w] = ready]
    /\ onDone' = [onDone EXCEPT ![w] = done]
    /\ result' = [result EXCEPT ![w] = AtOnce(k)]
    /\ UNCHANGED <<promiseVars, stack, alive>>

(* Mutant: the throwing callback is put on both promises. *)
VerdictEnd(at, k) == IF k \in {"doneReject", "eitherReject"} THEN "End" ELSE "void"

(* The callback of WaitDoneWithReject throws End. *)
Verdict(at, k) ==
    IF /\ at \in {"doneFirst", "destroySecond"}
       /\ k \in {"doneReject", "eitherReject"}
      THEN "End" ELSE "void"

(* The innermost call runs one of its waiters; the first of the two
   promises of a race that reports decides it. *)
Deliver(w) ==
    /\ stack # <<>>
    /\ w \in Head(stack).batch
    /\ result' = [result EXCEPT ![w] =
                     IF @ = "pending" THEN Verdict(Head(stack).at, kind[w])
                                      ELSE @]
    /\ Continue([Head(stack) EXCEPT !.batch = @ \ {w}, !.resumed = TRUE])
    /\ UNCHANGED <<promiseVars, kind, onReady, onDone, alive>>

------------------------------------------------------------------------------

Next ==
    \/ Ready \/ ReadyReturns
    \/ Done \/ DoneGoesOn \/ DoneReturns
    \/ Destroy \/ DestroyGoesOn \/ DestroyReturns
    \/ Reset
    \/ \E w \in Waiters : (\E k \in Kinds : Wait(w, k)) \/ Deliver(w)

Spec == Init /\ [][Next]_vars

------------------------------------------------------------------------------
(* Correctness. *)

IsDone == done \in doneSet /\ ready \in readySet

(* ~StatePromise is running or has returned. *)
Ending ==
    ~alive \/ \E i \in DOMAIN stack : stack[i].at \in {"destroyFirst", "destroySecond"}

(* Done() "unblocks all waiters": when no call is under way and the current
   done promise is resolved, so is the ready one, and nobody waits. *)
DoneUnblocksAll ==
    stack = <<>> /\ done \in doneSet =>
        IsDone /\ \A w \in Waiters : result[w] # "pending"

(* No waiter is forgotten: a promise that somebody waits for and that is not
   resolved is one that Ready(), Done() or the destructor will resolve. *)
NoneForgotten ==
    \A w \in Waiters : result[w] = "pending" =>
        /\ UsesReady(kind[w]) /\ onReady[w] \notin readySet => onReady[w] = ready
        /\ UsesDone(kind[w]) /\ onDone[w] \notin doneSet => onDone[w] = done

(* WaitWithReject "resolves when Ready() is called", and not because something
   else, Done() or the destructor, resolved the ready promise. *)
VoidMeansReady ==
    \A w \in Waiters :
        kind[w] = "eitherReject" /\ result[w] = "void" => onReady[w] \in byReady

(* A waiter that the innermost call resumed has called the object again,
   before a call further out, which has this one to run too, has got to it. *)
Overtaken(w) == \E i \in 2 .. Len(stack) : w \in stack[i].batch

(* Until the object is destroyed WaitWithReject does not take the resolution
   of the ready promise by Done() for a call of Ready(), unless a Done() inside
   the Done() that will reject it gets to it first. *)
VoidMeansReadyFirst ==
    [][\A w \in Waiters :
          /\ kind'[w] = "eitherReject"
          /\ result[w] # "void" /\ result'[w] = "void"
          => onReady'[w] \in byReady \/ Ending \/ Overtaken(w)]_vars

(* WaitWithReject "rejects with End if Done() is called first": a waiter for
   whom Ready() came first does not get End, unless a Done() inside that Ready()
   gets to it first.  (One that starts to wait when Done() has been called gets
   End.) *)
EndMeansDoneFirst ==
    [][\A w \in Waiters :
          /\ kind[w] = "eitherReject"
          /\ result[w] = "pending" /\ result'[w] = "End"
          => onReady[w] \notin byReady \/ Overtaken(w)]_vars

==============================================================================
