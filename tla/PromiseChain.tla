---------------------------- MODULE PromiseChain ----------------------------
(***************************************************************************)
(* Then, Catch and Finally: a tree of promises.  Promise 0 is the root,    *)
(* the others are the stages that the user attaches to it and to each      *)
(* other, before or after the promise they are attached to has settled.    *)
(*                                                                         *)
(* A stage that is attached to a pending promise is a callback in that     *)
(* promise's awaiters; it runs on the thread that settles the promise,     *)
(* inside OnResolved, and when it settles its own promise the callbacks of *)
(* that one run inside it.  A stage attached to a settled promise runs at  *)
(* once, on the thread that attaches it.  A function that returns a        *)
(* promise may suspend, and ends on a thread of its own.                   *)
(*                                                                         *)
(* Each thread has the stack of these calls.  Values and exceptions are    *)
(* reduced to the promise that produced them.                              *)
(***************************************************************************)
EXTENDS Naturals, Sequences, Functions

CONSTANTS
    N,      \* how many stages there may be
    Users,  \* threads that attach stages
    Forms   \* the stages they may attach

(* What a stage is made of: the operation; whether its function returns a
   promise (IS_PROMISE_FUNCTION); whether the function throws; whether the
   type a Catch takes matches the exception; whether it is called on a
   temporary (the && overloads); whether the function returns void. *)
AllForms == [op : {"then", "catch", "finally"}, async : BOOLEAN,
             throws : BOOLEAN, matches : BOOLEAN, rvalue : BOOLEAN,
             void : BOOLEAN]

ASSUME ChainAssumption ==
    /\ N \in Nat \ {0}
    /\ Forms \subseteq AllForms
    /\ Users \intersect (0 .. N) = {}

Stages == 1 .. N
Promises == 0 .. N

(* The thread that settles the root, one for the end of each suspended
   function, and the users. *)
Threads == Promises \union Users

Nobody == N + 1

VARIABLES
    parent,     \* the promise a stage is attached to
    form,       \* how it was attached
    isVoid,     \* the type of each promise is void (IS_VOID)
    out,        \* the outcome of each promise
    awaiters,   \* Promise::awaiters_ of each promise
    selfOwned,  \* Handle::self_owned_ of each promise is set
    held,       \* the user holds the WPromise of each promise
    pc,         \* where each stage is
    runs,       \* how often the function of a stage has been called
    eager,      \* the stages that called it at once, until it has ended
    stack       \* the calls each thread is in, the innermost first

stageVars   == <<parent, form, isVoid>>
promiseVars == <<out, awaiters, selfOwned, held>>
vars == <<stageVars, promiseVars, pc, runs, eager, stack>>

Pending == [ok |-> FALSE, by |-> Nobody]
Value(i) == [ok |-> TRUE, by |-> i]
Exception(i) == [ok |-> FALSE, by |-> i]

NoForm == [op |-> "none"]

IsDone(p) == out[p] # Pending

(* The calls a thread can be in: OnResolved of a promise with the callbacks
   still to run, the function of a stage, and the Then, Catch or Finally that
   attaches a stage. *)
Firing(p, batch) == [in |-> "fire", of |-> p, batch |-> batch, lock |-> FALSE]
Calling(i, lock) == [in |-> "call", of |-> i, batch |-> <<>>, lock |-> lock]
Attaching(i) == [in |-> "attach", of |-> i, batch |-> <<>>, lock |-> FALSE]

Idle(t) == stack[t] = <<>>
Top(t, in) == ~Idle(t) /\ Head(stack[t]).in = in

Frames == UNION {{stack[t][k] : k \in DOMAIN stack[t]} : t \in Threads}

(* A function is running under the shared lock of promise p. *)
Locked(p) == \E f \in Frames : f.lock /\ parent[f.of] = p

(* A Then, Catch or Finally on promise p has not returned. *)
InUse(p) == \E f \in Frames : f.in = "attach" /\ parent[f.of] = p

(* The strong references to promise p: its WPromise, the self argument of an
   && overload, self_owned_, and the pointers OnResolved's caller holds. *)
Alive(p) ==
    \/ held[p]
    \/ selfOwned[p]
    \/ InUse(p)
    \/ \E f \in Frames : f.in = "fire" /\ f.of = p

------------------------------------------------------------------------------
(* What the operations compute. *)

(* Then, Catch and Finally are written out twice: for a promise that has
   settled, and as the callback of one that has not.  A branch that knows the
   outcome o calls the function, some of them before they unlock, or settles
   the new promise with what it found. *)
Run(lock) == [runs |-> TRUE, lock |-> lock, out |-> Pending]
Pass(o)   == [runs |-> FALSE, lock |-> FALSE, out |-> o]

ThenNow(f, o, void) == IF o.ok THEN Run(f.async /\ void) ELSE Pass(o)
ThenLater(f, o) == IF o.ok THEN Run(FALSE) ELSE Pass(o)

CatchNow(f, o) == IF ~o.ok /\ f.matches THEN Run(FALSE) ELSE Pass(o)

(* Mutant: the callback takes every exception. *)
CatchLaterUntyped(f, o) == IF ~o.ok THEN Run(FALSE) ELSE Pass(o)

CatchLater(f, o) == IF ~o.ok /\ f.matches THEN Run(FALSE) ELSE Pass(o)

FinallyNow(f, o, void) == Run(o.ok /\ void)
FinallyLater(f, o) == Run(FALSE)

Now(f, o, void) ==
    CASE f.op = "then"    -> ThenNow(f, o, void)
      [] f.op = "catch"   -> CatchNow(f, o)
      [] f.op = "finally" -> FinallyNow(f, o, void)

Later(f, o) ==
    CASE f.op = "then"    -> ThenLater(f, o)
      [] f.op = "catch"   -> CatchLater(f, o)
      [] f.op = "finally" -> FinallyLater(f, o)

(* What the function's end means for the new promise, in each branch.  The
   two of Finally share apply_value and apply_exception. *)
ThenResultNow(i, f)    == IF f.throws THEN Exception(i) ELSE Value(i)
ThenResultLater(i, f)  == IF f.throws THEN Exception(i) ELSE Value(i)
CatchResultNow(i, f)   == IF f.throws THEN Exception(i) ELSE Value(i)
CatchResultLater(i, f) == IF f.throws THEN Exception(i) ELSE Value(i)
FinallyResult(i, f, o) == IF f.throws THEN Exception(i) ELSE o

ResultOf(i, f, o, now) ==
    CASE f.op = "then"    -> IF now THEN ThenResultNow(i, f) ELSE ThenResultLater(i, f)
      [] f.op = "catch"   -> IF now THEN CatchResultNow(i, f) ELSE CatchResultLater(i, f)
      [] f.op = "finally" -> FinallyResult(i, f, o)

(* ThenReturn, CatchReturn and FinallyReturn: whether the type is void. *)
ReturnsVoid(f, void) ==
    CASE f.op = "then"    -> f.void
      [] f.op = "catch"   -> f.void /\ void
      [] f.op = "finally" -> void

------------------------------------------------------------------------------
Init ==
    /\ parent = [i \in Stages |-> Nobody]
    /\ form = [i \in Stages |-> NoForm]
    /\ \E void \in BOOLEAN : isVoid = [p \in Promises |-> void]
    /\ out = [p \in Promises |-> Pending]
    /\ awaiters = [p \in Promises |-> <<>>]
    /\ selfOwned = [p \in Promises |-> FALSE]
    /\ held = [p \in Promises |-> p = 0]
    /\ pc = [i \in Stages |-> "none"]
    /\ runs = [i \in Stages |-> 0]
    /\ eager = {}
    /\ stack = [t \in Threads |-> <<>>]

(* Resolver::Resolve or Reject of promise p on thread t, whose calls below
   are rest: store the outcome, take the awaiters and self_owned_. *)
Settle(t, p, o, rest) ==
    /\ out' = [out EXCEPT ![p] = o]
    /\ stack' = [stack EXCEPT ![t] = <<Firing(p, awaiters[p])>> \o rest]
    /\ awaiters' = [awaiters EXCEPT ![p] = <<>>]
    /\ selfOwned' = [selfOwned EXCEPT ![p] = FALSE]

(* Stage i does what its branch says. *)
Enter(t, i, branch, rest) ==
    IF branch.runs
      THEN /\ pc' = [pc EXCEPT ![i] = "calling"]
           /\ runs' = [runs EXCEPT ![i] = @ + 1]
           /\ stack' = [stack EXCEPT ![t] = <<Calling(i, branch.lock)>> \o rest]
           /\ UNCHANGED <<out, awaiters, selfOwned>>
      ELSE /\ pc' = [pc EXCEPT ![i] = "settled"]
           /\ Settle(t, i, branch.out, rest)
           /\ UNCHANGED runs

------------------------------------------------------------------------------
(* The root is settled by its coroutine or through its handles. *)
SettleRoot(o) ==
    /\ ~IsDone(0)
    /\ o \in {Value(0), Exception(0)}
    /\ Settle(0, 0, o, <<>>)
    /\ UNCHANGED <<stageVars, held, pc, runs, eager>>

(* User code runs: a user at top level, or the function of a stage. *)
InUserCode(t) == (t \in Users /\ Idle(t)) \/ Top(t, "call")

(* Thread t can call Then, Catch or Finally on promise p and gets the mutex.
   Stages are numbered in the order in which they are attached. *)
MayAttach(t, i, p) ==
    /\ InUserCode(t)
    /\ pc[i] = "none"
    /\ \A j \in 1 .. i - 1 : pc[j] # "none"
    /\ p < i /\ held[p]
    /\ ~Locked(p)

(* Mutant: it is registered without a look at IsDone. *)
AttachUnchecked(t, i, p, f) ==
    /\ f.rvalue => ~InUse(p)
    /\ parent' = [parent EXCEPT ![i] = p]
    /\ form' = [form EXCEPT ![i] = f]
    /\ isVoid' = [isVoid EXCEPT ![i] = ReturnsVoid(f, isVoid[p])]
    /\ held' = [held EXCEPT ![p] = ~f.rvalue]
    /\ awaiters' = [awaiters EXCEPT ![p] = Append(@, i)]
    /\ pc' = [pc EXCEPT ![i] = "waiting"]
    /\ stack' = [stack EXCEPT ![t] = <<Attaching(i)>> \o stack[t]]
    /\ UNCHANGED <<out, selfOwned, runs, eager>>

(* Then, Catch or Finally on promise p.  A temporary is nobody else's. *)
Attach(t, i, p, f) ==
    /\ f.rvalue => ~InUse(p)
    /\ parent' = [parent EXCEPT ![i] = p]
    /\ form' = [form EXCEPT ![i] = f]
    /\ isVoid' = [isVoid EXCEPT ![i] = ReturnsVoid(f, isVoid[p])]
    /\ held' = [held EXCEPT ![p] = ~f.rvalue]
    /\ LET rest == <<Attaching(i)>> \o stack[t]
           now  == Now(f, out[p], isVoid[p])
       IN
         IF IsDone(p)
           THEN /\ Enter(t, i, now, rest)
                /\ eager' = eager \union {j \in {i} : now.runs}
           ELSE /\ awaiters' = [awaiters EXCEPT ![p] = Append(@, i)]
                /\ pc' = [pc EXCEPT ![i] = "waiting"]
                /\ stack' = [stack EXCEPT ![t] = rest]
                /\ UNCHANGED <<out, selfOwned, runs, eager>>

(* The call returns the new promise.  On a temporary it first detaches it: a
   promise that is still pending owns itself until it has settled. *)
Attached(t) ==
    /\ Top(t, "attach")
    /\ LET i == Head(stack[t]).of
           p == parent[i]
       IN  /\ held' = [held EXCEPT ![i] = TRUE]
           /\ selfOwned' = [selfOwned EXCEPT
                               ![p] = @ \/ (form[i].rvalue /\ ~IsDone(p))]
    /\ stack' = [stack EXCEPT ![t] = Tail(@)]
    /\ UNCHANGED <<stageVars, out, awaiters, pc, runs, eager>>

(* Mutant: the callback stays in the list it is called from. *)
FireAgain(t) ==
    /\ Top(t, "fire")
    /\ LET frame == Head(stack[t]) IN
         /\ frame.batch # <<>>
         /\ LET i == Head(frame.batch) IN
              Enter(t, i, Later(form[i], out[frame.of]), stack[t])
    /\ UNCHANGED <<stageVars, held, eager>>

(* OnResolved calls the next callback. *)
Fire(t) ==
    /\ Top(t, "fire")
    /\ LET frame == Head(stack[t]) IN
         /\ frame.batch # <<>>
         /\ LET i == Head(frame.batch) IN
              Enter(t, i, Later(form[i], out[frame.of]),
                    <<Firing(frame.of, Tail(frame.batch))>> \o Tail(stack[t]))
    /\ UNCHANGED <<stageVars, held, eager>>

(* OnResolved returns. *)
Fired(t) ==
    /\ Top(t, "fire")
    /\ Head(stack[t]).batch = <<>>
    /\ stack' = [stack EXCEPT ![t] = Tail(@)]
    /\ UNCHANGED <<stageVars, promiseVars, pc, runs, eager>>

(* The function of the stage on top ends: it returns, throws, or its
   coroutine does so without having suspended. *)
Return(t) ==
    /\ Top(t, "call")
    /\ LET i == Head(stack[t]).of IN
         /\ pc' = [pc EXCEPT ![i] = "settled"]
         /\ Settle(t, i, ResultOf(i, form[i], out[parent[i]], i \in eager), Tail(stack[t]))
         /\ eager' = eager \ {i}
    /\ UNCHANGED <<stageVars, held, runs>>

(* The function returns a promise that is still pending. *)
Suspend(t) ==
    /\ Top(t, "call")
    /\ LET i == Head(stack[t]).of IN
         /\ form[i].async
         /\ pc' = [pc EXCEPT ![i] = "suspended"]
    /\ stack' = [stack EXCEPT ![t] = Tail(@)]
    /\ UNCHANGED <<stageVars, promiseVars, runs, eager>>

(* The suspended function of stage i is resumed, ends, and its promise
   forwards the result. *)
Resume(i) ==
    /\ pc[i] = "suspended"
    /\ pc' = [pc EXCEPT ![i] = "settled"]
    /\ Settle(i, i, ResultOf(i, form[i], out[parent[i]], i \in eager), <<>>)
    /\ eager' = eager \ {i}
    /\ UNCHANGED <<stageVars, held, runs>>

(* What a thread does by itself: user code may go on for ever without
   attaching anything. *)
Step(t) ==
    \/ t = 0 /\ \E o \in {Value(0), Exception(0)} : SettleRoot(o)
    \/ Attached(t)
    \/ Fire(t)
    \/ Fired(t)
    \/ Return(t)
    \/ Suspend(t)
    \/ t \in Stages /\ Resume(t)

Next ==
    \/ \E t \in Threads : Step(t)
    \/ \E t \in Threads, i \in Stages, p \in Promises :
         MayAttach(t, i, p) /\ \E f \in Forms : Attach(t, i, p, f)

Spec == Init /\ [][Next]_vars

(* The root is settled some day, a function that has been called ends, and a
   thread that is inside the library goes on. *)
Fairness == \A t \in Threads : WF_vars(Step(t))

FairSpec == Spec /\ Fairness

------------------------------------------------------------------------------
(* The calls a thread can be in, whatever they are about. *)
Calls == [in : {"fire", "call", "attach"}, of : Promises, batch : Seq(Stages),
          lock : BOOLEAN]

(* The types of the variables, and what ties them: a stage is settled when
   its promise has an outcome, and only a stage that was attached has one. *)
TypeOK ==
    /\ parent \in [Stages -> Promises \union {Nobody}]
    /\ form \in [Stages -> AllForms \union {NoForm}]
    /\ isVoid \in [Promises -> BOOLEAN]
    /\ out \in [Promises -> [ok : BOOLEAN, by : Promises] \union {Pending}]
    /\ \A i \in Stages : pc[i] = "settled" <=> IsDone(i)
    /\ awaiters \in [Promises -> Seq(Stages)]
    /\ selfOwned \in [Promises -> BOOLEAN]
    /\ held \in [Promises -> BOOLEAN]
    /\ pc \in [Stages -> {"none", "waiting", "calling", "suspended", "settled"}]
    /\ runs \in [Stages -> Nat]
    /\ eager \subseteq Stages
    /\ stack \in [Threads -> Seq(Calls)]

(* The promises from p up to the root. *)
Lineage(p) ==
    LET up[q \in Promises] ==
          IF q = 0 \/ parent[q] = Nobody THEN {q} ELSE {q} \union up[parent[q]]
    IN  up[p]

(* A stage that an outcome goes through untouched: no function could see it,
   or it was a Finally that did not throw. *)
Transparent(i, o) ==
    \/ form[i].op = "then" /\ ~o.ok
    \/ form[i].op = "catch" /\ (o.ok \/ ~form[i].matches)
    \/ form[i].op = "finally" /\ ~form[i].throws

(* A chain means what the try, catch and finally of C++ mean: the outcome of
   a stage was produced by the root or by the function of one stage above it,
   that function had to run and ran, and every stage in between is one that
   does not touch such an outcome.  The eager and the deferred branches of Then, Catch and
   Finally have to agree on this in every mixture. *)
OutcomeExplained ==
    \A i \in Stages : IsDone(i) =>
        LET o == out[i] IN
        /\ o.by \in Lineage(i)
        /\ out[o.by] = o
        /\ o.by \in Stages =>
             /\ runs[o.by] = 1
             /\ o.ok = ~form[o.by].throws
             /\ form[o.by].op = "finally" => ~o.ok
             /\ ~Transparent(o.by, out[parent[o.by]])
        /\ \A k \in Lineage(i) \ Lineage(o.by) : Transparent(k, o)

(* A function is called at most once, and the functions that were passed over
   are those that had nothing to do: whichever thread settled the promise and
   however the attachment raced with it. *)
CalledOnce ==
    \A i \in Stages :
        /\ runs[i] <= 1
        /\ pc[i] \in {"none", "waiting"} => runs[i] = 0
        /\ pc[i] = "settled" /\ runs[i] = 0 => Transparent(i, out[parent[i]])

(* No stage is lost between the thread that attaches it and the one that
   settles the promise: a waiting stage is among the awaiters of a pending
   promise, or among the callbacks that the OnResolved of a settled one is
   still to run; and nothing else is there. *)
NoStageLost ==
    /\ \A i \in Stages : pc[i] = "waiting" =>
         IF IsDone(parent[i])
           THEN \E f \in Frames : f.of = parent[i] /\ i \in Range(f.batch)
           ELSE i \in Range(awaiters[parent[i]])
    /\ \A p \in Promises : \A i \in Range(awaiters[p]) :
         pc[i] = "waiting" /\ parent[i] = p

(* The argument of a Then function is a reference into the promise it was
   attached to.  As long as the function has not ended, that promise exists. *)
ArgumentAlive ==
    \A i \in Stages :
        (/\ pc[i] \in {"calling", "suspended"}
         /\ form[i].op = "then"
         /\ ~isVoid[parent[i]]) => Alive(parent[i])

(* Every stage that was attached settles: none is left behind by the race of
   Attach with OnResolved, or behind a lock that a function holds. *)
EveryStageSettles ==
    \A i \in Stages : (pc[i] # "none") ~> (pc[i] = "settled")
=============================================================================
