---------------------------- MODULE Combinators ----------------------------
(***************************************************************************)
(* promise::All and promise::Race, over promises that they may share.      *)
(*                                                                         *)
(* Each member promise is settled by a thread of its own, which then calls *)
(* its awaiters one after the other.  All is a coroutine that awaits its   *)
(* members in turn, and runs on the thread that settled the last one it    *)
(* waited for.  Race registers a callback with each contestant; the first  *)
(* callback settles the race promise, and a chain of Finally stages, one   *)
(* for each callback, unregisters the others.                              *)
(***************************************************************************)
EXTENDS Naturals, Sequences, SequencesExt

CONSTANTS
    Members,    \* the promises, numbered
    AllOf,      \* the arguments of All
    Contestants,\* the arguments of Race, from left to right
    Lazy,       \* members settled only when awaited (Pool::Dispatch())
    Stuck,      \* members that need never settle
    AllCaller,  \* the thread that calls All
    RaceCaller  \* the thread that calls Race

ASSUME CombinatorsAssumption ==
    /\ Members \subseteq Nat \ {0}
    /\ AllOf \subseteq Members /\ IsFiniteSet(AllOf)
    /\ Contestants \in Seq(Members) /\ Contestants # <<>> /\ IsInjective(Contestants)
    /\ Lazy \subseteq Members /\ Stuck \subseteq Members
    /\ {AllCaller, RaceCaller} \intersect Members = {} /\ AllCaller # RaceCaller

(* The thread of each member, and the threads that call All and Race. *)
Threads == Members \union {AllCaller, RaceCaller}

RaceOf == Range(Contestants)

(* Race makes a promise, and one more with each Finally. *)
Chain == 0 .. Len(Contestants)

Pending == [ok |-> FALSE, by |-> 0]
Nothing == [at |-> 0, out |-> Pending]

VARIABLES
    out,        \* the outcome of each member, and who produced it
    awaiters,   \* Promise::awaiters_ of each member: All, or Race's callback
    uses,       \* Promise::use_count_ of each member
    batch,      \* the awaiters each member's thread has still to call
    order,      \* the order in which All awaits its members
    allPc,      \* where All is: running, suspended or ended
    allAt,      \* the thread it runs or ran on
    pos,        \* the member All awaits, as an index of order
    allOut,     \* the outcome of All's promise
    racePc,     \* where the call of Race is
    turn,       \* the contestant it deals with, as an index of Contestants
    claimed,    \* Resolver::resolved_ of the first race promise
    last,       \* the number of the last promise of the chain
    chain,      \* the outcome of each promise of the chain
    finally,    \* the contestant its Finally unregisters, or 0
    carry,      \* the chain promise each thread is to settle, and with what
    unawait     \* the contestant it unregisters before that, or 0

memberVars == <<out, awaiters, uses, batch>>
allVars    == <<order, allPc, allAt, pos, allOut>>
callVars   == <<racePc, turn, last>>
chainVars  == <<claimed, chain, finally, carry, unawait>>
vars == <<memberVars, allVars, callVars, chainVars>>

(* The arguments of a call are evaluated in an unspecified order, and each of
   them contains a co_await; a container is walked in its own order. *)
Init ==
    /\ out = [m \in Members |-> Pending]
    /\ awaiters = [m \in Members |-> <<>>]
    /\ uses = [m \in Members |-> 0]
    /\ batch = [m \in Members |-> <<>>]
    /\ order \in SetToSeqs(AllOf)
    /\ allPc = "running"
    /\ allAt = AllCaller
    /\ pos = 1
    /\ allOut = Pending
    /\ racePc = "test"
    /\ turn = 1
    /\ claimed = FALSE
    /\ last = 0
    /\ chain = [k \in Chain |-> Pending]
    /\ finally = [k \in Chain |-> 0]
    /\ carry = [t \in Threads |-> Nothing]
    /\ unawait = [t \in Threads |-> 0]

IsDone(m) == out[m] # Pending

(* Promise::Await, for All's coroutine or Race's callback. *)
Await(m, who) ==
    /\ awaiters' = [awaiters EXCEPT ![m] = Append(@, who)]
    /\ uses' = [uses EXCEPT ![m] = @ + 1]
    /\ UNCHANGED <<out, batch>>

------------------------------------------------------------------------------
(* The threads of the members. *)

(* The work behind a member ends: its promise is settled and its awaiters
   taken.  Behind Pool::Dispatch() is WaitAwaited(0). *)
Settle(m) ==
    /\ ~IsDone(m)
    /\ m \in Lazy => uses[m] > 0
    /\ \E ok \in BOOLEAN : out' = [out EXCEPT ![m] = [ok |-> ok, by |-> m]]
    /\ batch' = [batch EXCEPT ![m] = awaiters[m]]
    /\ awaiters' = [awaiters EXCEPT ![m] = <<>>]
    /\ UNCHANGED <<uses, allVars, callVars, chainVars>>

(* The thread is not inside All's coroutine or a call of the race handles. *)
Free(t) == ~(allPc = "running" /\ allAt = t) /\ carry[t] = Nothing

(* The thread resumes All. *)
FireAll(m) ==
    /\ Free(m)
    /\ batch[m] # <<>> /\ Head(batch[m]) = "all"
    /\ batch' = [batch EXCEPT ![m] = Tail(@)]
    /\ allPc' = "running"
    /\ allAt' = m
    /\ UNCHANGED <<out, awaiters, uses, order, pos, allOut, callVars, chainVars>>

(* Mutant: every call of the handles settles the race promise. *)
ClaimAlways(t, m) ==
    /\ claimed' = TRUE
    /\ carry' = [carry EXCEPT ![t] = [at |-> 0, out |-> out[m]]]

(* The handle of Race: pass the contestant's outcome to the resolver of the
   first race promise, which takes the first one only. *)
Claim(t, m) ==
    /\ claimed' = TRUE
    /\ carry' = IF claimed THEN carry
                ELSE [carry EXCEPT ![t] = [at |-> 0, out |-> out[m]]]

(* The thread calls Race's callback. *)
FireRace(m) ==
    /\ Free(m)
    /\ batch[m] # <<>> /\ Head(batch[m]) = "race"
    /\ batch' = [batch EXCEPT ![m] = Tail(@)]
    /\ Claim(m, m)
    /\ UNCHANGED <<out, awaiters, uses, allVars, callVars, chain, finally, unawait>>

------------------------------------------------------------------------------
(* All. *)

(* Mutant: a rejected member is passed over. *)
AllAwaitPasses ==
    /\ allPc = "running"
    /\ allOut = Pending
    /\ pos <= Len(order)
    /\ LET m == order[pos] IN
         \/ /\ ~IsDone(m)
            /\ Await(m, "all")
            /\ allPc' = "suspended"
            /\ UNCHANGED <<pos, allOut>>
         \/ /\ IsDone(m)
            /\ pos' = pos + 1
            /\ UNCHANGED <<memberVars, allPc, allOut>>
    /\ UNCHANGED <<order, allAt, callVars, chainVars>>

(* co_await of the next member: All suspends, or goes on to the one after it,
   or ends with its exception, which final_suspend stores. *)
AllAwait ==
    /\ allPc = "running"
    /\ allOut = Pending
    /\ pos <= Len(order)
    /\ LET m == order[pos] IN
         \/ /\ ~IsDone(m)
            /\ Await(m, "all")
            /\ allPc' = "suspended"
            /\ UNCHANGED <<pos, allOut>>
         \/ /\ out[m].ok
            /\ pos' = pos + 1
            /\ UNCHANGED <<memberVars, allPc, allOut>>
         \/ /\ IsDone(m) /\ ~out[m].ok
            /\ allOut' = out[m]
            /\ UNCHANGED <<memberVars, allPc, pos>>
    /\ UNCHANGED <<order, allAt, callVars, chainVars>>

AllReturn ==
    /\ allPc = "running"
    /\ allOut = Pending
    /\ pos > Len(order)
    /\ allOut' = [ok |-> TRUE, by |-> 0]
    /\ UNCHANGED <<memberVars, order, allPc, allAt, pos, callVars, chainVars>>

(* The rest of final_suspend, under the lock of All's promise: function_ is
   destroyed and with it the promises All has not reached, each of which
   waits until it is done; then the awaiters of All are told. *)
AllClear ==
    /\ allPc = "running"
    /\ allOut # Pending
    /\ \A m \in AllOf : IsDone(m)
    /\ allPc' = "ended"
    /\ UNCHANGED <<memberVars, order, allAt, pos, allOut, callVars, chainVars>>

------------------------------------------------------------------------------
(* Race. *)

Racing(pc) == racePc = pc /\ turn <= Len(Contestants) /\ carry[RaceCaller] = Nothing

Advance(pc) ==
    IF pc = "next" THEN /\ racePc' = "test" /\ turn' = turn + 1
                   ELSE /\ racePc' = pc /\ UNCHANGED turn

(* Mutant: a contestant that is not needed any more is just left out. *)
TestSkips ==
    /\ Racing("test")
    /\ IF chain[last] # Pending THEN Advance("next") ELSE Advance("join")
    /\ UNCHANGED <<memberVars, allVars, last, chainVars>>

(* race_promise.Done(): the contestant is only counted as awaited. *)
Test ==
    /\ Racing("test")
    /\ IF chain[last] # Pending
         THEN /\ uses' = [uses EXCEPT ![Contestants[turn]] = @ + 1]
              /\ Advance("next")
         ELSE /\ Advance("join")
              /\ UNCHANGED uses
    /\ UNCHANGED <<out, awaiters, batch, allVars, last, chainVars>>

(* Use the outcome of the contestant, or register a callback for it. *)
Join ==
    /\ Racing("join")
    /\ LET m == Contestants[turn] IN
         IF IsDone(m)
           THEN /\ Claim(RaceCaller, m)
                /\ Advance("next")
                /\ UNCHANGED memberVars
           ELSE /\ Await(m, "race")
                /\ Advance("attach")
                /\ UNCHANGED <<claimed, carry>>
    /\ UNCHANGED <<allVars, last, chain, finally, unawait>>

(* Mutant: a Finally on a settled promise is never called. *)
AttachPending ==
    /\ Racing("attach")
    /\ last' = last + 1
    /\ Advance("next")
    /\ IF chain[last] = Pending
         THEN /\ finally' = [finally EXCEPT ![last] = Contestants[turn]]
              /\ UNCHANGED <<carry, unawait>>
         ELSE /\ carry' = [carry EXCEPT ![RaceCaller] =
                              [at |-> last + 1, out |-> chain[last]]]
              /\ UNCHANGED <<finally, unawait>>
    /\ UNCHANGED <<memberVars, allVars, claimed, chain>>

(* Finally on the last promise of the chain, which may have been settled
   meanwhile: then this thread runs it at once. *)
Attach ==
    /\ Racing("attach")
    /\ last' = last + 1
    /\ Advance("next")
    /\ IF chain[last] = Pending
         THEN /\ finally' = [finally EXCEPT ![last] = Contestants[turn]]
              /\ UNCHANGED <<carry, unawait>>
         ELSE /\ carry' = [carry EXCEPT ![RaceCaller] =
                              [at |-> last + 1, out |-> chain[last]]]
              /\ unawait' = [unawait EXCEPT ![RaceCaller] = Contestants[turn]]
              /\ UNCHANGED finally
    /\ UNCHANGED <<memberVars, allVars, claimed, chain>>

(* The function of the Finally: UnAwait(id), which finds nothing if the
   callback has been taken. *)
UnAwait(t) ==
    /\ unawait[t] # 0
    /\ awaiters' = [awaiters EXCEPT ![unawait[t]] =
                       RemoveFirst(@, "race")]
    /\ unawait' = [unawait EXCEPT ![t] = 0]
    /\ UNCHANGED <<out, uses, batch, allVars, callVars, claimed, chain, finally, carry>>

(* Mutant: the chain ends at the promise that is settled. *)
SettleFirst(t) ==
    /\ carry[t] # Nothing
    /\ unawait[t] = 0
    /\ chain' = [chain EXCEPT ![carry[t].at] = carry[t].out]
    /\ carry' = [carry EXCEPT ![t] = Nothing]
    /\ UNCHANGED <<memberVars, allVars, callVars, claimed, finally, unawait>>

(* A promise of the chain is settled, and its Finally taken: this thread
   calls it, and settles the next promise with the same outcome. *)
SettleChain(t) ==
    /\ carry[t] # Nothing
    /\ unawait[t] = 0
    /\ LET k == carry[t].at IN
         /\ chain' = [chain EXCEPT ![k] = carry[t].out]
         /\ unawait' = [unawait EXCEPT ![t] = finally[k]]
         /\ finally' = [finally EXCEPT ![k] = 0]
         /\ carry' = [carry EXCEPT ![t] =
                         IF finally[k] = 0 THEN Nothing ELSE [@ EXCEPT !.at = k + 1]]
    /\ UNCHANGED <<memberVars, allVars, callVars, claimed>>

------------------------------------------------------------------------------
All == AllAwait \/ AllReturn \/ AllClear

Race == Test \/ Join \/ Attach

Propagate(t) == UnAwait(t) \/ SettleChain(t)

Fire(m) == FireAll(m) \/ FireRace(m)

Next ==
    \/ \E m \in Members : Settle(m) \/ Fire(m)
    \/ All
    \/ Race
    \/ \E t \in Threads : Propagate(t)

Spec == Init /\ [][Next]_vars

(* Threads go on; the work behind a member ends unless it is Stuck. *)
Fairness ==
    /\ \A m \in Members \ Stuck : WF_vars(Settle(m))
    /\ \A m \in Members : WF_vars(Fire(m))
    /\ \A t \in Threads : WF_vars(Propagate(t))
    /\ WF_vars(All)
    /\ WF_vars(Race)

FairSpec == Spec /\ Fairness

------------------------------------------------------------------------------
Outcomes == [ok : BOOLEAN, by : Members \union {0}]

(* The types of the variables; a promise is awaited by All and by Race's
   callback at most once each. *)
TypeOK ==
    /\ out \in [Members -> Outcomes]
    /\ awaiters \in [Members -> Seq({"all", "race"})]
    /\ uses \in [Members -> Nat]
    /\ batch \in [Members -> Seq({"all", "race"})]
    /\ \A m \in Members : IsInjective(awaiters[m] \o batch[m])
    /\ order \in Seq(AllOf)
    /\ allPc \in {"running", "suspended", "ended"}
    /\ allAt \in Threads
    /\ pos \in 1 .. Len(order) + 1
    /\ allOut \in Outcomes
    /\ racePc \in {"test", "join", "attach"}
    /\ turn \in 1 .. Len(Contestants) + 1
    /\ claimed \in BOOLEAN
    /\ last \in Chain
    /\ chain \in [Chain -> Outcomes]
    /\ finally \in [Chain -> RaceOf \union {0}]
    /\ carry \in [Threads -> [at : Chain, out : Outcomes]]
    /\ unawait \in [Threads -> RaceOf \union {0}]

(* All resolves if all its members did, and else has the exception of the
   first one, in the order of its awaits, that was rejected: not of the first
   one that was rejected in time. *)
AllOutcome ==
    allOut # Pending =>
        IF allOut.ok
          THEN \A m \in AllOf : out[m].ok
          ELSE \E k \in 1 .. Len(order) :
                 /\ allOut = out[order[k]] /\ IsDone(order[k])
                 /\ \A j \in 1 .. k - 1 : out[order[j]].ok

(* The promises of the race chain that have settled agree, on the outcome of
   one contestant, however many contestants settle at once. *)
OneWinner ==
    \E m \in RaceOf : \A k \in Chain :
        chain[k] # Pending => chain[k] = out[m] /\ k <= last

(* When Race has returned and its promise has settled, no contestant still
   has the callback that refers to the race: neither those registered before
   the winner settled nor those registered while the chain was being run. *)
NoLoserRegistered ==
    turn > Len(Contestants) /\ carry[RaceCaller] = Nothing /\ chain[last] # Pending =>
        \A m \in RaceOf : ~Contains(awaiters[m], "race")

(* All comes to its end, though it may have to wait, on the thread of the
   member that was rejected, for the members it never awaits. *)
AllSettles == <>(allPc = "ended")

(* One settled contestant is enough for the race, wherever the call of Race
   was when it settled and whatever the others do. *)
RaceSettles ==
    (\E m \in RaceOf : IsDone(m)) ~>
        (turn > Len(Contestants) /\ chain[last] # Pending)
=============================================================================
