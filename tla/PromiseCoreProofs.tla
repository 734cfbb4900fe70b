-------------------------- MODULE PromiseCoreProofs --------------------------
(***************************************************************************)
(* Theorems about one promise, for every set of threads, awaiters, owners  *)
(* and watchers.                                                           *)
(***************************************************************************)
EXTENDS PromiseCore, TLAPS

(* What erasing one element of a sequence leaves. *)
LEMMA EraseFacts ==
    ASSUME NEW S, NEW s \in Seq(S), NEW i \in 1 .. Len(s)
    PROVE  /\ Erase(s, i) \in Seq(S)
           /\ Len(Erase(s, i)) = Len(s) - 1
           /\ \A j \in 1 .. Len(s) - 1 :
                 Erase(s, i)[j] = IF j < i THEN s[j] ELSE s[j + 1]
<1> DEFINE p == SubSeq(s, 1, i - 1)
           q == SubSeq(s, i + 1, Len(s))
<1>1. /\ p \in Seq(S) /\ Len(p) = i - 1
      /\ \A j \in 1 .. i - 1 : p[j] = s[j]
  OBVIOUS
<1>2. /\ q \in Seq(S) /\ Len(q) = Len(s) - i
      /\ \A j \in 1 .. Len(s) - i : q[j] = s[i + j]
  OBVIOUS
<1>3. Erase(s, i) = p \o q
  BY DEF Erase, RemoveAt
<1> HIDE DEF p, q
<1>4. \A j \in 1 .. Len(s) - 1 :
        (p \o q)[j] = IF j < i THEN p[j] ELSE q[j - (i - 1)]
  BY <1>1, <1>2
<1>5. \A j \in 1 .. Len(s) - 1 : ~(j < i) => /\ j - (i - 1) \in 1 .. Len(s) - i
                                           /\ i + (j - (i - 1)) = j + 1
  OBVIOUS
<1> QED
  <2>1. Erase(s, i) \in Seq(S) /\ Len(Erase(s, i)) = Len(s) - 1
    BY <1>1, <1>2, <1>3
  <2>2. ASSUME NEW j \in 1 .. Len(s) - 1
        PROVE  Erase(s, i)[j] = IF j < i THEN s[j] ELSE s[j + 1]
    <3>1. CASE j < i
      BY <1>1, <1>3, <1>4, <3>1
    <3>2. CASE ~(j < i)
      <4>1. Erase(s, i)[j] = q[j - (i - 1)]
        BY <1>3, <1>4, <3>2
      <4>2. q[j - (i - 1)] = s[i + (j - (i - 1))]
        BY <1>2, <1>5, <3>2
      <4> QED
        BY <1>5, <3>2, <4>1, <4>2
    <3> QED
      BY <3>1, <3>2
  <2> QED
    BY <2>1, <2>2

(* Erasing one element, as UnAwait does, removes that element only. *)
LEMMA EraseElements ==
    ASSUME NEW S, NEW s \in Seq(S), NEW i \in 1 .. Len(s), IsInjective(s)
    PROVE  /\ IsInjective(Erase(s, i))
           /\ \A b : Contains(Erase(s, i), b) <=> Contains(s, b) /\ b # s[i]
<1> DEFINE e == Erase(s, i)
<1>1. e \in Seq(S) /\ Len(e) = Len(s) - 1
  BY EraseFacts
<1>2. \A j \in 1 .. Len(s) - 1 : e[j] = IF j < i THEN s[j] ELSE s[j + 1]
  BY EraseFacts
<1> HIDE DEF e
<1>6. ASSUME NEW j \in 1 .. Len(e)
      PROVE  \E m \in 1 .. Len(s) :
                /\ e[j] = s[m] /\ m # i
                /\ j < i => m = j
                /\ ~(j < i) => m = j + 1
  <2>1. CASE j < i
    <3>1. j \in 1 .. Len(s) /\ e[j] = s[j]
      BY <1>1, <1>2, <2>1
    <3> QED
      BY <2>1, <3>1
  <2>2. CASE ~(j < i)
    <3>1. j + 1 \in 1 .. Len(s) /\ e[j] = s[j + 1]
      BY <1>1, <1>2, <2>2
    <3> QED
      BY <2>2, <3>1
  <2> QED
    BY <2>1, <2>2
<1>3. IsInjective(e)
  <2> SUFFICES ASSUME NEW j \in 1 .. Len(e), NEW k \in 1 .. Len(e), e[j] = e[k]
               PROVE  j = k
    BY <1>1 DEF IsInjective
  <2>1. PICK m \in 1 .. Len(s) :
          e[j] = s[m] /\ (j < i => m = j) /\ (~(j < i) => m = j + 1)
    BY <1>6
  <2>2. PICK n \in 1 .. Len(s) :
          e[k] = s[n] /\ (k < i => n = k) /\ (~(k < i) => n = k + 1)
    BY <1>6
  <2>3. m = n
    <3>1. s[m] = s[n]
      BY <2>1, <2>2, Zenon
    <3>2. m \in DOMAIN s /\ n \in DOMAIN s
      OBVIOUS
    <3> QED
      BY <3>1, <3>2 DEF IsInjective
  <2> QED
    BY <1>1, <2>1, <2>2, <2>3
<1>4. ASSUME NEW b, Contains(e, b) PROVE Contains(s, b) /\ b # s[i]
  <2>1. PICK j \in 1 .. Len(e) : e[j] = b
    BY <1>4 DEF Contains
  <2>2. PICK m \in 1 .. Len(s) : e[j] = s[m] /\ m # i
    BY <1>6
  <2> QED
    BY <2>1, <2>2 DEF Contains, IsInjective
<1>5. ASSUME NEW b, Contains(s, b), b # s[i] PROVE Contains(e, b)
  <2>1. PICK k \in 1 .. Len(s) : s[k] = b
    BY <1>5 DEF Contains
  <2>2. CASE k < i
    BY <1>1, <1>2, <2>1, <2>2 DEF Contains
  <2>3. CASE k > i
    <3>1. k - 1 \in 1 .. Len(e) /\ e[k - 1] = b
      BY <1>1, <1>2, <2>1, <2>3
    <3> QED
      BY <3>1 DEF Contains
  <2> QED
    BY <1>5, <2>1, <2>2, <2>3
<1> QED
  BY <1>3, <1>4, <1>5 DEF e

(* The vector that OnResolved leaves behind holds nobody. *)
LEMMA EmptyElements == IsInjective(<<>>) /\ \A b : ~Contains(<<>>, b)
  BY DEF IsInjective, Contains

(* Registering a newcomer adds that awaiter and no other. *)
LEMMA AppendElements ==
    ASSUME NEW S, NEW s \in Seq(S), NEW a \in S, IsInjective(s), ~Contains(s, a)
    PROVE  /\ IsInjective(Append(s, a))
           /\ \A b : Contains(Append(s, a), b) <=> Contains(s, b) \/ b = a
  BY DEF IsInjective, Contains

(* One turn of the loop of OnResolved removes the awaiter it calls. *)
LEMMA TailElements ==
    ASSUME NEW S, NEW s \in Seq(S), s # <<>>, IsInjective(s)
    PROVE  /\ IsInjective(Tail(s))
           /\ Contains(s, Head(s))
           /\ \A b : Contains(Tail(s), b) <=> Contains(s, b) /\ b # Head(s)
<1>1. IsInjective(Tail(s))
  BY DEF IsInjective
<1>2. Contains(s, Head(s))
  BY DEF Contains
<1>3. ASSUME NEW b, Contains(Tail(s), b) PROVE Contains(s, b) /\ b # Head(s)
  BY <1>3 DEF IsInjective, Contains
<1>4. ASSUME NEW b, Contains(s, b), b # Head(s) PROVE Contains(Tail(s), b)
  <2>1. PICK k \in 1 .. Len(s) : s[k] = b
    BY <1>4 DEF Contains
  <2>2. k - 1 \in 1 .. Len(Tail(s)) /\ Tail(s)[k - 1] = b
    BY <1>4, <2>1
  <2> QED
    BY <2>2 DEF Contains
<1> QED
  BY <1>1, <1>2, <1>3, <1>4

(* The predicates that cv_ wakes keep their types. *)
LEMMA NotifyType ==
    ASSUME TypeOK, NotifyAll
    PROVE  /\ owner' \in [Owners -> {"holding", "waiting", "blocked", "released"}]
           /\ watch' \in [Watchers -> {"idle", "waiting", "blocked", "done"}]
           /\ last' \in [Watchers -> Nat]
  BY DEF TypeOK, NotifyAll

(* Registering an awaiter, or going on at once, keeps the types. *)
LEMMA AwaitType ==
    ASSUME TypeOK, NEW a \in Awaiters, Await(a) \/ Immediately(a)
    PROVE  /\ useCount' \in Nat
           /\ awaiters' \in Seq(Awaiters)
           /\ apc' \in [Awaiters -> {"idle", "ready", "suspended", "done",
                                     "skipped", "removed", "late"}]
           /\ id' \in [Awaiters -> Nat]
           /\ seen' \in [Awaiters -> {"none", "resolved", "rejected"}]
           /\ owner' \in [Owners -> {"holding", "waiting", "blocked", "released"}]
           /\ watch' \in [Watchers -> {"idle", "waiting", "blocked", "done"}]
           /\ last' \in [Watchers -> Nat]
<1>1. CASE Await(a)
  BY <1>1, NotifyType DEF Await, Enqueue, TypeOK
<1>2. CASE Immediately(a)
  BY <1>2 DEF Immediately, Outcome, TypeOK, waiterVars
<1> QED
  BY <1>1, <1>2

(* OnResolved only moves awaiters and self_owned_ into the thread's locals. *)
LEMMA OnResolvedType ==
    ASSUME TypeOK, NEW t \in Threads, OnResolved(t)
    PROVE  /\ batch' \in [Threads -> Seq(Awaiters)]
           /\ awaiters' \in Seq(Awaiters)
           /\ saved' \in [Threads -> BOOLEAN]
           /\ selfOwned' \in BOOLEAN
           /\ owner' \in [Owners -> {"holding", "waiting", "blocked", "released"}]
           /\ watch' \in [Watchers -> {"idle", "waiting", "blocked", "done"}]
           /\ last' \in [Watchers -> Nat]
<1>1. batch' \in [Threads -> Seq(Awaiters)] /\ awaiters' \in Seq(Awaiters)
  BY DEF OnResolved, TypeOK
<1>2. saved' \in [Threads -> BOOLEAN] /\ selfOwned' \in BOOLEAN
  BY DEF OnResolved, TypeOK
<1> QED
  BY <1>1, <1>2, NotifyType DEF OnResolved

(* The type invariant: no action leaves the ranges of the variables. *)
THEOREM TypeCorrect == Spec => []TypeOK
<1>1. Init => TypeOK
  <2> SUFFICES ASSUME Init PROVE TypeOK
    OBVIOUS
  <2>1. /\ resolved \in BOOLEAN /\ rejected \in BOOLEAN /\ value \in BOOLEAN
        /\ exception \in BOOLEAN /\ handle \in BOOLEAN
    BY DEF Init
  <2>6. selfOwned \in BOOLEAN
    BY DEF Init
  <2>2. /\ pc \in [Threads -> {"idle", "exchange", "claimed", "firing",
                           "returned", "running", "exit", "leaving", "ended"}]
    BY DEF Init
  <2>4. batch \in [Threads -> Seq(Awaiters)]
    BY DEF Init
  <2>5. saved \in [Threads -> BOOLEAN]
    BY DEF Init
  <2>3. kind \in AllKinds /\ awaiters \in Seq(Awaiters) /\ useCount \in Nat
    BY UsageAssumption DEF Init
  <2> QED
    BY <2>1, <2>2, <2>3, <2>4, <2>5, <2>6 DEF Init, TypeOK
<1>2. TypeOK /\ [Next]_vars => TypeOK'
  <2> SUFFICES ASSUME TypeOK, [Next]_vars PROVE TypeOK'
    OBVIOUS
  <2> USE DEF TypeOK
  <2>1. CASE UNCHANGED vars
    BY <2>1 DEF vars, resolverVars, handleVars, threadVars, awaiterVars, waiterVars
  <2>2. ASSUME NEW t \in Rejects, RejectCall(t) PROVE TypeOK'
    BY <2>2 DEF RejectCall, handleVars, awaiterVars, waiterVars
  <2>3. ASSUME NEW t \in Threads, Exchange(t) PROVE TypeOK'
    BY <2>3 DEF Exchange, AfterResolver, handleVars, awaiterVars, waiterVars
  <2>4. ASSUME NEW t \in Threads, Settle(t) PROVE TypeOK'
    <3>1. value' \in BOOLEAN /\ exception' \in BOOLEAN
      BY <2>4 DEF Settle
    <3>2. CASE Done
      BY <2>4, <3>1, <3>2, OnResolvedType DEF Settle, awaiterVars
    <3>3. CASE ~Done
      BY <2>4, <3>1, <3>3 DEF Settle, awaiterVars, waiterVars
    <3> QED
      BY <3>2, <3>3
  <2>5. ASSUME NEW t \in Threads, Fire(t) PROVE TypeOK'
    <3>1. Head(batch[t]) \in Awaiters /\ Tail(batch[t]) \in Seq(Awaiters)
      BY <2>5 DEF Fire
    <3> QED
      BY <2>5, <3>1 DEF Fire, Outcome, resolverVars, handleVars, waiterVars
  <2>6. ASSUME NEW t \in Threads, Return(t) PROVE TypeOK'
    BY <2>6 DEF Return, AfterResolver, resolverVars, handleVars, awaiterVars, waiterVars
  <2>7. CASE BodyReturn
    BY <2>7 DEF BodyReturn, resolverVars, handleVars, awaiterVars, waiterVars
  <2>8. CASE BodyThrow
    BY <2>8 DEF BodyThrow, resolverVars, handleVars, awaiterVars, waiterVars
  <2>9. CASE FinalSuspend
    <3>1. Body \in Threads
      BY DEF Threads
    <3>2. CASE IsDone
      BY <2>9, <3>1, <3>2, OnResolvedType DEF FinalSuspend, resolverVars, awaiterVars
    <3>3. CASE ~IsDone
      BY <2>9, <3>3, NotifyType DEF FinalSuspend, resolverVars, awaiterVars
    <3> QED
      BY <3>2, <3>3
  <2>10. CASE Leave
    BY <2>10 DEF Leave, resolverVars, handleVars, awaiterVars, waiterVars
  <2>11. ASSUME NEW a \in Awaiters, AwaitReady(a) PROVE TypeOK'
    BY <2>11 DEF AwaitReady, Immediately, Outcome, resolverVars, threadVars, waiterVars
  <2>12. ASSUME NEW a \in Awaiters, AwaitSuspend(a) PROVE TypeOK'
    BY <2>12, AwaitType DEF AwaitSuspend, resolverVars, threadVars
  <2>13. ASSUME NEW a \in Awaiters, Chain(a) PROVE TypeOK'
    BY <2>13, AwaitType DEF Chain, resolverVars, threadVars
  <2>14. ASSUME NEW a \in Awaiters, Race(a) PROVE TypeOK'
    BY <2>14, AwaitType DEF Race, resolverVars, threadVars
  <2>15. ASSUME NEW a \in Awaiters, RaceSkip(a) PROVE TypeOK'
    BY <2>15, NotifyType DEF RaceSkip, resolverVars, threadVars
  <2>16. ASSUME NEW a \in Awaiters, UnAwait(a) PROVE TypeOK'
    <3>1. awaiters' \in Seq(Awaiters)
      <4>1. CASE \E i \in 1 .. Len(awaiters) : awaiters' = Erase(awaiters, i)
        BY <4>1, EraseFacts
      <4>2. CASE UNCHANGED awaiters
        BY <4>2
      <4> QED
        BY <2>16, <4>1, <4>2 DEF UnAwait
    <3>2. apc' \in [Awaiters -> {"idle", "ready", "suspended", "done",
                                "skipped", "removed", "late"}]
      <4>1. \/ apc' = [apc EXCEPT ![a] = "removed"]
            \/ apc' = [apc EXCEPT ![a] = "late"]
        BY <2>16 DEF UnAwait
      <4> QED
        BY <4>1
    <3> QED
      BY <2>16, <3>1, <3>2 DEF UnAwait, resolverVars, threadVars, waiterVars
  <2>17. ASSUME NEW o \in Owners, OwnerStep(o) PROVE TypeOK'
    BY <2>17 DEF OwnerStep, Destroy, WaitDone, Detach, resolverVars, handleVars,
                 threadVars, awaiterVars
  <2>18. ASSUME NEW w \in Watchers, WatcherStep(w) PROVE TypeOK'
    <3>1. CASE WaitAwaited(w)
      <4>1. PICK count \in {0, useCount} :
              /\ last' = [last EXCEPT ![w] = count]
              /\ watch' = [watch EXCEPT ![w] =
                              IF useCount > count THEN "done" ELSE "blocked"]
        BY <3>1 DEF WaitAwaited
      <4> QED
        BY <3>1, <4>1 DEF WaitAwaited, resolverVars, handleVars, threadVars, awaiterVars
    <3>2. CASE Awaited(w)
      BY <3>2 DEF Awaited, resolverVars, handleVars, threadVars, awaiterVars
    <3> QED
      BY <2>18, <3>1, <3>2 DEF WatcherStep
  <2> QED
    BY <2>1, <2>2, <2>3, <2>4, <2>5, <2>6, <2>7, <2>8, <2>9, <2>10, <2>11,
       <2>12, <2>13, <2>14, <2>15, <2>16, <2>17, <2>18
       DEF Next, ThreadStep, BodyStep, AwaiterStep
<1> QED
  BY <1>1, <1>2, PTL DEF Spec

------------------------------------------------------------------------------
(* What the steps of awaiters, owners and watchers leave alone. *)

(* await_ready, await_suspend, Then, Race and UnAwait store no outcome and move
   no thread. *)
LEMMA AwaiterFrame ==
    ASSUME NEW a \in Awaiters, AwaiterStep(a)
    PROVE  UNCHANGED <<kind, resolverVars, handle, selfOwned, threadVars>>
  BY DEF AwaiterStep, AwaitReady, AwaitSuspend, Chain, Race, RaceSkip, UnAwait

(* ~WPromise, WaitDone and Detach touch no awaiter and no outcome. *)
LEMMA OwnerFrame ==
    ASSUME NEW o \in Owners, OwnerStep(o)
    PROVE  UNCHANGED <<kind, resolverVars, handle, awaiters, useCount,
                       threadVars, awaiterVars, watch, last>>
  BY DEF OwnerStep, Destroy, WaitDone, Detach, handleVars

(* WaitAwaited changes nothing but its caller's own wait. *)
LEMMA WatcherFrame ==
    ASSUME NEW w \in Watchers, WatcherStep(w)
    PROVE  UNCHANGED <<kind, resolverVars, handleVars, threadVars,
                       awaiterVars, owner>>
  BY DEF WatcherStep, WaitAwaited, Awaited

------------------------------------------------------------------------------
(* Settling. *)

(* The strengthening of OneWinner: the flag is set before anything is stored,
   and the thread between the flag and the store is the only one. *)
SettleInv ==
    /\ IsDone => resolved
    /\ \A t \in Threads : pc[t] = "claimed" => resolved /\ ~IsDone
    /\ \A t, u \in Threads : pc[t] = "claimed" /\ pc[u] = "claimed" => t = u
    /\ \A t \in Threads : pc[t] = "firing" => IsDone

(* resolved_.exchange orders the winner before every store. *)
LEMMA SettleInvariant == Spec => []SettleInv
<1>1. Init => SettleInv
  <2> SUFFICES ASSUME Init PROVE SettleInv
    OBVIOUS
  <2>1. IsDone => resolved
    BY DEF Init, IsDone
  <2>2. \A t \in Threads : pc[t] \in {"exchange", "idle", "running", "ended"}
    BY DEF Init
  <2> QED
    BY <2>1, <2>2 DEF SettleInv
<1>2. TypeOK /\ SettleInv /\ [Next]_vars => SettleInv'
  <2> SUFFICES ASSUME TypeOK, SettleInv, [Next]_vars PROVE SettleInv'
    OBVIOUS
  <2> USE DEF TypeOK, SettleInv, IsDone
  <2>1. CASE UNCHANGED <<pc, resolverVars>>
    BY <2>1 DEF resolverVars
  <2>2. ASSUME NEW t \in Rejects, RejectCall(t) PROVE SettleInv'
    BY <2>2 DEF RejectCall, Threads, Calls
  <2>3. ASSUME NEW t \in Threads, Exchange(t) PROVE SettleInv'
    BY <2>3 DEF Exchange, Wins, AfterResolver
  <2>4. ASSUME NEW t \in Threads, Settle(t) PROVE SettleInv'
    BY <2>4 DEF Settle
  <2>5. ASSUME NEW t \in Threads, Fire(t) PROVE SettleInv'
    BY <2>1, <2>5 DEF Fire
  <2>6. ASSUME NEW t \in Threads, Return(t) PROVE SettleInv'
    BY <2>6 DEF Return, AfterResolver, resolverVars
  <2>7. CASE BodyStep
    BY <2>7 DEF BodyStep, BodyReturn, BodyThrow, FinalSuspend, Leave,
                resolverVars, Threads
  <2>8. ASSUME NEW a \in Awaiters, AwaiterStep(a) PROVE SettleInv'
    BY <2>1, <2>8, AwaiterFrame DEF threadVars
  <2>9. ASSUME NEW o \in Owners, OwnerStep(o) PROVE SettleInv'
    BY <2>1, <2>9, OwnerFrame DEF threadVars
  <2>10. ASSUME NEW w \in Watchers, WatcherStep(w) PROVE SettleInv'
    BY <2>1, <2>10, WatcherFrame DEF threadVars
  <2>11. CASE UNCHANGED vars
    BY <2>1, <2>11 DEF vars, threadVars
  <2> QED
    BY <2>2, <2>3, <2>4, <2>5, <2>6, <2>7, <2>8, <2>9, <2>10, <2>11
       DEF Next, ThreadStep
<1> QED
  BY <1>1, <1>2, TypeCorrect, PTL DEF Spec

(* However many Resolve and Reject calls race with each other and with a
   coroutine that returns or throws, the asserts before the store of
   Resolver::Resolve and Resolver::Reject hold: one call wins. *)
THEOREM OneWinnerHolds == Spec => []OneWinner
<1>1. SettleInv => OneWinner
  BY DEF SettleInv, OneWinner
<1> QED
  BY <1>1, SettleInvariant, PTL

------------------------------------------------------------------------------
(* Blocking waits. *)

(* A thread that sleeps on cv_ has a reason to: each step that can make the
   predicate of WaitDone or WaitAwaited true notifies under the same lock. *)
THEOREM NoLostWakeupHolds == Spec => []NoLostWakeup
<1>1. Init => NoLostWakeup
  BY DEF Init, NoLostWakeup
<1>2. TypeOK /\ NoLostWakeup /\ [Next]_vars => NoLostWakeup'
  <2> SUFFICES ASSUME TypeOK, NoLostWakeup, [Next]_vars PROVE NoLostWakeup'
    OBVIOUS
  <2> USE DEF NoLostWakeup, Finished, IsDone, Done
  <2>1. CASE UNCHANGED <<value, exception, handle, useCount, waiterVars>>
    BY <2>1 DEF waiterVars
  <2>2. CASE NotifyAll
    BY <2>2 DEF NotifyAll, TypeOK
  <2>3. ASSUME NEW t \in Rejects, RejectCall(t) PROVE NoLostWakeup'
    BY <2>1, <2>3 DEF RejectCall, handleVars
  <2>4. ASSUME NEW t \in Threads, ThreadStep(t) PROVE NoLostWakeup'
    <3>1. CASE Settle(t)
      <4>1. CASE handle
        BY <3>1, <4>1 DEF Settle, waiterVars
      <4> QED
        BY <2>2, <3>1, <4>1 DEF Settle, OnResolved
    <3> QED
      BY <2>1, <2>4, <3>1 DEF ThreadStep, Exchange, Fire, Return, resolverVars, handleVars
  <2>5. CASE BodyStep
    BY <2>1, <2>2, <2>5 DEF BodyStep, BodyReturn, BodyThrow, FinalSuspend, Leave,
                            OnResolved, resolverVars, handleVars
  <2>6. ASSUME NEW a \in Awaiters, AwaiterStep(a) PROVE NoLostWakeup'
    <3>1. UNCHANGED <<value, exception, handle>>
      BY <2>6, AwaiterFrame DEF resolverVars
    <3>2. NotifyAll \/ UNCHANGED <<useCount, waiterVars>>
      BY <2>6 DEF AwaiterStep, AwaitReady, AwaitSuspend, Chain, Race, RaceSkip,
                  UnAwait, Await, Immediately
    <3> QED
      BY <2>1, <2>2, <3>1, <3>2
  <2>7. ASSUME NEW o \in Owners, OwnerStep(o) PROVE NoLostWakeup'
    <3>1. UNCHANGED <<value, exception, handle, useCount, watch, last>>
      BY <2>7, OwnerFrame DEF resolverVars
    <3>2. \A p \in Owners : owner'[p] = "blocked" => owner[p] = "blocked" \/ ~Finished
      BY <2>7 DEF OwnerStep, Destroy, WaitDone, Detach, TypeOK
    <3> QED
      BY <3>1, <3>2
  <2>8. ASSUME NEW w \in Watchers, WatcherStep(w) PROVE NoLostWakeup'
    <3>1. CASE WaitAwaited(w)
      BY <3>1 DEF WaitAwaited, resolverVars, handleVars, TypeOK
    <3>2. CASE Awaited(w)
      BY <3>2 DEF Awaited, resolverVars, handleVars, TypeOK
    <3> QED
      BY <2>8, <3>1, <3>2 DEF WatcherStep
  <2>9. CASE UNCHANGED vars
    BY <2>1, <2>9 DEF vars, resolverVars, handleVars
  <2> QED
    BY <2>3, <2>4, <2>5, <2>6, <2>7, <2>8, <2>9 DEF Next
<1> QED
  BY <1>1, <1>2, TypeCorrect, PTL DEF Spec

------------------------------------------------------------------------------
(* Awaiters. *)

(* A thread has awaiters to call only in the loop of OnResolved, which is
   entered when the promise is settled and its coroutine has finished. *)
BatchInv ==
    \A t \in Threads :
        batch[t] # <<>> => pc[t] \in {"firing", "leaving"} /\ Finished

(* Only a thread inside OnResolved has a vector of awaiters to call. *)
LEMMA BatchInvariant == Spec => []BatchInv
<1>1. Init => BatchInv
  BY DEF Init, BatchInv
<1>2. TypeOK /\ BatchInv /\ [Next]_vars => BatchInv'
  <2> SUFFICES ASSUME TypeOK, BatchInv, [Next]_vars PROVE BatchInv'
    OBVIOUS
  <2> USE DEF TypeOK, BatchInv, Finished, IsDone, Done
  <2>1. CASE UNCHANGED <<pc, batch, value, exception, handle>>
    BY <2>1
  <2>2. ASSUME NEW t \in Rejects, RejectCall(t) PROVE BatchInv'
    BY <2>2 DEF RejectCall, Threads, Calls, handleVars
  <2>3. ASSUME NEW t \in Threads, Exchange(t) PROVE BatchInv'
    BY <2>3 DEF Exchange, handleVars
  <2>4. ASSUME NEW t \in Threads, Settle(t) PROVE BatchInv'
    BY <2>4 DEF Settle, OnResolved
  <2>5. ASSUME NEW t \in Threads, Fire(t) PROVE BatchInv'
    BY <2>5 DEF Fire, resolverVars, handleVars
  <2>6. ASSUME NEW t \in Threads, Return(t) PROVE BatchInv'
    BY <2>6 DEF Return, resolverVars, handleVars
  <2>7. CASE BodyReturn \/ BodyThrow \/ Leave
    BY <2>7 DEF BodyReturn, BodyThrow, Leave, resolverVars, handleVars, Threads
  <2>8. CASE FinalSuspend
    BY <2>8 DEF FinalSuspend, OnResolved, resolverVars, Threads
  <2>9. ASSUME NEW a \in Awaiters, AwaiterStep(a) PROVE BatchInv'
    BY <2>1, <2>9, AwaiterFrame DEF resolverVars, threadVars
  <2>10. ASSUME NEW o \in Owners, OwnerStep(o) PROVE BatchInv'
    BY <2>1, <2>10, OwnerFrame DEF resolverVars, threadVars
  <2>11. ASSUME NEW w \in Watchers, WatcherStep(w) PROVE BatchInv'
    BY <2>1, <2>11, WatcherFrame DEF resolverVars, handleVars, threadVars
  <2>12. CASE UNCHANGED vars
    BY <2>1, <2>12 DEF vars, resolverVars, handleVars, threadVars
  <2> QED
    BY <2>2, <2>3, <2>4, <2>5, <2>6, <2>7, <2>8, <2>9, <2>10, <2>11, <2>12
       DEF Next, ThreadStep, BodyStep
<1> QED
  BY <1>1, <1>2, TypeCorrect, PTL DEF Spec

(* No interleaving of await_suspend, Then or Race with Resolve, Reject and
   final_suspend leaves an awaiter in awaiters_ after the last look at it. *)
THEOREM NoneStrandedHolds == Spec => []NoneStranded
<1>1. Init => NoneStranded
  BY DEF Init, NoneStranded
<1>2. TypeOK /\ NoneStranded /\ [Next]_vars => NoneStranded'
  <2> SUFFICES ASSUME TypeOK, NoneStranded, [Next]_vars PROVE NoneStranded'
    OBVIOUS
  <2> USE DEF TypeOK, NoneStranded, Finished, IsDone, Done
  <2>1. CASE UNCHANGED <<awaiters, value, exception, handle>>
    BY <2>1
  <2>2. ASSUME NEW t \in Rejects, RejectCall(t) PROVE NoneStranded'
    BY <2>1, <2>2 DEF RejectCall, handleVars
  <2>3. ASSUME NEW t \in Threads, ThreadStep(t) PROVE NoneStranded'
    BY <2>3 DEF ThreadStep, Exchange, Settle, OnResolved, Fire, Return,
                resolverVars, handleVars
  <2>4. CASE BodyStep
    BY <2>4 DEF BodyStep, BodyReturn, BodyThrow, FinalSuspend, OnResolved, Leave,
                resolverVars, handleVars
  <2>5. ASSUME NEW a \in Awaiters, AwaiterStep(a) PROVE NoneStranded'
    <3>1. UNCHANGED <<value, exception, handle>>
      BY <2>5, AwaiterFrame DEF resolverVars
    <3>2. awaiters' = awaiters \/ ~IsDone \/ (\E i \in 1 .. Len(awaiters) : TRUE)
      BY <2>5 DEF AwaiterStep, AwaitReady, AwaitSuspend, Chain, Race, RaceSkip,
                  UnAwait, Immediately
    <3> QED
      BY <3>1, <3>2
  <2>6. ASSUME NEW o \in Owners, OwnerStep(o) PROVE NoneStranded'
    BY <2>1, <2>6, OwnerFrame DEF resolverVars
  <2>7. ASSUME NEW w \in Watchers, WatcherStep(w) PROVE NoneStranded'
    BY <2>1, <2>7, WatcherFrame DEF resolverVars, handleVars
  <2>8. CASE UNCHANGED vars
    BY <2>1, <2>8 DEF vars, resolverVars, handleVars
  <2> QED
    BY <2>2, <2>3, <2>4, <2>5, <2>6, <2>7, <2>8 DEF Next
<1> QED
  BY <1>1, <1>2, TypeCorrect, PTL DEF Spec

(* OnResolved moves every awaiter of awaiters_ into the thread's own vector,
   which was empty. *)
LEMMA OnResolvedAccounted ==
    ASSUME TypeOK, AwaiterAccounted, NEW t \in Threads, batch[t] = <<>>,
           OnResolved(t), UNCHANGED apc
    PROVE  AwaiterAccounted'
<1> USE DEF TypeOK
<1>1. /\ awaiters' = <<>>
      /\ batch'[t] = awaiters
      /\ \A u \in Threads : u # t => batch'[u] = batch[u]
  BY DEF OnResolved
<1>2. IsInjective(awaiters') /\ \A u \in Threads : IsInjective(batch'[u])
  BY <1>1, EmptyElements DEF AwaiterAccounted
<1>3. ASSUME NEW a \in Awaiters
      PROVE  Pending(a)' <=> \/ Contains(awaiters', a)
                             \/ \E u \in Threads : Contains(batch'[u], a)
  <2>1. Pending(a)' <=> Pending(a)
    BY DEF Pending
  <2>2. Contains(awaiters, a) <=> Contains(batch'[t], a)
    BY <1>1
  <2>3. ~Contains(awaiters', a) /\ ~Contains(batch[t], a)
    BY <1>1, EmptyElements
  <2> QED
    BY <1>1, <2>1, <2>2, <2>3 DEF AwaiterAccounted
<1>4. ASSUME NEW a \in Awaiters, NEW u \in Threads, Contains(batch'[u], a)
      PROVE  /\ ~Contains(awaiters', a)
             /\ \A v \in Threads : Contains(batch'[v], a) => v = u
  BY <1>1, <1>4, EmptyElements DEF AwaiterAccounted
<1> QED
  BY <1>2, <1>3, <1>4 DEF AwaiterAccounted

(* A registration puts an awaiter that was in no vector into awaiters_. *)
LEMMA AwaitAccounted ==
    ASSUME TypeOK, AwaiterAccounted, NEW a \in Awaiters, ~Pending(a),
           Await(a), UNCHANGED batch
    PROVE  AwaiterAccounted'
<1> USE DEF TypeOK
<1>1. ~Contains(awaiters, a) /\ \A t \in Threads : ~Contains(batch[t], a)
  BY DEF AwaiterAccounted
<1>2. /\ IsInjective(awaiters')
      /\ \A b : Contains(awaiters', b) <=> Contains(awaiters, b) \/ b = a
  BY <1>1, AppendElements DEF AwaiterAccounted, Await, Enqueue
<1>3. \A b \in Awaiters : Pending(b)' <=> Pending(b) \/ b = a
  BY DEF Await, Pending
<1> QED
  BY <1>1, <1>2, <1>3 DEF AwaiterAccounted

(* The vector and awaiters_ together hold each registered awaiter once, so
   OnResolved resumes or calls it once, and one that UnAwait erased never. *)
THEOREM AwaiterAccountedHolds == Spec => []AwaiterAccounted
<1>1. Init => AwaiterAccounted
  BY EmptyElements DEF Init, AwaiterAccounted, Pending
<1>2. TypeOK /\ BatchInv /\ AwaiterAccounted /\ [Next]_vars => AwaiterAccounted'
  <2> SUFFICES ASSUME TypeOK, BatchInv, AwaiterAccounted, [Next]_vars
               PROVE  AwaiterAccounted'
    OBVIOUS
  <2>1. ASSUME UNCHANGED <<awaiters, batch>>,
               \A a \in Awaiters : Pending(a)' <=> Pending(a)
        PROVE  AwaiterAccounted'
    BY <2>1 DEF AwaiterAccounted
  <2>2. CASE UNCHANGED <<awaiters, batch, apc>>
    BY <2>1, <2>2 DEF Pending
  <2>3. ASSUME NEW t \in Rejects, RejectCall(t) PROVE AwaiterAccounted'
    BY <2>2, <2>3 DEF RejectCall, handleVars, awaiterVars
  <2>4. ASSUME NEW t \in Threads, Settle(t) PROVE AwaiterAccounted'
    BY <2>2, <2>4, OnResolvedAccounted DEF Settle, BatchInv, awaiterVars
  <2>5. ASSUME NEW t \in Threads, Fire(t) PROVE AwaiterAccounted'
    <3> DEFINE a == Head(batch[t])
    <3>1. batch[t] \in Seq(Awaiters) /\ batch[t] # <<>> /\ IsInjective(batch[t])
      BY <2>5 DEF Fire, TypeOK, AwaiterAccounted
    <3>2. /\ IsInjective(Tail(batch[t]))
          /\ Contains(batch[t], a)
          /\ \A b : Contains(Tail(batch[t]), b) <=> Contains(batch[t], b) /\ b # a
      BY <3>1, TailElements
    <3>3. a \in Awaiters
      BY <3>1
    <3>4. /\ batch'[t] = Tail(batch[t])
          /\ \A u \in Threads : u # t => batch'[u] = batch[u]
          /\ awaiters' = awaiters
      BY <2>5 DEF Fire, TypeOK, handleVars
    <3>5. \A b \in Awaiters : Pending(b)' <=> Pending(b) /\ b # a
      BY <2>5, <3>3 DEF Fire, TypeOK, Pending
    <3>6. ~Contains(awaiters, a) /\ \A u \in Threads : u # t => ~Contains(batch[u], a)
      BY <3>2, <3>3 DEF AwaiterAccounted
    <3> HIDE DEF a
    <3> QED
      BY <3>2, <3>3, <3>4, <3>5, <3>6 DEF AwaiterAccounted
  <2>6. ASSUME NEW t \in Threads, Exchange(t) \/ Return(t) PROVE AwaiterAccounted'
    BY <2>2, <2>6 DEF Exchange, Return, handleVars, awaiterVars
  <2>7. CASE BodyReturn \/ BodyThrow \/ Leave
    BY <2>2, <2>7 DEF BodyReturn, BodyThrow, Leave, handleVars, awaiterVars
  <2>8. CASE FinalSuspend
    BY <2>2, <2>8, OnResolvedAccounted DEF FinalSuspend, BatchInv, Threads, awaiterVars
  <2>9. ASSUME NEW a \in Awaiters, ~Pending(a), Immediately(a), UNCHANGED batch
        PROVE  AwaiterAccounted'
    BY <2>1, <2>9 DEF Immediately, Pending, TypeOK
  <2>10. ASSUME NEW a \in Awaiters, AwaiterStep(a), ~UnAwait(a) PROVE AwaiterAccounted'
    <3>1. ~Pending(a) /\ UNCHANGED batch
      BY <2>10, AwaiterFrame
         DEF AwaiterStep, AwaitReady, AwaitSuspend, Chain, Race, RaceSkip, Pending, threadVars
    <3>2. CASE AwaitReady(a)
      BY <2>1, <2>9, <3>1, <3>2 DEF AwaitReady, Pending, TypeOK
    <3>3. CASE RaceSkip(a)
      BY <2>1, <3>1, <3>3 DEF RaceSkip, Pending, TypeOK
    <3> QED
      BY <2>9, <2>10, <3>1, <3>2, <3>3, AwaitAccounted
         DEF AwaiterStep, AwaitSuspend, Chain, Race
  <2>11. ASSUME NEW a \in Awaiters, UnAwait(a) PROVE AwaiterAccounted'
    <3>1. apc[a] = "suspended" /\ batch' = batch
      BY <2>11 DEF UnAwait, threadVars
    <3>2. CASE \E i \in 1 .. Len(awaiters) :
                  /\ awaiters[i] = a
                  /\ awaiters' = Erase(awaiters, i)
                  /\ apc' = [apc EXCEPT ![a] = "removed"]
      <4>1. PICK i \in 1 .. Len(awaiters) :
                  /\ awaiters[i] = a
                  /\ awaiters' = Erase(awaiters, i)
                  /\ apc' = [apc EXCEPT ![a] = "removed"]
        BY <3>2
      <4>2. awaiters \in Seq(Awaiters) /\ IsInjective(awaiters)
        BY DEF TypeOK, AwaiterAccounted
      <4>3. /\ IsInjective(awaiters')
            /\ \A b : Contains(awaiters', b) <=> Contains(awaiters, b) /\ b # a
        BY <4>1, <4>2, EraseElements
      <4>4. \A b \in Awaiters : Pending(b)' <=> Pending(b) /\ b # a
        BY <4>1 DEF Pending, TypeOK
      <4>5. Contains(awaiters, a)
        BY <4>1 DEF Contains
      <4>6. \A t \in Threads : ~Contains(batch[t], a)
        BY <4>5 DEF AwaiterAccounted
      <4> QED
        BY <3>1, <4>3, <4>4, <4>6 DEF AwaiterAccounted
    <3>3. CASE awaiters' = awaiters /\ apc' = [apc EXCEPT ![a] = "late"]
      BY <2>1, <3>1, <3>3 DEF Pending, TypeOK
    <3> QED
      BY <2>11, <3>2, <3>3 DEF UnAwait
  <2>12. ASSUME NEW o \in Owners, OwnerStep(o) PROVE AwaiterAccounted'
    BY <2>2, <2>12, OwnerFrame DEF threadVars, awaiterVars
  <2>13. ASSUME NEW w \in Watchers, WatcherStep(w) PROVE AwaiterAccounted'
    BY <2>2, <2>13, WatcherFrame DEF handleVars, threadVars, awaiterVars
  <2>14. CASE UNCHANGED vars
    BY <2>2, <2>14 DEF vars, handleVars, threadVars, awaiterVars
  <2> QED
    BY <2>3, <2>4, <2>5, <2>6, <2>7, <2>8, <2>10, <2>11, <2>12, <2>13, <2>14
       DEF Next, ThreadStep, BodyStep
<1> QED
  BY <1>1, <1>2, TypeCorrect, BatchInvariant, PTL DEF Spec

------------------------------------------------------------------------------
(* The contract. *)

(* What an awaiter read is recorded when, and only when, it is served. *)
SeenInv == \A a \in Awaiters : seen[a] # "none" <=> apc[a] = "done"

(* Whoever was called or resumed read the outcome that is stored. *)
LEMMA SeenInvariant == Spec => []SeenInv
<1>1. Init => SeenInv
  BY DEF Init, SeenInv
<1>2. TypeOK /\ SeenInv /\ [Next]_vars => SeenInv'
  <2> SUFFICES ASSUME TypeOK, SeenInv, [Next]_vars PROVE SeenInv'
    OBVIOUS
  <2> USE DEF TypeOK, SeenInv
  <2>1. CASE UNCHANGED awaiterVars
    BY <2>1 DEF awaiterVars
  <2>2. ASSUME NEW t \in Rejects, RejectCall(t) PROVE SeenInv'
    BY <2>1, <2>2 DEF RejectCall
  <2>3. ASSUME NEW t \in Threads, ThreadStep(t) PROVE SeenInv'
    <3>1. CASE Fire(t)
      BY <3>1 DEF Fire, Outcome
    <3> QED
      BY <2>1, <2>3, <3>1 DEF ThreadStep, Exchange, Settle, Return
  <2>4. CASE BodyStep
    BY <2>1, <2>4 DEF BodyStep, BodyReturn, BodyThrow, FinalSuspend, Leave
  <2>5. ASSUME NEW a \in Awaiters, AwaiterStep(a) PROVE SeenInv'
    <3>1. CASE Immediately(a)
      BY <3>1 DEF Immediately, Outcome
    <3>2. CASE apc[a] # "done" /\ seen' = seen
               /\ \E p \in {"ready", "suspended", "skipped", "removed", "late"} :
                     apc' = [apc EXCEPT ![a] = p]
      BY <3>2
    <3> QED
      BY <2>5, <3>1, <3>2 DEF AwaiterStep, AwaitReady, AwaitSuspend, Chain, Race,
                              RaceSkip, UnAwait, Await
  <2>6. ASSUME NEW o \in Owners, OwnerStep(o) PROVE SeenInv'
    BY <2>1, <2>6, OwnerFrame
  <2>7. ASSUME NEW w \in Watchers, WatcherStep(w) PROVE SeenInv'
    BY <2>1, <2>7, WatcherFrame
  <2>8. CASE UNCHANGED vars
    BY <2>1, <2>8 DEF vars
  <2> QED
    BY <2>2, <2>3, <2>4, <2>5, <2>6, <2>7, <2>8 DEF Next
<1> QED
  BY <1>1, <1>2, TypeCorrect, PTL DEF Spec

(* The code's promise implements PromiseContract: it settles at most once,
   and each awaiter learns the one outcome, at most once, after that. *)
THEOREM ContractHolds == Spec => ImplementsContract
<1> USE DEF Contract!Final
<1>1. Init => Contract!Init
  BY DEF Init, Contract!Init
<1>2. /\ TypeOK /\ SettleInv /\ BatchInv /\ SeenInv /\ AwaiterAccounted
      /\ [Next]_vars
      => [Contract!Next]_(Contract!vars)
  <2> SUFFICES ASSUME TypeOK, SettleInv, BatchInv, SeenInv, AwaiterAccounted,
                      [Next]_vars
               PROVE  Contract!Next \/ UNCHANGED Contract!vars
    OBVIOUS
  <2>1. ASSUME UNCHANGED <<value, exception, seen>> PROVE UNCHANGED Contract!vars
    BY <2>1 DEF Contract!vars
  <2>2. ASSUME NEW a \in Awaiters, IsDone, seen[a] = "none",
               seen' = [seen EXCEPT ![a] = Outcome], UNCHANGED <<value, exception>>
        PROVE  Contract!Next
    <3>1. Contract!Deliver(a)
      BY <2>2 DEF Contract!Deliver, Outcome, IsDone, TypeOK
    <3> QED
      BY <3>1 DEF Contract!Next
  <2>3. ASSUME NEW t \in Rejects, RejectCall(t) PROVE UNCHANGED Contract!vars
    BY <2>1, <2>3 DEF RejectCall, awaiterVars
  <2>4. ASSUME NEW t \in Threads, Settle(t) PROVE Contract!Next
    <3>1. ~value /\ ~exception /\ seen' = seen
      BY <2>4 DEF Settle, SettleInv, IsDone, awaiterVars
    <3>2. \/ value' = TRUE /\ exception' = exception
          \/ exception' = TRUE /\ value' = value
      BY <2>4 DEF Settle
    <3>3. Contract!Settle("resolved") \/ Contract!Settle("rejected")
      BY <3>1, <3>2 DEF Contract!Settle, TypeOK
    <3> QED
      BY <3>3 DEF Contract!Next
  <2>5. ASSUME NEW t \in Threads, Fire(t) PROVE Contract!Next
    <3>1. batch[t] \in Seq(Awaiters) /\ batch[t] # <<>>
      BY <2>5 DEF Fire, TypeOK
    <3>2. Head(batch[t]) \in Awaiters /\ Contains(batch[t], Head(batch[t]))
      BY <3>1 DEF Contains
    <3>3. IsDone /\ seen[Head(batch[t])] = "none"
      BY <3>1, <3>2 DEF BatchInv, Finished, AwaiterAccounted, Pending, SeenInv
    <3> QED
      BY <2>2, <2>5, <3>2, <3>3 DEF Fire, resolverVars
  <2>6. ASSUME NEW t \in Threads, Exchange(t) \/ Return(t) PROVE UNCHANGED Contract!vars
    BY <2>1, <2>6 DEF Exchange, Return, resolverVars, awaiterVars
  <2>7. CASE BodyStep
    BY <2>1, <2>7 DEF BodyStep, BodyReturn, BodyThrow, FinalSuspend, Leave,
                      resolverVars, awaiterVars
  <2>8. ASSUME NEW a \in Awaiters, AwaiterStep(a)
        PROVE  Contract!Next \/ UNCHANGED Contract!vars
    <3>1. UNCHANGED <<value, exception>>
      BY <2>8, AwaiterFrame DEF resolverVars
    <3>2. \/ seen' = seen
          \/ IsDone /\ apc[a] # "done" /\ seen' = [seen EXCEPT ![a] = Outcome]
      BY <2>8 DEF AwaiterStep, AwaitReady, AwaitSuspend, Chain, Race, RaceSkip,
                  UnAwait, Await, Immediately
    <3>3. apc[a] # "done" => seen[a] = "none"
      BY DEF SeenInv
    <3> QED
      BY <2>1, <2>2, <3>1, <3>2, <3>3
  <2>9. ASSUME NEW o \in Owners, OwnerStep(o) PROVE UNCHANGED Contract!vars
    BY <2>1, <2>9, OwnerFrame DEF resolverVars, awaiterVars
  <2>10. ASSUME NEW w \in Watchers, WatcherStep(w) PROVE UNCHANGED Contract!vars
    BY <2>1, <2>10, WatcherFrame DEF resolverVars, awaiterVars
  <2>11. CASE UNCHANGED vars
    BY <2>1, <2>11 DEF vars, resolverVars, awaiterVars
  <2> QED
    BY <2>3, <2>4, <2>5, <2>6, <2>7, <2>8, <2>9, <2>10, <2>11 DEF Next, ThreadStep
<1> QED
  BY <1>1, <1>2, TypeCorrect, SettleInvariant, BatchInvariant, SeenInvariant,
     AwaiterAccountedHolds, PTL DEF Spec, ImplementsContract, Contract!Spec

------------------------------------------------------------------------------
(* Who keeps the promise alive, and in which order its awaiters run.  The
   lifetime theorems hold for owners that do more than ~WPromise does by
   itself: the run PromiseCoreDestructor shows that the assumption on Policy
   cannot be dropped from the first. *)

(* Until the coroutine has finished and the promise has settled, a WPromise
   or self_owned_ refers to it: an owner may only leave through WaitDone or
   Detach, and OnResolved takes self_owned_ only after both. *)
OwnedInv == handle \/ ~IsDone => selfOwned \/ \E o \in Owners : Held(o)

(* A notification wakes owners; none of them lets go by waking up. *)
LEMMA NotifyHeld ==
    ASSUME TypeOK, NotifyAll
    PROVE  \A o \in Owners : /\ Held(o)' <=> Held(o)
                             /\ owner'[o] = "holding" <=> owner[o] = "holding"
  BY DEF TypeOK, NotifyAll, Held

(* Somebody owns the promise for as long as WaitDone would block. *)
LEMMA OwnedInvariant ==
    ASSUME Policy # "destructor"
    PROVE  Spec => []OwnedInv
<1>1. Init => OwnedInv
  BY UsageAssumption DEF Init, OwnedInv, Held
<1>2. TypeOK /\ OwnedInv /\ [Next]_vars => OwnedInv'
  <2> SUFFICES ASSUME TypeOK, OwnedInv, [Next]_vars PROVE OwnedInv'
    OBVIOUS
  <2>1. ASSUME UNCHANGED <<value, exception, handle, selfOwned>>,
               \A o \in Owners : Held(o)' <=> Held(o)
        PROVE  OwnedInv'
    BY <2>1 DEF OwnedInv, IsDone
  <2>2. CASE UNCHANGED <<value, exception, handle, selfOwned, owner>>
    BY <2>1, <2>2 DEF Held
  <2>3. ASSUME NEW t \in Rejects, RejectCall(t) PROVE OwnedInv'
    BY <2>2, <2>3 DEF RejectCall, handleVars, waiterVars
  <2>4. ASSUME NEW t \in Threads, Settle(t) PROVE OwnedInv'
    <3>1. IsDone' /\ handle' = handle
      BY <2>4 DEF Settle, IsDone
    <3>2. CASE ~handle
      BY <3>1, <3>2 DEF OwnedInv
    <3>3. CASE handle
      <4>1. UNCHANGED <<selfOwned, owner>>
        BY <2>4, <3>3 DEF Settle, Done, waiterVars
      <4> QED
        BY <3>1, <3>3, <4>1 DEF OwnedInv, Held
    <3> QED
      BY <3>2, <3>3
  <2>5. ASSUME NEW t \in Threads, Exchange(t) \/ Fire(t) \/ Return(t) PROVE OwnedInv'
    BY <2>2, <2>5 DEF Exchange, Fire, Return, resolverVars, handleVars, waiterVars
  <2>6. CASE BodyReturn \/ BodyThrow \/ Leave
    BY <2>2, <2>6 DEF BodyReturn, BodyThrow, Leave, resolverVars, handleVars, waiterVars
  <2>7. CASE FinalSuspend
    <3>1. UNCHANGED <<value, exception>> /\ handle' = FALSE
      BY <2>7 DEF FinalSuspend, resolverVars
    <3>2. CASE IsDone
      BY <3>1, <3>2 DEF OwnedInv, IsDone
    <3>3. CASE ~IsDone
      <4>1. selfOwned' = selfOwned /\ NotifyAll
        BY <2>7, <3>3 DEF FinalSuspend
      <4>2. selfOwned \/ \E o \in Owners : Held(o)
        BY <3>3 DEF OwnedInv
      <4> QED
        BY <4>1, <4>2, NotifyHeld DEF OwnedInv
    <3> QED
      BY <3>2, <3>3
  <2>8. ASSUME NEW a \in Awaiters, AwaiterStep(a) PROVE OwnedInv'
    <3>1. UNCHANGED <<value, exception, handle, selfOwned>>
      BY <2>8, AwaiterFrame DEF resolverVars
    <3>2. NotifyAll \/ UNCHANGED owner
      BY <2>8 DEF AwaiterStep, AwaitReady, AwaitSuspend, Chain, Race, RaceSkip,
                  UnAwait, Await, Immediately, waiterVars
    <3> QED
      BY <2>1, <2>2, <3>1, <3>2, NotifyHeld
  <2>9. ASSUME NEW o \in Owners, OwnerStep(o) PROVE OwnedInv'
    <3>1. UNCHANGED <<value, exception, handle>>
      BY <2>9, OwnerFrame DEF resolverVars
    <3>2. CASE Destroy(o)
      <4>1. owner' = [owner EXCEPT ![o] = "waiting"] /\ selfOwned' = selfOwned
        BY <3>2 DEF Destroy, handleVars
      <4>2. \A p \in Owners : Held(p) => Held(p)'
        BY <4>1 DEF Held, TypeOK
      <4> QED
        BY <3>1, <4>1, <4>2 DEF OwnedInv, IsDone
    <3>3. CASE WaitDone(o)
      <4>1. CASE Finished
        BY <3>1, <4>1 DEF OwnedInv, Finished, IsDone, Done
      <4>2. CASE ~Finished
        <5>1. owner' = [owner EXCEPT ![o] = "blocked"] /\ selfOwned' = selfOwned
          BY <3>3, <4>2 DEF WaitDone, handleVars
        <5>2. \A p \in Owners : Held(p) => Held(p)'
          BY <5>1 DEF Held, TypeOK
        <5> QED
          BY <3>1, <5>1, <5>2 DEF OwnedInv, IsDone
      <4> QED
        BY <4>1, <4>2
    <3>4. CASE Detach(o)
      BY <3>4 DEF Detach, OwnedInv
    <3> QED
      BY <2>9, <3>2, <3>3, <3>4 DEF OwnerStep
  <2>10. ASSUME NEW w \in Watchers, WatcherStep(w) PROVE OwnedInv'
    BY <2>2, <2>10, WatcherFrame DEF resolverVars, handleVars
  <2>11. CASE UNCHANGED vars
    BY <2>2, <2>11 DEF vars, resolverVars, handleVars, waiterVars
  <2> QED
    BY <2>3, <2>4, <2>5, <2>6, <2>7, <2>8, <2>9, <2>10, <2>11
       DEF Next, ThreadStep, BodyStep
<1> QED
  BY <1>1, <1>2, TypeCorrect, PTL DEF Spec

(* A promise that has finished does not own itself, and what OnResolved has
   taken back is dropped when it returns. *)
LeakInv ==
    /\ Finished => ~selfOwned
    /\ \A t \in Threads : saved[t] => pc[t] \in {"firing", "leaving"}

(* Detach and the end of the promise exclude each other by the mutex, and
   whoever ends it takes self_owned_ along. *)
LEMMA LeakInvariant == Spec => []LeakInv
<1>1. Init => LeakInv
  BY DEF Init, LeakInv
<1>2. TypeOK /\ LeakInv /\ [Next]_vars => LeakInv'
  <2> SUFFICES ASSUME TypeOK, LeakInv, [Next]_vars PROVE LeakInv'
    OBVIOUS
  <2> USE DEF TypeOK, LeakInv, Finished, IsDone, Done
  <2>1. CASE UNCHANGED <<pc, saved, selfOwned, value, exception, handle>>
    BY <2>1
  <2>2. ASSUME NEW t \in Rejects, RejectCall(t) PROVE LeakInv'
    BY <2>2 DEF RejectCall, Threads, Calls, handleVars
  <2>3. ASSUME NEW t \in Threads, Exchange(t) PROVE LeakInv'
    BY <2>3 DEF Exchange, handleVars
  <2>4. ASSUME NEW t \in Threads, Settle(t) PROVE LeakInv'
    BY <2>4 DEF Settle, OnResolved
  <2>5. ASSUME NEW t \in Threads, Fire(t) PROVE LeakInv'
    BY <2>5 DEF Fire, resolverVars, handleVars
  <2>6. ASSUME NEW t \in Threads, Return(t) PROVE LeakInv'
    BY <2>6 DEF Return, resolverVars, handleVars
  <2>7. CASE BodyReturn \/ BodyThrow \/ Leave
    BY <2>7 DEF BodyReturn, BodyThrow, Leave, resolverVars, handleVars, Threads
  <2>8. CASE FinalSuspend
    BY <2>8 DEF FinalSuspend, OnResolved, resolverVars, Threads
  <2>9. ASSUME NEW a \in Awaiters, AwaiterStep(a) PROVE LeakInv'
    BY <2>1, <2>9, AwaiterFrame DEF resolverVars, threadVars
  <2>10. ASSUME NEW o \in Owners, OwnerStep(o) PROVE LeakInv'
    BY <2>10 DEF OwnerStep, Destroy, WaitDone, Detach, resolverVars, handleVars,
                 threadVars
  <2>11. ASSUME NEW w \in Watchers, WatcherStep(w) PROVE LeakInv'
    BY <2>1, <2>11, WatcherFrame DEF resolverVars, handleVars, threadVars
  <2>12. CASE UNCHANGED vars
    BY <2>1, <2>12 DEF vars, resolverVars, handleVars, threadVars
  <2> QED
    BY <2>2, <2>3, <2>4, <2>5, <2>6, <2>7, <2>8, <2>9, <2>10, <2>11, <2>12
       DEF Next, ThreadStep, BodyStep
<1> QED
  BY <1>1, <1>2, TypeCorrect, PTL DEF Spec

(* No promise leaks, whatever the owners' Policy: when it has finished and
   everybody has let go of it, the count of Memcheck is back to zero. *)
THEOREM NoLeakHolds == Spec => []NoLeak
<1>1. ASSUME LeakInv, BatchInv, NoneStranded, AwaiterAccounted PROVE NoLeak
  <2> SUFFICES ASSUME Finished, Abandoned PROVE ~Alive
    BY DEF NoLeak, Refcount
  <2>1. \A t \in Threads : batch[t] = <<>> /\ ~saved[t]
    BY <1>1 DEF LeakInv, BatchInv, Abandoned
  <2>2. awaiters = <<>>
    BY <1>1 DEF NoneStranded
  <2>3. \A a \in Awaiters : ~Pending(a)
    BY <1>1, <2>1, <2>2, EmptyElements DEF AwaiterAccounted
  <2>4. \A a \in Coroutines : apc[a] # "suspended"
    BY <2>3 DEF Pending, Awaiters
  <2>5. \A a \in Racers : apc[a] # "suspended"
    BY <2>3 DEF Pending, Awaiters, Callbacks
  <2> QED
    BY <1>1, <2>1, <2>4, <2>5 DEF LeakInv, Alive, Abandoned, Held
<1> QED
  BY <1>1, LeakInvariant, BatchInvariant, NoneStrandedHolds, AwaiterAccountedHolds, PTL

(* If every owner calls WaitDone() before it destroys its WPromise, or
   detaches it, the promise outlives its coroutine: ~Promise and ~Handle find
   handle_ null, and final_suspend finds its parent_. *)
THEOREM CoroutineFindsPromiseHolds ==
    ASSUME Policy # "destructor"
    PROVE  Spec => []CoroutineFindsPromise
<1>1. OwnedInv => CoroutineFindsPromise
  BY DEF OwnedInv, CoroutineFindsPromise, Alive
<1> QED
  BY <1>1, OwnedInvariant, PTL

(* Under the same assumption the weak pointer of the resolver can be locked
   by the call that wins: assert(promise) of Resolve and Reject. *)
THEOREM ResolverFindsPromiseHolds ==
    ASSUME Policy # "destructor"
    PROVE  Spec => []ResolverFindsPromise
<1>1. OwnedInv /\ SettleInv => ResolverFindsPromise
  BY DEF OwnedInv, SettleInv, ResolverFindsPromise, Alive
<1> QED
  BY <1>1, OwnedInvariant, SettleInvariant, PTL

------------------------------------------------------------------------------

Holder == \E o \in Owners : owner[o] = "holding"

(* A continuation that waits in awaiters_ is covered by an owner that still
   holds its WPromise or by self_owned_; one that a thread is about to call,
   by such an owner or by the thread's save_self. *)
CallbackInv ==
    \A k \in Continuations :
        /\ Contains(awaiters, k) => selfOwned \/ Holder
        /\ \A t \in Threads : Contains(batch[t], k) => saved[t] \/ Holder

(* OnResolved takes save_self before the owners that wait can return. *)
LEMMA OnResolvedCallback ==
    ASSUME TypeOK, CallbackInv, NEW t \in Threads, OnResolved(t)
    PROVE  CallbackInv'
<1>1. /\ awaiters' = <<>> /\ batch'[t] = awaiters
      /\ saved'[t] = selfOwned
      /\ \A u \in Threads : u # t => batch'[u] = batch[u] /\ saved'[u] = saved[u]
  BY DEF OnResolved, TypeOK
<1>2. Holder => Holder'
  BY NotifyHeld DEF OnResolved, Holder
<1> QED
  BY <1>1, <1>2, EmptyElements DEF CallbackInv

(* A callback that waits to be called is covered by an owner or by save_self. *)
LEMMA CallbackInvariant ==
    ASSUME Policy = "join"
    PROVE  Spec => []CallbackInv
<1>1. Init => CallbackInv
  BY EmptyElements DEF Init, CallbackInv
<1>2. /\ TypeOK /\ BatchInv /\ AwaiterAccounted /\ CallbackInv
      /\ [Next]_vars
      => CallbackInv'
  <2> SUFFICES ASSUME TypeOK, BatchInv, AwaiterAccounted, CallbackInv, [Next]_vars
               PROVE  CallbackInv'
    OBVIOUS
  <2>1. ASSUME UNCHANGED <<awaiters, batch, selfOwned, saved>>, Holder => Holder'
        PROVE  CallbackInv'
    BY <2>1 DEF CallbackInv
  <2>2. CASE UNCHANGED <<awaiters, batch, selfOwned, saved, owner>>
    BY <2>1, <2>2 DEF Holder
  <2>3. ASSUME NEW t \in Rejects, RejectCall(t) PROVE CallbackInv'
    BY <2>2, <2>3 DEF RejectCall, handleVars, waiterVars
  <2>4. ASSUME NEW t \in Threads, Settle(t) PROVE CallbackInv'
    BY <2>2, <2>4, OnResolvedCallback DEF Settle, waiterVars
  <2>5. ASSUME NEW t \in Threads, Fire(t) PROVE CallbackInv'
    <3>1. /\ batch'[t] = Tail(batch[t])
          /\ \A u \in Threads : u # t => batch'[u] = batch[u]
          /\ UNCHANGED <<awaiters, selfOwned, saved, owner>>
      BY <2>5 DEF Fire, TypeOK, handleVars, waiterVars
    <3>2. \A k : Contains(Tail(batch[t]), k) => Contains(batch[t], k)
      BY <2>5, TailElements DEF Fire, TypeOK, AwaiterAccounted
    <3>3. Holder' <=> Holder
      BY <3>1 DEF Holder
    <3> QED
      BY <3>1, <3>2, <3>3 DEF CallbackInv
  <2>6. ASSUME NEW t \in Threads, Exchange(t) PROVE CallbackInv'
    BY <2>2, <2>6 DEF Exchange, handleVars, waiterVars
  <2>7. ASSUME NEW t \in Threads, batch[t] = <<>>, saved' = [saved EXCEPT ![t] = FALSE],
               UNCHANGED <<awaiters, batch, selfOwned, owner>>
        PROVE  CallbackInv'
    <3>1. Holder' <=> Holder
      BY <2>7 DEF Holder
    <3> QED
      BY <2>7, <3>1, EmptyElements DEF CallbackInv, TypeOK
  <2>8. ASSUME NEW t \in Threads, Return(t) PROVE CallbackInv'
    BY <2>7, <2>8 DEF Return, handleVars, waiterVars
  <2>9. CASE BodyReturn \/ BodyThrow
    BY <2>2, <2>9 DEF BodyReturn, BodyThrow, handleVars, waiterVars
  <2>10. CASE Leave
    BY <2>7, <2>10 DEF Leave, Threads, handleVars, waiterVars
  <2>11. CASE FinalSuspend
    <3>1. CASE IsDone
      BY <2>11, <3>1, OnResolvedCallback DEF FinalSuspend, Threads
    <3>2. CASE ~IsDone
      BY <2>1, <2>11, <3>2, NotifyHeld DEF FinalSuspend, Holder
    <3> QED
      BY <3>1, <3>2
  <2>12. ASSUME NEW a \in Awaiters, AwaiterStep(a) PROVE CallbackInv'
    <3>1. UNCHANGED <<batch, selfOwned, saved>>
      BY <2>12, AwaiterFrame DEF threadVars
    <3>2. NotifyAll \/ UNCHANGED owner
      BY <2>12 DEF AwaiterStep, AwaitReady, AwaitSuspend, Chain, Race, RaceSkip,
                   UnAwait, Await, Immediately, waiterVars
    <3>3. Holder' <=> Holder
      BY <3>2, NotifyHeld DEF Holder
    <3>4. CASE Await(a) /\ ~Pending(a) /\ (a \in Continuations => Holder)
      <4>1. awaiters \in Seq(Awaiters) /\ IsInjective(awaiters) /\ ~Contains(awaiters, a)
        BY <3>4 DEF TypeOK, AwaiterAccounted
      <4>2. \A b : Contains(awaiters', b) <=> Contains(awaiters, b) \/ b = a
        BY <3>4, <4>1, AppendElements DEF Await, Enqueue
      <4> QED
        BY <3>1, <3>3, <3>4, <4>2 DEF CallbackInv
    <3>5. CASE awaiters' = awaiters
      BY <3>1, <3>3, <3>5 DEF CallbackInv
    <3>6. CASE \E i \in 1 .. Len(awaiters) : awaiters' = Erase(awaiters, i)
      <4>1. \A b : Contains(awaiters', b) => Contains(awaiters, b)
        BY <3>6, EraseElements DEF TypeOK, AwaiterAccounted
      <4> QED
        BY <3>1, <3>3, <4>1 DEF CallbackInv
    <3>7. CASE AwaitSuspend(a) \/ Chain(a) \/ Race(a)
      <4>1. ~Pending(a) /\ (Await(a) \/ awaiters' = awaiters)
        BY <3>7 DEF AwaitSuspend, Chain, Race, Immediately, Pending
      <4>2. a \in Continuations => Holder
        BY <3>7, AwaitersAssumption
           DEF AwaitSuspend, Chain, Race, Reachable, Holder, Callbacks
      <4> QED
        BY <3>4, <3>5, <4>1, <4>2
    <3> QED
      BY <2>12, <3>5, <3>6, <3>7 DEF AwaiterStep, AwaitReady, RaceSkip, UnAwait, Immediately
  <2>13. ASSUME NEW o \in Owners, OwnerStep(o) PROVE CallbackInv'
    <3>1. UNCHANGED <<awaiters, batch, saved>>
      BY <2>13, OwnerFrame DEF threadVars
    <3>2. CASE Destroy(o)
      <4>1. \A k \in Continuations : ~Pending(k)
        BY <3>2 DEF Destroy, MayLetGo
      <4>2. \A k \in Continuations : /\ ~Contains(awaiters, k)
                                     /\ \A t \in Threads : ~Contains(batch[t], k)
        BY <4>1 DEF AwaiterAccounted, Awaiters, Callbacks
      <4> QED
        BY <3>1, <4>2 DEF CallbackInv
    <3>3. CASE WaitDone(o)
      BY <2>1, <3>1, <3>3 DEF WaitDone, Holder, TypeOK, handleVars
    <3>4. CASE Detach(o)
      <4>1. \A t \in Threads : \A k : ~Contains(batch[t], k)
        BY <3>4, EmptyElements DEF Detach, BatchInv, Finished
      <4> QED
        BY <3>1, <3>4, <4>1 DEF CallbackInv, Detach
    <3> QED
      BY <2>13, <3>2, <3>3, <3>4 DEF OwnerStep
  <2>14. ASSUME NEW w \in Watchers, WatcherStep(w) PROVE CallbackInv'
    BY <2>2, <2>14, WatcherFrame DEF handleVars, threadVars
  <2>15. CASE UNCHANGED vars
    BY <2>2, <2>15 DEF vars, handleVars, threadVars, waiterVars
  <2> QED
    BY <2>3, <2>4, <2>5, <2>6, <2>8, <2>9, <2>10, <2>11, <2>12, <2>13, <2>14, <2>15
       DEF Next, ThreadStep, BodyStep
<1> QED
  BY <1>1, <1>2, TypeCorrect, BatchInvariant, AwaiterAccountedHolds, PTL DEF Spec

(* A promise whose owners wait for what its continuations returned, or detach
   it while it is pending, outlives the loop that calls these continuations,
   which read it through a raw this. *)
THEOREM CallbackFindsPromiseHolds ==
    ASSUME Policy = "join"
    PROVE  Spec => []CallbackFindsPromise
<1>1. TypeOK /\ CallbackInv => CallbackFindsPromise
  <2> SUFFICES ASSUME TypeOK, CallbackInv, NEW t \in Threads, batch[t] # <<>>,
                      Head(batch[t]) \in Continuations
               PROVE  Alive
    BY DEF CallbackFindsPromise
  <2>1. Contains(batch[t], Head(batch[t]))
    BY DEF Contains, TypeOK
  <2> QED
    BY <2>1 DEF CallbackInv, Alive, Holder, Held
<1> QED
  BY <1>1, TypeCorrect, CallbackInvariant, PTL

------------------------------------------------------------------------------
(* Order. *)

Ascending(s) == \A i, j \in 1 .. Len(s) : i < j => id[s[i]] < id[s[j]]

(* The strengthening of RegistrationOrder: ids grow along awaiters_ and along
   the one vector that may be in use, an id is given once, and whoever was
   called after a registration came before everyone who waits. *)
OrderInv ==
    /\ \A a \in Awaiters : /\ id[a] <= useCount
                           /\ Pending(a) => id[a] # 0
                           /\ apc[a] \in {"idle", "ready"} => id[a] = 0
    /\ Ascending(awaiters)
    /\ \A t \in Threads : Ascending(batch[t])
    /\ \A t, u \in Threads : batch[t] # <<>> /\ batch[u] # <<>> => t = u
    /\ RegistrationOrder

(* Swapping awaiters_ into a local vector keeps the order of registration. *)
LEMMA OnResolvedOrder ==
    ASSUME TypeOK, BatchInv, NoneStranded, OrderInv, NEW t \in Threads,
           batch[t] = <<>>, OnResolved(t), UNCHANGED <<apc, id, useCount>>
    PROVE  OrderInv'
<1>1. /\ awaiters' = <<>> /\ batch'[t] = awaiters
      /\ \A u \in Threads : u # t => batch'[u] = batch[u]
  BY DEF OnResolved, TypeOK
<1>2. Ascending(awaiters)' /\ \A u \in Threads : Ascending(batch[u])'
  BY <1>1 DEF OrderInv, Ascending
<1>3. \A u \in Threads : batch[u] # <<>> => awaiters = <<>>
  BY DEF BatchInv, NoneStranded
<1>4. \A u, v \in Threads : batch'[u] # <<>> /\ batch'[v] # <<>> => u = v
  BY <1>1, <1>3 DEF OrderInv
<1>5. RegistrationOrder'
  BY DEF OrderInv, RegistrationOrder, Pending
<1> QED
  BY <1>2, <1>4, <1>5 DEF OrderInv, Pending

(* emplace_back registers the newcomer after everyone who waits. *)
LEMMA AwaitOrder ==
    ASSUME TypeOK, AwaiterAccounted, OrderInv, NEW a \in Awaiters,
           apc[a] \in {"idle", "ready"}, Await(a), UNCHANGED batch
    PROVE  OrderInv'
<1> USE DEF TypeOK
<1>1. /\ useCount' = useCount + 1
      /\ id'[a] = useCount + 1 /\ apc'[a] = "suspended"
      /\ \A b \in Awaiters : b # a => id'[b] = id[b] /\ apc'[b] = apc[b]
      /\ awaiters' = Append(awaiters, a)
  BY DEF Await, Enqueue
<1>2. ~Contains(awaiters, a) /\ \A t \in Threads : ~Contains(batch[t], a)
  BY DEF AwaiterAccounted, Pending
<1>3. Ascending(awaiters)'
  <2> SUFFICES ASSUME NEW i \in 1 .. Len(awaiters'), NEW j \in 1 .. Len(awaiters'), i < j
               PROVE  id'[awaiters'[i]] < id'[awaiters'[j]]
    BY DEF Ascending
  <2>1. i \in 1 .. Len(awaiters) /\ awaiters'[i] = awaiters[i]
    BY <1>1
  <2>2. awaiters[i] \in Awaiters /\ awaiters[i] # a
    BY <1>2, <2>1 DEF Contains
  <2>3. id'[awaiters'[i]] = id[awaiters[i]]
    BY <1>1, <2>1, <2>2
  <2>4. CASE j = Len(awaiters) + 1
    <3>1. awaiters'[j] = a
      BY <1>1, <2>4
    <3> QED
      BY <1>1, <2>2, <2>3, <3>1 DEF OrderInv
  <2>5. CASE j \in 1 .. Len(awaiters)
    <3>1. awaiters'[j] = awaiters[j] /\ awaiters[j] \in Awaiters /\ awaiters[j] # a
      BY <1>1, <1>2, <2>5 DEF Contains
    <3>2. id'[awaiters'[j]] = id[awaiters[j]]
      BY <1>1, <3>1
    <3> QED
      BY <2>1, <2>3, <2>5, <3>2 DEF OrderInv, Ascending
  <2>6. j = Len(awaiters) + 1 \/ j \in 1 .. Len(awaiters)
    <3>1. Len(awaiters') = Len(awaiters) + 1 /\ Len(awaiters) \in Nat
      BY <1>1
    <3> HIDE DEF TypeOK
    <3> QED
      BY <3>1
  <2> QED
    BY <2>4, <2>5, <2>6
<1>4. ASSUME NEW t \in Threads PROVE Ascending(batch[t])'
  <2>1. batch'[t] = batch[t] /\ batch[t] \in Seq(Awaiters)
    OBVIOUS
  <2>2. \A i \in 1 .. Len(batch[t]) : batch[t][i] \in Awaiters /\ batch[t][i] # a
    BY <1>2, <2>1 DEF Contains
  <2>3. \A i \in 1 .. Len(batch[t]) : id'[batch[t][i]] = id[batch[t][i]]
    BY <1>1, <2>2
  <2>4. Ascending(batch[t])
    BY DEF OrderInv
  <2> QED
    BY <2>1, <2>3, <2>4 DEF Ascending
<1>5. RegistrationOrder'
  <2> SUFFICES ASSUME NEW b \in Awaiters, NEW c \in Awaiters, id'[b] # 0, id'[c] # 0,
                      id'[b] < id'[c], apc'[c] = "done"
               PROVE  ~Pending(b)'
    BY DEF RegistrationOrder
  <2>1. c # a /\ id'[c] = id[c] /\ apc[c] = "done"
    BY <1>1
  <2>2. b # a
    BY <1>1, <2>1 DEF OrderInv
  <2> QED
    BY <1>1, <2>1, <2>2 DEF OrderInv, RegistrationOrder, Pending
<1>6. \A b \in Awaiters : /\ id'[b] <= useCount'
                          /\ Pending(b)' => id'[b] # 0
                          /\ apc'[b] \in {"idle", "ready"} => id'[b] = 0
  BY <1>1 DEF OrderInv, Pending
<1> QED
  BY <1>3, <1>4, <1>5, <1>6 DEF OrderInv

(* The loop of OnResolved calls the earliest registered awaiter first. *)
LEMMA FireOrder ==
    ASSUME TypeOK, BatchInv, NoneStranded, AwaiterAccounted, OrderInv,
           NEW t \in Threads, Fire(t)
    PROVE  OrderInv'
<1> DEFINE a == Head(batch[t])
<1>1. batch[t] \in Seq(Awaiters) /\ batch[t] # <<>> /\ IsInjective(batch[t])
  BY DEF Fire, TypeOK, AwaiterAccounted
<1>2. /\ a \in Awaiters /\ Contains(batch[t], a)
      /\ \A b : Contains(Tail(batch[t]), b) <=> Contains(batch[t], b) /\ b # a
  BY <1>1, TailElements
<1>3. /\ batch'[t] = Tail(batch[t])
      /\ \A u \in Threads : u # t => batch'[u] = batch[u]
      /\ UNCHANGED <<awaiters, useCount, id>>
      /\ apc' = [apc EXCEPT ![a] = "done"]
  BY DEF Fire, TypeOK, handleVars
<1>4. Pending(a)
  BY <1>2 DEF AwaiterAccounted
<1>5. ASSUME NEW b \in Awaiters, Pending(b), b # a PROVE id[a] < id[b]
  <2>1. awaiters = <<>> /\ \A u \in Threads : u # t => batch[u] = <<>>
    BY <1>1 DEF BatchInv, NoneStranded, OrderInv
  <2>2. Contains(batch[t], b)
    BY <1>5, <2>1, EmptyElements DEF AwaiterAccounted
  <2>3. PICK k \in 1 .. Len(batch[t]) : batch[t][k] = b
    BY <2>2 DEF Contains
  <2>4. 1 \in 1 .. Len(batch[t]) /\ batch[t][1] = a /\ 1 < k
    BY <1>1, <1>5, <2>3
  <2>5. Ascending(batch[t])
    BY DEF OrderInv
  <2> QED
    BY <2>3, <2>4, <2>5 DEF Ascending
<1>6. \A u \in Threads : Ascending(batch[u])'
  <2>1. Ascending(batch[t])'
    <3>1. \A i \in 1 .. Len(Tail(batch[t])) :
            i + 1 \in 1 .. Len(batch[t]) /\ Tail(batch[t])[i] = batch[t][i + 1]
      BY <1>1
    <3>2. Ascending(batch[t]) /\ Len(Tail(batch[t])) \in Nat
      BY <1>1 DEF OrderInv
    <3> SUFFICES ASSUME NEW i \in 1 .. Len(Tail(batch[t])),
                        NEW j \in 1 .. Len(Tail(batch[t])), i < j
                 PROVE  id[Tail(batch[t])[i]] < id[Tail(batch[t])[j]]
      BY <1>3 DEF Ascending
    <3>3. i + 1 < j + 1
      BY <3>2
    <3> QED
      BY <3>1, <3>2, <3>3 DEF Ascending
  <2> QED
    BY <1>3, <2>1 DEF OrderInv, Ascending
<1>7. \A u, v \in Threads : batch'[u] # <<>> /\ batch'[v] # <<>> => u = v
  BY <1>1, <1>3 DEF OrderInv
<1>8. \A b \in Awaiters : /\ apc'[b] = "done" <=> apc[b] = "done" \/ b = a
                          /\ Pending(b)' <=> Pending(b) /\ b # a
  BY <1>2, <1>3, <1>4 DEF TypeOK, Pending
<1>9. RegistrationOrder'
  <2> SUFFICES ASSUME NEW b \in Awaiters, NEW c \in Awaiters, id[b] # 0, id[c] # 0,
                      id[b] < id[c], apc'[c] = "done", Pending(b)'
               PROVE  FALSE
    BY <1>3 DEF RegistrationOrder
  <2>1. CASE c = a
    <3>1. id[c] < id[b] /\ id[c] \in Nat /\ id[b] \in Nat
      BY <1>5, <1>8, <2>1 DEF TypeOK
    <3> QED
      BY <3>1
  <2>2. CASE c # a
    BY <1>8, <2>2 DEF OrderInv, RegistrationOrder
  <2> QED
    BY <2>1, <2>2
<1> HIDE DEF a
<1>10. \A b \in Awaiters : /\ id'[b] <= useCount'
                           /\ Pending(b)' => id'[b] # 0
                           /\ apc'[b] \in {"idle", "ready"} => id'[b] = 0
  BY <1>2, <1>3, <1>8 DEF OrderInv, TypeOK
<1>11. Ascending(awaiters)'
  BY <1>3 DEF OrderInv, Ascending
<1> QED
  BY <1>6, <1>7, <1>9, <1>10, <1>11 DEF OrderInv

(* Erasing a race callback leaves the order of the others alone. *)
LEMMA UnAwaitOrder ==
    ASSUME TypeOK, OrderInv, NEW a \in Awaiters, UnAwait(a)
    PROVE  OrderInv'
<1>1. /\ UNCHANGED <<batch, id, useCount>>
      /\ apc[a] = "suspended"
      /\ \/ apc' = [apc EXCEPT ![a] = "removed"]
         \/ apc' = [apc EXCEPT ![a] = "late"]
  BY DEF UnAwait, threadVars
<1>2. Ascending(awaiters)'
  <2>1. CASE awaiters' = awaiters
    BY <1>1, <2>1 DEF OrderInv, Ascending
  <2>2. CASE \E i \in 1 .. Len(awaiters) : awaiters' = Erase(awaiters, i)
    <3>1. PICK i \in 1 .. Len(awaiters) : awaiters' = Erase(awaiters, i)
      BY <2>2
    <3>2. /\ Len(awaiters') = Len(awaiters) - 1
          /\ \A j \in 1 .. Len(awaiters) - 1 :
                awaiters'[j] = IF j < i THEN awaiters[j] ELSE awaiters[j + 1]
      BY <3>1, EraseFacts DEF TypeOK
    <3> SUFFICES ASSUME NEW j \in 1 .. Len(awaiters'), NEW k \in 1 .. Len(awaiters'), j < k
                 PROVE  id[awaiters'[j]] < id[awaiters'[k]]
      BY <1>1 DEF Ascending
    <3>3. Len(awaiters) \in Nat /\ Ascending(awaiters)
      BY DEF TypeOK, OrderInv
    <3>4. PICK m \in 1 .. Len(awaiters) : /\ awaiters'[j] = awaiters[m]
                                          /\ m = IF j < i THEN j ELSE j + 1
      BY <3>2, <3>3
    <3>5. PICK n \in 1 .. Len(awaiters) : /\ awaiters'[k] = awaiters[n]
                                          /\ n = IF k < i THEN k ELSE k + 1
      BY <3>2, <3>3
    <3>6. m < n
      BY <3>2, <3>3, <3>4, <3>5
    <3> QED
      BY <3>3, <3>4, <3>5, <3>6 DEF Ascending
  <2> QED
    BY <2>1, <2>2 DEF UnAwait
<1>3. \A b \in Awaiters : /\ Pending(b)' => Pending(b)
                          /\ apc'[b] = "done" => apc[b] = "done"
                          /\ apc'[b] \in {"idle", "ready"} => apc[b] \in {"idle", "ready"}
  BY <1>1 DEF TypeOK, Pending
<1>4. RegistrationOrder'
  BY <1>1, <1>3 DEF OrderInv, RegistrationOrder
<1>5. \A t \in Threads : Ascending(batch[t])'
  BY <1>1 DEF OrderInv, Ascending
<1> QED
  BY <1>1, <1>2, <1>3, <1>4, <1>5 DEF OrderInv

(* Steps that register nobody and call nobody who is registered. *)
LEMMA QuietOrder ==
    ASSUME TypeOK, OrderInv, UNCHANGED <<awaiters, batch, id>>,
           useCount' \in Nat, useCount <= useCount',
           \A a \in Awaiters :
              \/ apc'[a] = apc[a]
              \/ /\ apc[a] \in {"idle", "ready"}
                 /\ apc'[a] \in {"ready", "done", "skipped"}
    PROVE  OrderInv'
<1>1. \A a \in Awaiters : /\ Pending(a)' <=> Pending(a)
                          /\ apc'[a] = "done" => apc[a] = "done" \/ id[a] = 0
                          /\ apc'[a] \in {"idle", "ready"} => apc[a] \in {"idle", "ready"}
  BY DEF OrderInv, Pending
<1>2. RegistrationOrder'
  BY <1>1 DEF OrderInv, RegistrationOrder
<1>3. Ascending(awaiters)' /\ \A t \in Threads : Ascending(batch[t])'
  BY DEF OrderInv, Ascending
<1>4. \A a \in Awaiters : id'[a] <= useCount'
  BY DEF OrderInv, TypeOK
<1> QED
  BY <1>1, <1>2, <1>3, <1>4 DEF OrderInv

(* Coroutines and callbacks are called in the order in which await_suspend,
   Then, Catch, Finally and Race registered them, also when some of them are
   unregistered on the way. *)
THEOREM RegistrationOrderHolds == Spec => []RegistrationOrder
<1>1. Init => OrderInv
  BY DEF Init, OrderInv, RegistrationOrder, Ascending, Pending
<1>2. /\ TypeOK /\ BatchInv /\ NoneStranded /\ AwaiterAccounted /\ OrderInv
      /\ [Next]_vars
      => OrderInv'
  <2> SUFFICES ASSUME TypeOK, BatchInv, NoneStranded, AwaiterAccounted, OrderInv,
                      [Next]_vars
               PROVE  OrderInv'
    OBVIOUS
  <2>1. CASE UNCHANGED <<awaiters, batch, useCount, awaiterVars>>
    BY <2>1, QuietOrder DEF awaiterVars, TypeOK
  <2>2. ASSUME NEW t \in Rejects, RejectCall(t) PROVE OrderInv'
    BY <2>1, <2>2 DEF RejectCall, handleVars
  <2>3. ASSUME NEW t \in Threads, Settle(t) PROVE OrderInv'
    BY <2>1, <2>3, OnResolvedOrder DEF Settle, BatchInv, awaiterVars
  <2>4. ASSUME NEW t \in Threads, Exchange(t) \/ Return(t) PROVE OrderInv'
    BY <2>1, <2>4 DEF Exchange, Return, handleVars
  <2>5. CASE BodyReturn \/ BodyThrow \/ Leave
    BY <2>1, <2>5 DEF BodyReturn, BodyThrow, Leave, handleVars
  <2>6. CASE FinalSuspend
    BY <2>1, <2>6, OnResolvedOrder DEF FinalSuspend, BatchInv, Threads, awaiterVars
  <2>7. ASSUME NEW a \in Awaiters, AwaiterStep(a) PROVE OrderInv'
    <3>1. UNCHANGED batch
      BY <2>7, AwaiterFrame DEF threadVars
    <3>2. CASE Immediately(a) /\ apc[a] \in {"idle", "ready"}
      BY <3>1, <3>2, QuietOrder DEF Immediately, TypeOK
    <3>3. CASE AwaitReady(a)
      BY <3>1, <3>2, <3>3, QuietOrder DEF AwaitReady, TypeOK
    <3>4. CASE RaceSkip(a)
      BY <3>1, <3>4, QuietOrder DEF RaceSkip, TypeOK
    <3>5. CASE AwaitSuspend(a) \/ Chain(a) \/ Race(a)
      BY <3>1, <3>2, <3>5, AwaitOrder DEF AwaitSuspend, Chain, Race
    <3> QED
      BY <2>7, <3>3, <3>4, <3>5, UnAwaitOrder DEF AwaiterStep
  <2>8. ASSUME NEW o \in Owners, OwnerStep(o) PROVE OrderInv'
    BY <2>1, <2>8, OwnerFrame DEF threadVars
  <2>9. ASSUME NEW w \in Watchers, WatcherStep(w) PROVE OrderInv'
    BY <2>1, <2>9, WatcherFrame DEF handleVars, threadVars
  <2>10. CASE UNCHANGED vars
    BY <2>1, <2>10 DEF vars, handleVars, threadVars
  <2> QED
    BY <2>2, <2>3, <2>4, <2>5, <2>6, <2>7, <2>8, <2>9, <2>10, FireOrder
       DEF Next, ThreadStep, BodyStep
<1>3. OrderInv => RegistrationOrder
  BY DEF OrderInv
<1> QED
  BY <1>1, <1>2, <1>3, TypeCorrect, BatchInvariant, NoneStrandedHolds,
     AwaiterAccountedHolds, PTL DEF Spec

==============================================================================
