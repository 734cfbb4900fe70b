-------------------------- MODULE AsyncMutexProofs ---------------------------
(***************************************************************************)
(* Theorems about promise::Mutex for every number of guards and calls of   *)
(* Lock, used as Mutex.h asks: a guard gives up a lock it was granted.     *)
(***************************************************************************)
EXTENDS AsyncMutex, TLAPS

(* The critical section of UnLock keeps the types. *)
LEMMA UnLockType ==
    ASSUME TypeOK, NEW g \in Guards, UnLock(g)
    PROVE  /\ carry' \in [Guards -> 0 .. MaxLocks]
           /\ resolve' \in 0 .. MaxLocks
           /\ stage' \in [Locks -> {"new", "waiting", "acquired", "granted",
                                     "released"}]
           /\ UNCHANGED <<bound, ticket, tail, settled>>
<1>1. carry' \in [Guards -> 0 .. MaxLocks] /\ resolve' \in 0 .. MaxLocks
  BY LocksAssumption DEF TypeOK, UnLock
<1>2. \/ stage' = stage
      \/ stage' = [stage EXCEPT ![ticket[g]] = "released"]
  BY DEF TypeOK, UnLock
<1>3. stage' \in [Locks -> {"new", "waiting", "acquired", "granted", "released"}]
  BY <1>2 DEF TypeOK
<1> QED
  BY <1>1, <1>3 DEF UnLock

(* Moving a guard's state keeps the types. *)
LEMMA TakeType ==
    ASSUME TypeOK, NEW g \in Guards, NEW h \in Guards, Take(g, h)
    PROVE  /\ own' \in [Guards -> BOOLEAN]
           /\ bound' \in [Guards -> BOOLEAN]
           /\ ticket' \in [Guards -> 0 .. MaxLocks]
<1>1. own[h] \in BOOLEAN /\ bound[h] \in BOOLEAN
  BY DEF TypeOK
<1>2. own' \in [Guards -> BOOLEAN]
  BY <1>1 DEF TypeOK, Take
<1>3. bound' \in [Guards -> BOOLEAN]
  BY <1>1 DEF TypeOK, Take
<1>4. ticket' \in [Guards -> 0 .. MaxLocks]
  BY DEF TypeOK, Take
<1> QED
  BY <1>2, <1>3, <1>4

(* What the move of a guard's state leaves: the source is empty. *)
LEMMA TakeFacts ==
    ASSUME TypeOK, NEW g \in Guards, NEW h \in Guards, g # h, Take(g, h)
    PROVE  /\ own'[g] <=> own[h]
           /\ ~own'[h]
           /\ ticket'[g] = ticket[h]
           /\ \A k \in Guards \ {g, h} : own'[k] <=> own[k]
           /\ \A k \in Guards \ {g} : ticket'[k] = ticket[k]
<1>1. /\ ticket'[g] = ticket[h]
      /\ \A k \in Guards \ {g} : ticket'[k] = ticket[k]
  BY DEF TypeOK, Take
<1>2. /\ own'[g] <=> own[h]
      /\ ~own'[h]
      /\ \A k \in Guards \ {g, h} : own'[k] <=> own[k]
  BY DEF TypeOK, Take
<1> QED
  BY <1>1, <1>2

(* The type invariant: no action leaves the ranges of the variables. *)
THEOREM TypeCorrect == Spec => []TypeOK
<1> USE LocksAssumption DEF Locks
<1>1. Init => TypeOK
  BY DEF Init, TypeOK
<1>2. TypeOK /\ [Next]_vars => TypeOK'
  <2> SUFFICES ASSUME TypeOK, [Next]_vars PROVE TypeOK'
    OBVIOUS
  <2> USE DEF TypeOK
  <2>1. ASSUME NEW g \in Guards, Construct(g) \/ DestroyIdle(g) PROVE TypeOK'
    BY <2>1 DEF Construct, DestroyIdle, mutexVars
  <2>2. ASSUME NEW g \in Guards, Lock(g) PROVE TypeOK'
    BY <2>2 DEF Lock
  <2>3. ASSUME NEW g \in Guards, Unlock(g) \/ Destroy(g) PROVE TypeOK'
    BY <2>3, UnLockType DEF Unlock, Destroy
  <2>4. ASSUME NEW g \in Guards, NEW h \in Guards, MoveAssign(g, h) PROVE TypeOK'
    BY <2>4, UnLockType DEF MoveAssign
  <2>5. ASSUME NEW g \in Guards, NEW h \in Guards, Move(g, h) PROVE TypeOK'
    BY <2>5, TakeType DEF Move, mutexVars
  <2>6. ASSUME NEW g \in Guards, Release(g) PROVE TypeOK'
    <3>1. carry[g] \in 0 .. MaxLocks /\ after[g] \in Guards \union {Plain, Gone, Idle}
      OBVIOUS
    <3>2. settled' \subseteq 0 .. MaxLocks
      BY <2>6, <3>1 DEF Release, Resolve
    <3>3. after' \in [Guards -> Guards \union {Plain, Gone, Idle}]
      BY <2>6, <3>1 DEF Release
    <3>4. carry' \in [Guards -> 0 .. MaxLocks]
      BY <2>6 DEF Release
    <3> QED
      BY <2>6, <3>2, <3>3, <3>4 DEF Release
  <2>11. ASSUME NEW g \in Guards, Return(g) PROVE TypeOK'
    <3>1. after' \in [Guards -> Guards \union {Plain, Gone, Idle}]
      BY <2>11 DEF Return
    <3>2. CASE after[g] = Gone /\ UNCHANGED <<own, ticket>>
      BY <2>11, <3>1, <3>2, GuardsAssumption DEF Return, mutexVars
    <3>3. CASE after[g] \in Guards
      BY <2>11, <3>1, <3>3, TakeType, GuardsAssumption DEF Return, mutexVars
    <3> QED
      BY <2>11, <3>2, <3>3 DEF Return
  <2>7. ASSUME NEW n \in Locks, LockStep(n) PROVE TypeOK'
    <3>1. CASE Acquire(n)
      BY <3>1 DEF Acquire, guardVars
    <3>2. CASE Grant(n)
      BY <3>2 DEF Grant, guardVars
    <3> QED
      BY <2>7, <3>1, <3>2 DEF LockStep
  <2>8. CASE UNCHANGED vars
    BY <2>8 DEF vars, guardVars, mutexVars
  <2> QED
    BY <2>1, <2>2, <2>3, <2>4, <2>5, <2>6, <2>7, <2>8, <2>11 DEF Next, GuardStep
<1> QED
  BY <1>1, <1>2, PTL DEF Spec

------------------------------------------------------------------------------
(* The chain: what is settled is an initial part of it and was released, a
   call that got past its co_await has its predecessor in that part, and
   resolve_ is set exactly while some call holds the lock. *)
ChainInv ==
    /\ \A n \in Locks : stage[n] = "new" <=> n > tail
    /\ 0 \in settled
    /\ \A n \in Locks : n \in settled => stage[n] = "released"
    /\ \A j \in 0 .. MaxLocks, n \in settled : j <= n => j \in settled
    /\ \A n \in Locks :
          stage[n] \in {"acquired", "granted", "released"} => n - 1 \in settled
    /\ \A n \in Locks : Holds(n) <=> resolve = n

(* The guards: a guard that owns stands for one call of Lock that is under
   way, every such call has its guard, a guard inside a method that called
   UnLock owns nothing, and what UnLock carries is the resolver of a call that
   is over. *)
GuardInv ==
    /\ \A g \in Guards : own[g] =>
          /\ ticket[g] \in Locks
          /\ stage[ticket[g]] \in {"waiting", "acquired", "granted"}
    /\ \A g, h \in Guards : own[g] /\ own[h] /\ ticket[g] = ticket[h] => g = h
    /\ \A n \in Locks : stage[n] \in {"waiting", "acquired", "granted"} =>
          \E g \in Guards : own[g] /\ ticket[g] = n
    /\ \A g \in Guards : after[g] # Idle => ~own[g]
    /\ \A g \in Guards : carry[g] # 0 =>
          /\ after[g] # Idle
          /\ carry[g] \in Locks
          /\ stage[carry[g]] = "released"
    /\ \A g \in Guards : after[g] # g

(* Whose turn it is finds resolve_ null: a holder before it would still be
   unsettled, and a holder after it would have it settled already. *)
LEMMA TurnFindsFree ==
    ASSUME TypeOK, ChainInv, NEW n \in Locks, stage[n] = "waiting", Turn(n)
    PROVE  resolve = 0
<1> SUFFICES ASSUME resolve # 0 PROVE FALSE
  OBVIOUS
<1>1. resolve \in Locks /\ n \in 0 .. MaxLocks
  BY LocksAssumption DEF TypeOK, Locks
<1>2. /\ resolve - 1 \in settled /\ stage[resolve] \in {"acquired", "granted"}
      /\ resolve \in 0 .. MaxLocks
  BY <1>1 DEF ChainInv, Holds, TypeOK
<1>3. CASE resolve < n
  <2>1. resolve <= n - 1 /\ n - 1 \in settled
    BY <1>1, <1>3, LocksAssumption DEF Locks, Turn
  <2>2. resolve \in settled
    BY <1>2, <2>1 DEF ChainInv
  <2> QED
    BY <1>1, <1>2, <2>2 DEF ChainInv
<1>4. CASE n < resolve
  <2>1. n <= resolve - 1
    BY <1>1, <1>4, LocksAssumption DEF Locks
  <2>2. n \in settled
    BY <1>1, <1>2, <2>1 DEF ChainInv
  <2> QED
    BY <2>2 DEF ChainInv
<1>5. CASE n = resolve
  BY <1>2, <1>5
<1> QED
  BY <1>1, <1>3, <1>4, <1>5, LocksAssumption DEF Locks

(* A move hands the call of Lock over, and leaves the source with nothing. *)
LEMMA TakeGuards ==
    ASSUME TypeOK, GuardInv,
           NEW g \in Guards, NEW h \in Guards, g # h, ~own[g],
           Take(g, h), UNCHANGED stage,
           UNCHANGED carry, carry[g] = 0,
           \/ UNCHANGED after /\ after[g] = Idle
           \/ after' = [after EXCEPT ![g] = Idle]
    PROVE  GuardInv'
<1>1. /\ own'[g] <=> own[h]
      /\ ~own'[h]
      /\ ticket'[g] = ticket[h]
      /\ \A k \in Guards \ {g, h} : own'[k] <=> own[k]
      /\ \A k \in Guards \ {g} : ticket'[k] = ticket[k]
  BY TakeFacts
<1>2. \A k \in Guards : own'[k] =>
        /\ ticket'[k] \in Locks
        /\ stage'[ticket'[k]] \in {"waiting", "acquired", "granted"}
  BY <1>1 DEF GuardInv
<1>3. \A k, m \in Guards :
        own'[k] /\ own'[m] /\ ticket'[k] = ticket'[m] => k = m
  BY <1>1 DEF GuardInv
<1>4. \A n \in Locks : stage'[n] \in {"waiting", "acquired", "granted"} =>
        \E k \in Guards : own'[k] /\ ticket'[k] = n
  BY <1>1 DEF GuardInv
<1>5. \A k \in Guards : after'[k] # Idle => after[k] # Idle /\ k # g
  BY DEF TypeOK
<1>8. \A k \in Guards : after'[k] # Idle => ~own'[k]
  BY <1>1, <1>5 DEF GuardInv
<1>9. \A k \in Guards : k # g => after'[k] = after[k]
  BY DEF TypeOK
<1>6. \A k \in Guards : carry'[k] # 0 =>
        /\ after'[k] # Idle
        /\ carry'[k] \in Locks
        /\ stage'[carry'[k]] = "released"
  BY <1>9 DEF GuardInv
<1>7. \A k \in Guards : after'[k] # k
  BY GuardsAssumption DEF TypeOK, GuardInv
<1> QED
  BY <1>2, <1>3, <1>4, <1>6, <1>7, <1>8 DEF GuardInv

(* Under the discipline of Mutex.h both invariants are inductive together. *)
LEMMA MutexInvariant ==
    ASSUME Trust = "granted"
    PROVE  Spec => [](ChainInv /\ GuardInv)
<1> USE LocksAssumption, GuardsAssumption DEF Locks
<1>1. Init => ChainInv /\ GuardInv
  BY DEF Init, ChainInv, GuardInv, Holds
<1>2. TypeOK /\ ChainInv /\ GuardInv /\ [Next]_vars => (ChainInv /\ GuardInv)'
  <2> SUFFICES ASSUME TypeOK, ChainInv, GuardInv, [Next]_vars
               PROVE  ChainInv' /\ GuardInv'
    OBVIOUS
  <2> USE DEF TypeOK
  <2>1. ASSUME NEW g \in Guards, Construct(g) \/ DestroyIdle(g)
        PROVE  ChainInv' /\ GuardInv'
    <3>1. UNCHANGED <<own, ticket, after, carry, stage, tail, resolve, settled>>
      BY <2>1 DEF Construct, DestroyIdle, mutexVars
    <3> QED
      BY <3>1 DEF ChainInv, GuardInv, Holds
  <2>2. ASSUME NEW g \in Guards, Lock(g) PROVE ChainInv' /\ GuardInv'
    <3>1. ChainInv'
      BY <2>2 DEF Lock, ChainInv, Holds
    <3>3. /\ stage[tail + 1] = "new" /\ tail + 1 \in Locks
          /\ stage' = [stage EXCEPT ![tail + 1] = "waiting"]
          /\ own' = [own EXCEPT ![g] = TRUE]
          /\ ticket' = [ticket EXCEPT ![g] = tail + 1]
          /\ UNCHANGED <<after, carry>>
          /\ after[g] = Idle
          /\ ~own[g]
      BY <2>2 DEF Lock, Free, ChainInv
    <3>2. GuardInv'
      <4>1. \A k \in Guards : own'[k] =>
              /\ ticket'[k] \in Locks
              /\ stage'[ticket'[k]] \in {"waiting", "acquired", "granted"}
        BY <3>3 DEF GuardInv
      <4>2. \A k, h \in Guards :
              own'[k] /\ own'[h] /\ ticket'[k] = ticket'[h] => k = h
        BY <3>3 DEF GuardInv
      <4>3. \A n \in Locks : stage'[n] \in {"waiting", "acquired", "granted"} =>
              \E k \in Guards : own'[k] /\ ticket'[k] = n
        BY <3>3 DEF GuardInv
      <4>5. \A k \in Guards : after'[k] # Idle => ~own'[k]
        BY <3>3 DEF GuardInv
      <4>4. \A k \in Guards : carry'[k] # 0 =>
              /\ after'[k] # Idle
              /\ carry'[k] \in Locks
              /\ stage'[carry'[k]] = "released"
        BY <3>3 DEF GuardInv
      <4> QED
        BY <3>3, <4>1, <4>2, <4>3, <4>4, <4>5 DEF GuardInv
    <3> QED
      BY <3>1, <3>2
  <2>3. ASSUME NEW g \in Guards, MayGiveUp(g), Free(g), UnLock(g),
               own' = [own EXCEPT ![g] = FALSE],
               \E x \in (Guards \ {g}) \union {Plain, Gone} :
                   after' = [after EXCEPT ![g] = x]
        PROVE  ChainInv' /\ GuardInv'
    <3>1. /\ ticket[g] \in Locks /\ stage[ticket[g]] = "granted"
          /\ resolve = ticket[g] /\ own[g]
      BY <2>3 DEF MayGiveUp, ChainInv, GuardInv, Holds
    <3>2. stage' = [stage EXCEPT ![ticket[g]] = "released"]
      BY <2>3, <3>1 DEF UnLock
    <3>3. ChainInv'
      BY <2>3, <3>1, <3>2 DEF UnLock, ChainInv, Holds
    <3>4. GuardInv'
      BY <2>3, <3>1, <3>2 DEF UnLock, GuardInv, Free
    <3> QED
      BY <3>3, <3>4
  <2>4. ASSUME NEW g \in Guards, Unlock(g) \/ Destroy(g)
        PROVE  ChainInv' /\ GuardInv'
    BY <2>3, <2>4 DEF Unlock, Destroy
  <2>5. ASSUME NEW g \in Guards, NEW h \in Guards, MoveAssign(g, h)
        PROVE  ChainInv' /\ GuardInv'
    BY <2>3, <2>5 DEF MoveAssign
  <2>6. ASSUME NEW g \in Guards, NEW h \in Guards, Move(g, h)
        PROVE  ChainInv' /\ GuardInv'
    <3>4. carry[g] = 0
      BY <2>6 DEF Move, Free, GuardInv
    <3>1. /\ g # h /\ ~own[g] /\ after[g] = Idle /\ after[h] = Idle
          /\ UNCHANGED <<after, carry, stage, tail, resolve, settled>>
      BY <2>6 DEF Move, Free, mutexVars
    <3>2. ChainInv'
      BY <3>1 DEF ChainInv, Holds
    <3>3. GuardInv'
      BY <2>6, <3>1, <3>4, TakeGuards DEF Move
    <3> QED
      BY <3>2, <3>3
  <2>7. ASSUME NEW g \in Guards, Release(g) PROVE ChainInv' /\ GuardInv'
    <3>1. carry[g] \in Locks /\ stage[carry[g]] = "released" /\ after[g] # Idle
      BY <2>7 DEF Release, GuardInv
    <3>2. ChainInv'
      BY <2>7, <3>1 DEF Release, Resolve, ChainInv, Holds
    <3>3. /\ UNCHANGED <<own, ticket, stage>>
          /\ carry' = [carry EXCEPT ![g] = 0]
          /\ \A k \in Guards : k # g => after'[k] = after[k]
          /\ after'[g] \in {after[g], Idle}
      BY <2>7 DEF Release
    <3>4. GuardInv'
      BY <3>1, <3>3 DEF GuardInv
    <3> QED
      BY <3>2, <3>4
  <2>11. ASSUME NEW g \in Guards, Return(g) PROVE ChainInv' /\ GuardInv'
    <3>1. /\ ~own[g] /\ carry[g] = 0
          /\ after' = [after EXCEPT ![g] = Idle]
          /\ UNCHANGED <<carry, stage, tail, resolve, settled>>
      BY <2>11 DEF Return, GuardInv, mutexVars
    <3>2. ChainInv'
      BY <3>1 DEF ChainInv, Holds
    <3>3. CASE UNCHANGED <<own, ticket>>
      BY <3>1, <3>2, <3>3 DEF GuardInv
    <3>4. CASE after[g] \in Guards /\ Take(g, after[g])
      <4>1. after[g] # g
        BY DEF GuardInv
      <4> QED
        BY <3>1, <3>2, <3>4, <4>1, TakeGuards
    <3> QED
      BY <2>11, <3>3, <3>4 DEF Return
  <2>8. ASSUME NEW n \in Locks, Acquire(n) PROVE ChainInv' /\ GuardInv'
    <3>1. resolve = 0
      BY <2>8, TurnFindsFree DEF Acquire
    <3>2. ChainInv'
      BY <2>8, <3>1 DEF Acquire, Turn, ChainInv, Holds
    <3>3. GuardInv'
      BY <2>8 DEF Acquire, guardVars, GuardInv
    <3> QED
      BY <3>2, <3>3
  <2>9. ASSUME NEW n \in Locks, Grant(n) PROVE ChainInv' /\ GuardInv'
    BY <2>9 DEF Grant, guardVars, ChainInv, GuardInv, Holds
  <2>10. CASE UNCHANGED vars
    BY <2>10 DEF vars, guardVars, mutexVars, ChainInv, GuardInv, Holds
  <2> QED
    BY <2>1, <2>2, <2>4, <2>5, <2>6, <2>7, <2>8, <2>9, <2>10, <2>11
       DEF Next, GuardStep, LockStep
<1> QED
  BY <1>1, <1>2, TypeCorrect, PTL DEF Spec

(* Whatever guards are unlocked, destroyed and moved, the lock has at most
   one holder, because resolve_ names it. *)
THEOREM MutualExclusionHolds ==
    ASSUME Trust = "granted"
    PROVE  Spec => []MutualExclusion
<1>1. ChainInv => MutualExclusion
  BY DEF ChainInv, MutualExclusion
<1> QED
  BY <1>1, MutexInvariant, PTL

(* assert(!resolve_) of Mutex::Lock never fails. *)
THEOREM AcquireFindsFreeHolds ==
    ASSUME Trust = "granted"
    PROVE  Spec => []AcquireFindsFree
<1>1. TypeOK /\ ChainInv => AcquireFindsFree
  BY TurnFindsFree DEF AcquireFindsFree
<1> QED
  BY <1>1, MutexInvariant, TypeCorrect, PTL

(* assert(resolve_) of Mutex::UnLock never fails, and the resolver that is
   found belongs to the guard's own Lock. *)
THEOREM HolderCanUnlockHolds ==
    ASSUME Trust = "granted"
    PROVE  Spec => []HolderCanUnlock
<1>1. ChainInv /\ GuardInv => HolderCanUnlock
  BY DEF ChainInv, GuardInv, HolderCanUnlock, Holds
<1> QED
  BY <1>1, MutexInvariant, PTL

(* The assertions of Mutex::Lock and Mutex::UnLock hold together. *)
THEOREM MutexAssertionsHold ==
    ASSUME Trust = "granted"
    PROVE  Spec => []MutexAssertions
<1>1. AcquireFindsFree /\ HolderCanUnlock => MutexAssertions
  BY DEF MutexAssertions
<1> QED
  BY <1>1, AcquireFindsFreeHolds, HolderCanUnlockHolds, PTL

(* No move of a guard loses a held lock or leaves it with two guards. *)
THEOREM HeldByOneGuardHolds ==
    ASSUME Trust = "granted"
    PROVE  Spec => []HeldByOneGuard
<1>1. GuardInv => HeldByOneGuard
  BY DEF GuardInv, HeldByOneGuard, Holds
<1> QED
  BY <1>1, MutexInvariant, PTL

(* Calls of Lock are served in the order in which they replaced promise_. *)
THEOREM FifoHolds ==
    ASSUME Trust = "granted"
    PROVE  Spec => []Fifo
<1>1. ChainInv => Fifo
  <2> SUFFICES ASSUME ChainInv, NEW m \in Locks, NEW n \in Locks, m < n,
                      stage[n] \in {"acquired", "granted", "released"}
               PROVE  stage[m] = "released"
    BY DEF Fifo
  <2>1. n - 1 \in settled /\ m <= n - 1
    BY LocksAssumption DEF ChainInv, Locks
  <2>2. m \in settled
    BY <2>1, LocksAssumption DEF ChainInv, Locks
  <2> QED
    BY <2>2 DEF ChainInv
<1> QED
  BY <1>1, MutexInvariant, PTL

==============================================================================
