------------------------- MODULE PromiseLockProofs --------------------------
(***************************************************************************)
(* Theorems about the lock of a promise, for every number of threads and   *)
(* calls: it keeps readers and writers apart (if nobody looks without it), *)
(* no thread asks for it twice if nobody calls Awaiters() and no function  *)
(* that runs under it calls the promise back, and what the queries answer  *)
(* stays true.                                                             *)
(***************************************************************************)
EXTENDS PromiseLock, FiniteSetTheorems, TLAPS

(* How often thread t has the lock shared, by where it is: a function under
   the lock of a Then, Awaiters() between its two locks, and a reader. *)
Holds(t) ==
    (IF inner[t] \/ pc[t] = "call" THEN 1 ELSE 0) +
    (CASE pc[t] = "again"                         -> 1
       [] pc[t] = "read" /\ op[t] = "Awaiters"    -> 2
       [] pc[t] = "read" /\ op[t] # "Awaiters"    -> 1
       [] pc[t] \notin {"again", "read"}          -> 0)

(* The calls that come to each place. *)
AtPlace(t) ==
    /\ pc[t] = "again" => op[t] = "Awaiters"
    /\ pc[t] = "call" => op[t] = "Then" /\ ~inner[t]
    /\ pc[t] = "read" => op[t] \in Queries \union Waits
    /\ pc[t] = "blocked" => op[t] \in Waits
    /\ pc[t] = "shared" => op[t] \in Queries \union Waits \union {"Then"}
    /\ inner[t] => op[t] # "Then" /\ pc[t] \notin {"idle", "ended", "call"}

ControlInv == \A t \in Threads : AtPlace(t)

(* The lock is held by those who are where one holds it. *)
LockInv ==
    /\ \A t \in Threads : shared[t] = Holds(t)
    /\ \A t \in Threads : pc[t] = "write" <=> writer = t
    /\ writer # Nobody => \A t \in Threads : shared[t] = 0

Places == {"idle", "exchange", "load", "shared", "again", "read", "call",
           "blocked", "excl", "queued", "write", "ended"}
Calls == AllOps \union {"none", "Return", "Clear"}

(* A use count that nobody remembers is a number. *)
LEMMA UnsetType == Unset \in Nat
<1>1. Cardinality(Users) \in Nat
  BY FS_CardinalityType, LockAssumption
<1> QED
  BY <1>1, LockAssumption DEF Unset

(* A call begins at a place. *)
LEMMA FirstPlace ==
    ASSUME NEW o \in Calls
    PROVE  /\ First(o) \in {"exchange", "excl", "load", "shared"}
           /\ First(o) = "shared" /\ o \in AllOps => o \in Queries \union Waits
           /\ o = "Clear" => First(o) = "excl"
  BY DEF First, Calls, AllOps, Queries, Waits

(* A call that returns, and those it has woken. *)
LEMMA ReturnType ==
    ASSUME TypeOK, NEW t \in Threads, NEW woken, Return(t, woken)
    PROVE  /\ pc' \in [Threads -> Places]
           /\ op' \in [Threads -> Calls]
           /\ inner' \in [Threads -> BOOLEAN]
<1>1. pc' \in [Threads -> Places]
  BY DEF TypeOK, Return, Goto, Places
<1>2. op' \in [Threads -> Calls]
  BY DEF TypeOK, Return, Calls, AllOps
<1>3. inner' \in [Threads -> BOOLEAN]
  BY DEF TypeOK, Return
<1> QED
  BY <1>1, <1>2, <1>3

(* A thread that gives up shared locks has them. *)
LEMMA UnlockType ==
    ASSUME TypeOK, LockInv, ControlInv, NEW t \in Threads, NEW n \in Nat, Unlock(t, n),
           \/ pc[t] = "read" /\ op[t] = "Awaiters" /\ n = 2
           \/ pc[t] \in {"read", "call"} /\ n = 1
    PROVE  shared' \in [Threads -> Nat]
<1>1. shared[t] \in Nat /\ shared[t] = Holds(t) /\ inner[t] \in BOOLEAN
  BY DEF TypeOK, LockInv
<1>2. shared[t] - n \in Nat
  BY <1>1 DEF Holds, ControlInv, AtPlace
<1> QED
  BY <1>2 DEF Unlock, TypeOK

(* The booleans of the state, one by one. *)
LEMMA TypeParts ==
    TypeOK <=> /\ kind \in Kinds
               /\ resolved \in BOOLEAN /\ value \in BOOLEAN
               /\ exception \in BOOLEAN /\ handle \in BOOLEAN
               /\ awaiters \in Nat
               /\ useCount \in Nat
               /\ writer \in Threads \union {Nobody}
               /\ shared \in [Threads -> Nat]
               /\ pc \in [Threads -> Places]
               /\ op \in [Threads -> Calls]
               /\ inner \in [Threads -> BOOLEAN]
               /\ seen \in [Threads -> {"nothing", "done", "resolved", "rejected"}]
               /\ last \in [Threads -> Nat]
               /\ calls \in [Threads -> 0 .. MaxCalls]
  BY DEF TypeOK, Places, Calls

(* Every step keeps the types. *)
LEMMA StepType ==
    ASSUME TypeOK, LockInv, ControlInv, [Next]_vars
    PROVE  TypeOK'
<1> USE TypeParts
<1>1. ASSUME NEW t \in Users, NEW o \in Ops, Begin(t, o) PROVE TypeOK'
  <2>1. o \in Calls /\ t \in Threads
    BY LockAssumption DEF Calls, Threads
  <2>2. calls' \in [Threads -> 0 .. MaxCalls]
    BY <1>1, <2>1, LockAssumption DEF Begin
  <2>3. pc' \in [Threads -> Places] /\ op' \in [Threads -> Calls]
    BY <1>1, <2>1, FirstPlace DEF Begin, Places
  <2> QED
    BY <1>1, <2>2, <2>3 DEF TypeOK, Places, Calls, Begin, stateVars, lockVars
<1>2. ASSUME NEW t \in Users, NEW o \in Nested, CallFunction(t, o) PROVE TypeOK'
  <2>1. o \in Calls /\ t \in Threads
    BY LockAssumption DEF Calls, Threads
  <2>2. calls' \in [Threads -> 0 .. MaxCalls]
    BY <1>2, <2>1, LockAssumption DEF CallFunction
  <2>3. pc' \in [Threads -> Places] /\ op' \in [Threads -> Calls]
    BY <1>2, <2>1, FirstPlace DEF CallFunction, Places
  <2>4. inner' \in [Threads -> BOOLEAN]
    BY <1>2 DEF CallFunction
  <2> QED
    BY <1>2, <2>2, <2>3, <2>4 DEF TypeOK, Places, Calls, CallFunction, stateVars, lockVars
<1>3. CASE BeginFinal
  <2>1. PICK o \in {"Return", "Clear"} :
             /\ op' = [op EXCEPT ![Body] = o]
             /\ pc' = [pc EXCEPT ![Body] = First(o)]
    BY <1>3 DEF BeginFinal
  <2>2. o \in Calls
    BY DEF Calls
  <2>3. pc' \in [Threads -> Places] /\ op' \in [Threads -> Calls]
    BY <2>1, <2>2, FirstPlace DEF Places
  <2> QED
    BY <1>3, <2>3 DEF TypeOK, Places, Calls, BeginFinal, stateVars, lockVars, userVars
<1>4. ASSUME NEW t \in Threads, LockShared(t) PROVE TypeOK'
  <2>1. pc' \in [Threads -> Places] /\ shared' \in [Threads -> Nat]
    BY <1>4 DEF LockShared, Places
  <2> QED
    BY <1>4, <2>1 DEF TypeOK, Places, Calls, LockShared, stateVars, userVars
<1>5. ASSUME NEW t \in Threads, Ask(t) \/ LockExclusive(t) PROVE TypeOK'
  <2>1. pc' \in [Threads -> Places]
    BY <1>5 DEF Ask, LockExclusive, Places
  <2> QED
    BY <1>5, <2>1 DEF TypeOK, Places, Calls, Ask, LockExclusive, stateVars, lockVars, userVars
<1>6. ASSUME NEW t \in Threads, Query(t) PROVE TypeOK'
  <2>1. shared' \in [Threads -> Nat] /\ UNCHANGED writer
    BY <1>6, UnlockType DEF Query, Unlock
  <2>2. seen' \in [Threads -> {"nothing", "done", "resolved", "rejected"}]
    BY <1>6 DEF Query, Learn
  <2> QED
    BY <1>6, <2>1, <2>2, ReturnType DEF TypeOK, Places, Calls, Query, stateVars
<1>7. ASSUME NEW t \in Threads, Load(t) PROVE TypeOK'
  <2>1. /\ last' \in [Threads -> Nat]
        /\ seen' \in [Threads -> {"nothing", "done", "resolved", "rejected"}]
    BY <1>7 DEF Load, Peek
  <2> QED
    BY <1>7, <2>1, ReturnType DEF TypeOK, Places, Calls, Load, stateVars, lockVars
<1>8. ASSUME NEW t \in Threads, WaitDone(t) PROVE TypeOK'
  <2>1. shared' \in [Threads -> Nat] /\ UNCHANGED writer
    BY <1>8, UnlockType DEF WaitDone, Unlock
  <2>2. seen' \in [Threads -> {"nothing", "done", "resolved", "rejected"}]
    BY <1>8 DEF WaitDone
  <2>3. /\ pc' \in [Threads -> Places]
        /\ op' \in [Threads -> Calls]
        /\ inner' \in [Threads -> BOOLEAN]
    BY <1>8, ReturnType DEF WaitDone, Places
  <2> QED
    BY <1>8, <2>1, <2>2, <2>3 DEF TypeOK, Places, Calls, WaitDone, stateVars
<1>9. ASSUME NEW t \in Threads, WaitAwaited(t) PROVE TypeOK'
  <2>1. shared' \in [Threads -> Nat] /\ UNCHANGED writer
    BY <1>9, UnlockType DEF WaitAwaited, Unlock
  <2>2. last' \in [Threads -> Nat]
    BY <1>9, UnsetType DEF WaitAwaited, LastCount
  <2>3. /\ pc' \in [Threads -> Places]
        /\ op' \in [Threads -> Calls]
        /\ inner' \in [Threads -> BOOLEAN]
    BY <1>9, ReturnType DEF WaitAwaited, Places
  <2> QED
    BY <1>9, <2>1, <2>2, <2>3 DEF TypeOK, Places, Calls, WaitAwaited, stateVars
<1>10. ASSUME NEW t \in Threads, EndFunction(t) PROVE TypeOK'
  <2>1. shared' \in [Threads -> Nat] /\ UNCHANGED writer
    BY <1>10, UnlockType DEF EndFunction, Unlock
  <2> QED
    BY <1>10, <2>1, ReturnType DEF TypeOK, Places, Calls, EndFunction, stateVars, userVars
<1>11. ASSUME NEW t \in Threads, Exchange(t) PROVE TypeOK'
  <2>1. /\ pc' \in [Threads -> Places]
        /\ op' \in [Threads -> Calls]
        /\ inner' \in [Threads -> BOOLEAN]
    BY <1>11, ReturnType DEF Exchange, Places
  <2> QED
    BY <1>11, <2>1 DEF TypeOK, Places, Calls, Exchange, lockVars, userVars
<1>12. ASSUME NEW t \in Threads, Store(t) PROVE TypeOK'
  <2>1. /\ pc' \in [Threads -> Places]
        /\ op' \in [Threads -> Calls]
        /\ inner' \in [Threads -> BOOLEAN]
    <3>1. CASE Return(t, Woken) \/ Return(t, {})
      BY <3>1, ReturnType
    <3>2. CASE /\ op' = [op EXCEPT ![t] = "Clear"]
               /\ Goto(t, First("Clear"), {})
               /\ UNCHANGED inner
      <4>1. "Clear" \in Calls
        BY DEF Calls
      <4> QED
        BY <3>2, <4>1, FirstPlace DEF Goto, Places
    <3> QED
      BY <1>12, <3>1, <3>2 DEF Store
  <2>2. value' \in BOOLEAN /\ exception' \in BOOLEAN
    <3>1. \/ value' = TRUE /\ exception' = exception
          \/ exception' = TRUE /\ value' = value
      BY <1>12 DEF Store
    <3> QED
      BY <3>1
  <2>3. awaiters' \in Nat
    BY <1>12 DEF Store
  <2> QED
    BY <1>12, <2>1, <2>2, <2>3 DEF TypeOK, Places, Calls, Store, userVars
<1>13. ASSUME NEW t \in Threads, Clear(t) PROVE TypeOK'
  <2>1. pc' \in [Threads -> Places] /\ op' \in [Threads -> Calls]
    BY <1>13 DEF Clear, Goto, Places, Calls
  <2> QED
    BY <1>13, <2>1 DEF TypeOK, Places, Calls, Clear, userVars
<1>14. ASSUME NEW t \in Threads, Register(t) PROVE TypeOK'
  <2>1. /\ pc' \in [Threads -> Places]
        /\ op' \in [Threads -> Calls]
        /\ inner' \in [Threads -> BOOLEAN]
    BY <1>14, ReturnType DEF Register, Goto, Places
  <2>2. awaiters' \in Nat /\ useCount' \in Nat
    BY <1>14 DEF Register
  <2> QED
    BY <1>14, <2>1, <2>2 DEF TypeOK, Places, Calls, Register, userVars
<1>15. CASE UNCHANGED vars
  BY <1>15 DEF TypeOK, vars, stateVars, lockVars, userVars
<1> QED
  BY <1>1, <1>2, <1>3, <1>4, <1>5, <1>6, <1>7, <1>8, <1>9, <1>10, <1>11, <1>12,
     <1>13, <1>14, <1>15 DEF Next, Step

(* The places where the lock is not held shared, by t or by a function. *)
LEMMA HoldsNone ==
    ASSUME TypeOK, NEW t \in Threads, shared[t] = Holds(t)
    PROVE  shared[t] = 0 => /\ ~inner[t]
                            /\ pc[t] \notin {"call", "read", "again"}
  BY DEF TypeOK, Holds

(* Thread t makes a step, the others stay where they are or are woken. *)
OthersKeep(t) ==
    \A u \in Threads \ {t} :
        /\ op'[u] = op[u]
        /\ inner'[u] = inner[u]
        /\ shared'[u] = shared[u]
        /\ pc'[u] = pc[u] \/ (pc[u] = "blocked" /\ pc'[u] = "shared")

(* What thread t does with the exclusive lock in one step. *)
Writes(t) ==
    \/ /\ UNCHANGED writer /\ pc[t] # "write" /\ pc'[t] # "write"
       /\ writer = Nobody \/ shared'[t] = 0
    \/ /\ writer' = t /\ pc'[t] = "write"
       /\ writer = Nobody /\ \A u \in Threads : shared'[u] = 0
    \/ writer' = Nobody /\ pc[t] = "write" /\ pc'[t] # "write"

(* A step of one thread that leaves it where it may be. *)
LEMMA ThreadStep ==
    ASSUME TypeOK, TypeOK', LockInv, ControlInv, NEW t \in Threads, OthersKeep(t),
           AtPlace(t)', (shared[t] = Holds(t))', Writes(t)
    PROVE  LockInv' /\ ControlInv'
<1>0. Nobody \notin Threads
  BY LockAssumption DEF Threads
<1>1. \A u \in Threads \ {t} : AtPlace(u)'
  BY DEF OthersKeep, ControlInv, AtPlace
<1>2. \A u \in Threads \ {t} : (shared[u] = Holds(u))'
  <2> SUFFICES ASSUME NEW u \in Threads \ {t} PROVE (shared[u] = Holds(u))'
    OBVIOUS
  <2>1. /\ op'[u] = op[u] /\ inner'[u] = inner[u] /\ shared'[u] = shared[u]
        /\ pc'[u] = pc[u] \/ (pc[u] = "blocked" /\ pc'[u] = "shared")
    BY DEF OthersKeep
  <2>2. shared[u] = Holds(u)
    BY DEF LockInv
  <2> QED
    BY <2>1, <2>2 DEF Holds
<1>3. \A u \in Threads \ {t} : pc'[u] = "write" <=> pc[u] = "write"
  BY DEF OthersKeep
<1>4. \A u \in Threads : pc'[u] = "write" <=> writer' = u
  BY <1>0, <1>3 DEF Writes, LockInv
<1>5. writer' # Nobody => \A u \in Threads : shared'[u] = 0
  BY <1>0 DEF Writes, LockInv, OthersKeep
<1> QED
  BY <1>1, <1>2, <1>4, <1>5 DEF LockInv, ControlInv

(* Where a call that returns leaves its thread, and the others. *)
LEMMA ReturnPlace ==
    ASSUME TypeOK, NEW t \in Threads, NEW woken \in SUBSET Woken, Return(t, woken)
    PROVE  /\ AtPlace(t)'
           /\ Holds(t)' = IF inner[t] THEN 1 ELSE 0
           /\ pc'[t] # "write"
           /\ \A u \in Threads \ {t} : shared'[u] = shared[u] =>
                /\ op'[u] = op[u]
                /\ inner'[u] = inner[u]
                /\ pc'[u] = pc[u] \/ (pc[u] = "blocked" /\ pc'[u] = "shared")
<1>1. /\ pc'[t] = IF inner[t] THEN "call" ELSE "idle"
      /\ op'[t] = IF inner[t] THEN "Then" ELSE "none"
      /\ inner'[t] = FALSE
  BY DEF Return, Goto, TypeOK
<1>2. AtPlace(t)' /\ pc'[t] # "write"
  BY <1>1 DEF AtPlace
<1>3. Holds(t)' = IF inner[t] THEN 1 ELSE 0
  BY <1>1 DEF Holds
<1>4. \A u \in Threads \ {t} :
        /\ op'[u] = op[u]
        /\ inner'[u] = inner[u]
        /\ pc'[u] = pc[u] \/ (pc[u] = "blocked" /\ pc'[u] = "shared")
  BY DEF Return, Goto, TypeOK, Woken
<1> QED
  BY <1>2, <1>3, <1>4

(* A thread that gives up what it holds beyond a function's lock. *)
LEMMA UnlockPlace ==
    ASSUME TypeOK, LockInv, ControlInv, NEW t \in Threads, NEW n \in Nat,
           Unlock(t, n), pc[t] = "read", n = IF op[t] = "Awaiters" THEN 2 ELSE 1
    PROVE  /\ shared'[t] = IF inner[t] THEN 1 ELSE 0
           /\ \A u \in Threads \ {t} : shared'[u] = shared[u]
           /\ UNCHANGED writer
           /\ writer = Nobody
<1>1. /\ shared[t] = (IF inner[t] THEN 1 ELSE 0) + n
      /\ writer # Nobody => shared[t] = 0
  BY DEF LockInv, Holds
<1>2. shared'[t] = shared[t] - n /\ inner[t] \in BOOLEAN
  BY DEF Unlock, TypeOK
<1>3. writer = Nobody
  BY <1>1
<1> QED
  BY <1>1, <1>2, <1>3 DEF Unlock, TypeOK

(* A thread that has the lock exclusively has it nowhere else. *)
LEMMA WriterAlone ==
    ASSUME TypeOK, LockInv, NEW t \in Threads, pc[t] = "write"
    PROVE  /\ ~inner[t] /\ shared[t] = 0 /\ writer = t
           /\ writer # Nobody
<1>1. writer = t /\ writer # Nobody
  BY LockAssumption DEF LockInv, Threads
<1>2. shared[t] = 0 /\ shared[t] = Holds(t)
  BY <1>1 DEF LockInv
<1> QED
  BY <1>1, <1>2, HoldsNone

(* Every step keeps the lock with those who are where one holds it. *)
LEMMA StepLock ==
    ASSUME TypeOK, TypeOK', LockInv, ControlInv, [Next]_vars
    PROVE  LockInv' /\ ControlInv'
<1>1. ASSUME NEW t \in Users, NEW o \in Ops, Begin(t, o) PROVE LockInv' /\ ControlInv'
  <2>1. o \in Calls /\ o \in AllOps /\ t \in Threads
    BY LockAssumption DEF Calls, Threads
  <2>2. /\ op'[t] = o /\ pc'[t] = First(o) /\ inner'[t] = inner[t]
        /\ shared'[t] = shared[t] /\ ~inner[t] /\ shared[t] = 0
    BY <1>1, <2>1 DEF Begin, lockVars, TypeOK, LockInv, ControlInv, AtPlace, Holds
  <2>3. AtPlace(t)' /\ (shared[t] = Holds(t))'
    BY <2>1, <2>2, FirstPlace DEF AtPlace, Holds
  <2>4. OthersKeep(t)
    BY <1>1, <2>1 DEF OthersKeep, Begin, lockVars, TypeOK
  <2>5. Writes(t)
    BY <1>1, <2>1, <2>2, FirstPlace DEF Writes, Begin, lockVars
  <2> QED
    BY <2>1, <2>3, <2>4, <2>5, ThreadStep
<1>2. ASSUME NEW t \in Users, NEW o \in Nested, CallFunction(t, o)
      PROVE  LockInv' /\ ControlInv'
  <2>1. o \in Calls /\ o \in AllOps \ {"Then"} /\ t \in Threads
    BY LockAssumption DEF Calls, Threads
  <2>2. /\ op'[t] = o /\ pc'[t] = First(o) /\ inner'[t]
        /\ shared'[t] = shared[t] /\ shared[t] = 1
    BY <1>2, <2>1 DEF CallFunction, lockVars, TypeOK, LockInv, ControlInv, AtPlace, Holds
  <2>3. AtPlace(t)' /\ (shared[t] = Holds(t))'
    BY <2>1, <2>2, FirstPlace DEF AtPlace, Holds
  <2>4. OthersKeep(t)
    BY <1>2, <2>1 DEF OthersKeep, CallFunction, lockVars, TypeOK
  <2>5. Writes(t)
    BY <1>2, <2>1, <2>2, FirstPlace DEF Writes, CallFunction, lockVars, LockInv
  <2> QED
    BY <2>1, <2>3, <2>4, <2>5, ThreadStep
<1>3. CASE BeginFinal
  <2>1. PICK o \in {"Return", "Clear"} :
             /\ op' = [op EXCEPT ![Body] = o]
             /\ pc' = [pc EXCEPT ![Body] = First(o)]
    BY <1>3 DEF BeginFinal
  <2>2. Body \in Threads /\ First(o) \in {"exchange", "excl"}
    BY DEF Threads, First
  <2>3. /\ op'[Body] = o /\ pc'[Body] = First(o) /\ inner'[Body] = inner[Body]
        /\ shared'[Body] = shared[Body] /\ ~inner[Body] /\ shared[Body] = 0
    BY <1>3, <2>1, <2>2 DEF BeginFinal, lockVars, TypeOK, LockInv, ControlInv, AtPlace, Holds
  <2>4. AtPlace(Body)' /\ (shared[Body] = Holds(Body))'
    BY <2>2, <2>3 DEF AtPlace, Holds
  <2>5. OthersKeep(Body)
    BY <1>3, <2>1, <2>2 DEF OthersKeep, BeginFinal, lockVars, TypeOK
  <2>6. Writes(Body)
    BY <1>3, <2>2, <2>3 DEF Writes, BeginFinal, lockVars
  <2> QED
    BY <2>2, <2>4, <2>5, <2>6, ThreadStep
<1>4. ASSUME NEW t \in Threads, LockShared(t) PROVE LockInv' /\ ControlInv'
  <2>1. /\ op'[t] = op[t] /\ inner'[t] = inner[t] /\ shared'[t] = shared[t] + 1
        /\ pc'[t] = CASE op[t] = "Then"                         -> "call"
                      [] op[t] = "Awaiters" /\ pc[t] = "shared" -> "again"
                      [] OTHER                                  -> "read"
    BY <1>4 DEF LockShared, TypeOK
  <2>2. AtPlace(t) /\ shared[t] = Holds(t) /\ pc[t] \in {"shared", "again"}
        /\ inner[t] \in BOOLEAN /\ shared[t] \in Nat
    BY <1>4 DEF LockShared, ControlInv, LockInv, TypeOK
  <2>3. AtPlace(t)'
    BY <2>1, <2>2 DEF AtPlace, Queries, Waits
  <2>4. (shared[t] = Holds(t))'
    BY <2>1, <2>2 DEF Holds, AtPlace, Queries, Waits
  <2>5. OthersKeep(t)
    BY <1>4 DEF OthersKeep, LockShared, TypeOK
  <2>6. Writes(t)
    BY <1>4, <2>1 DEF Writes, LockShared
  <2> QED
    BY <2>3, <2>4, <2>5, <2>6, ThreadStep
<1>5. ASSUME NEW t \in Threads, Ask(t) PROVE LockInv' /\ ControlInv'
  <2>1. /\ op'[t] = op[t] /\ inner'[t] = inner[t] /\ shared'[t] = shared[t]
        /\ pc'[t] = "queued" /\ pc[t] = "excl"
    BY <1>5 DEF Ask, lockVars, TypeOK
  <2>2. AtPlace(t)' /\ (shared[t] = Holds(t))'
    BY <2>1 DEF AtPlace, Holds, ControlInv, LockInv
  <2>3. OthersKeep(t)
    BY <1>5 DEF OthersKeep, Ask, lockVars, TypeOK
  <2>4. Writes(t)
    BY <1>5, <2>1 DEF Writes, Ask, lockVars, LockInv
  <2> QED
    BY <2>2, <2>3, <2>4, ThreadStep
<1>6. ASSUME NEW t \in Threads, LockExclusive(t) PROVE LockInv' /\ ControlInv'
  <2>1. /\ op'[t] = op[t] /\ inner'[t] = inner[t] /\ shared'[t] = shared[t]
        /\ pc'[t] = "write" /\ pc[t] = "queued"
    BY <1>6 DEF LockExclusive, TypeOK
  <2>2. AtPlace(t)' /\ (shared[t] = Holds(t))'
    BY <2>1 DEF AtPlace, Holds, ControlInv, LockInv
  <2>3. OthersKeep(t)
    BY <1>6 DEF OthersKeep, LockExclusive, TypeOK
  <2>4. Writes(t)
    BY <1>6, <2>1 DEF Writes, LockExclusive
  <2> QED
    BY <2>2, <2>3, <2>4, ThreadStep
<1>7. ASSUME NEW t \in Threads, Query(t) PROVE LockInv' /\ ControlInv'
  <2>1. Return(t, {}) /\ {} \in SUBSET Woken
    BY <1>7 DEF Query
  <2>2. /\ shared'[t] = IF inner[t] THEN 1 ELSE 0
        /\ \A u \in Threads \ {t} : shared'[u] = shared[u]
        /\ UNCHANGED writer
        /\ writer = Nobody
    BY <1>7, UnlockPlace DEF Query
  <2>3. AtPlace(t)' /\ (shared[t] = Holds(t))' /\ OthersKeep(t)
    BY <2>1, <2>2, ReturnPlace DEF OthersKeep
  <2>4. Writes(t)
    BY <1>7, <2>1, <2>2, ReturnPlace DEF Writes, Query
  <2> QED
    BY <2>3, <2>4, ThreadStep
<1>8. ASSUME NEW t \in Threads, Load(t) \/ (Exchange(t) /\ resolved)
      PROVE  LockInv' /\ ControlInv'
  <2>1. Return(t, {}) /\ {} \in SUBSET Woken /\ pc[t] \in {"load", "exchange"}
    BY <1>8 DEF Load, Exchange
  <2>2. UNCHANGED <<shared, writer>> /\ shared[t] = IF inner[t] THEN 1 ELSE 0
    BY <1>8, <2>1 DEF Load, Exchange, lockVars, LockInv, Holds
  <2>3. AtPlace(t)' /\ (shared[t] = Holds(t))' /\ OthersKeep(t)
    BY <2>1, <2>2, ReturnPlace DEF OthersKeep
  <2>4. Writes(t)
    BY <2>1, <2>2, ReturnPlace DEF Writes, LockInv
  <2> QED
    BY <2>3, <2>4, ThreadStep
<1>9. ASSUME NEW t \in Threads, WaitDone(t) \/ WaitAwaited(t)
      PROVE  LockInv' /\ ControlInv'
  <2>1. pc[t] = "read" /\ op[t] \in Waits /\ op[t] # "Awaiters" /\ Unlock(t, 1)
    BY <1>9 DEF WaitDone, WaitAwaited, Waits
  <2>2. /\ shared'[t] = IF inner[t] THEN 1 ELSE 0
        /\ \A u \in Threads \ {t} : shared'[u] = shared[u]
        /\ UNCHANGED writer
        /\ writer = Nobody
    BY <2>1, UnlockPlace
  <2>3. CASE Return(t, {})
    <3>1. AtPlace(t)' /\ (shared[t] = Holds(t))' /\ OthersKeep(t)
      BY <2>3, <2>2, ReturnPlace DEF OthersKeep
    <3>2. Writes(t)
      BY <2>1, <2>2, <2>3, ReturnPlace DEF Writes
    <3> QED
      BY <3>1, <3>2, ThreadStep
  <2>4. CASE pc' = [pc EXCEPT ![t] = "blocked"] /\ UNCHANGED <<op, inner>>
    <3>1. pc'[t] = "blocked" /\ op'[t] = op[t] /\ inner'[t] = inner[t]
      BY <2>4 DEF TypeOK
    <3>2. AtPlace(t)' /\ (shared[t] = Holds(t))'
      BY <2>1, <2>2, <3>1 DEF AtPlace, Holds, ControlInv, Waits
    <3>3. OthersKeep(t)
      BY <2>2, <2>4 DEF OthersKeep, TypeOK
    <3>4. Writes(t)
      BY <2>1, <2>2, <3>1 DEF Writes
    <3> QED
      BY <3>2, <3>3, <3>4, ThreadStep
  <2> QED
    BY <1>9, <2>3, <2>4 DEF WaitDone, WaitAwaited
<1>10. ASSUME NEW t \in Threads, EndFunction(t) PROVE LockInv' /\ ControlInv'
  <2>1. Return(t, {}) /\ {} \in SUBSET Woken /\ pc[t] = "call" /\ ~inner[t]
    BY <1>10 DEF EndFunction, ControlInv, AtPlace
  <2>2. shared[t] = 1
    BY <2>1 DEF LockInv, Holds
  <2>3. /\ shared'[t] = 0 /\ \A u \in Threads \ {t} : shared'[u] = shared[u]
        /\ UNCHANGED writer
    BY <1>10, <2>2 DEF EndFunction, Unlock, TypeOK
  <2>4. AtPlace(t)' /\ (shared[t] = Holds(t))' /\ OthersKeep(t)
    BY <2>1, <2>3, ReturnPlace DEF OthersKeep
  <2>5. Writes(t)
    BY <2>1, <2>3, ReturnPlace DEF Writes
  <2> QED
    BY <2>4, <2>5, ThreadStep
<1>11. ASSUME NEW t \in Threads, Exchange(t), ~resolved PROVE LockInv' /\ ControlInv'
  <2>1. /\ op'[t] = op[t] /\ inner'[t] = inner[t] /\ shared'[t] = shared[t]
        /\ pc'[t] = "excl" /\ pc[t] = "exchange"
    BY <1>11 DEF Exchange, lockVars, TypeOK
  <2>2. AtPlace(t)' /\ (shared[t] = Holds(t))'
    BY <2>1 DEF AtPlace, Holds, ControlInv, LockInv
  <2>3. OthersKeep(t)
    BY <1>11 DEF OthersKeep, Exchange, lockVars, TypeOK
  <2>4. Writes(t)
    BY <1>11, <2>1 DEF Writes, Exchange, lockVars, LockInv
  <2> QED
    BY <2>2, <2>3, <2>4, ThreadStep
<1>12. ASSUME NEW t \in Threads, pc[t] = "write", writer' = Nobody, UNCHANGED shared,
              \/ \E woken \in SUBSET Woken : Return(t, woken)
              \/ /\ op' = [op EXCEPT ![t] = "Clear"]
                 /\ Goto(t, First("Clear"), {})
                 /\ UNCHANGED inner
              \/ /\ op' = [op EXCEPT ![t] = "none"]
                 /\ Goto(t, "ended", Woken)
                 /\ UNCHANGED inner
              \/ /\ op[t] = "Then"
                 /\ Goto(t, "shared", {})
                 /\ UNCHANGED <<op, inner>>
       PROVE  LockInv' /\ ControlInv'
  <2>1. ~inner[t] /\ shared[t] = 0
    BY <1>12, WriterAlone
  <2>2. CASE \E woken \in SUBSET Woken : Return(t, woken)
    <3>1. PICK woken \in SUBSET Woken : Return(t, woken)
      BY <2>2
    <3>2. AtPlace(t)' /\ (shared[t] = Holds(t))' /\ OthersKeep(t)
      BY <1>12, <2>1, <3>1, ReturnPlace DEF OthersKeep
    <3>3. Writes(t)
      BY <1>12, <3>1, ReturnPlace DEF Writes
    <3> QED
      BY <3>2, <3>3, ThreadStep
  <2>3. CASE \E o \in {"Clear", "none", "Then"}, at \in {"excl", "ended", "shared"},
                woken \in SUBSET Woken :
                /\ op' = [op EXCEPT ![t] = o] /\ Goto(t, at, woken) /\ UNCHANGED inner
                /\ at = "shared" => o = "Then"
    <3>1. PICK o \in {"Clear", "none", "Then"}, at \in {"excl", "ended", "shared"},
               woken \in SUBSET Woken :
               /\ op' = [op EXCEPT ![t] = o] /\ Goto(t, at, woken) /\ UNCHANGED inner
               /\ at = "shared" => o = "Then"
      BY <2>3
    <3>2. op'[t] = o /\ pc'[t] = at /\ ~inner'[t] /\ shared'[t] = 0
      BY <1>12, <2>1, <3>1 DEF Goto, TypeOK
    <3>3. AtPlace(t)' /\ (shared[t] = Holds(t))'
      BY <3>1, <3>2 DEF AtPlace, Holds
    <3>4. OthersKeep(t)
      BY <1>12, <3>1 DEF OthersKeep, Goto, Woken, TypeOK
    <3>5. Writes(t)
      BY <1>12, <3>1, <3>2 DEF Writes
    <3> QED
      BY <3>3, <3>4, <3>5, ThreadStep
  <2>4. op[t] = "Then" => op = [op EXCEPT ![t] = "Then"]
    BY DEF TypeOK
  <2>5. First("Clear") = "excl"
    BY DEF First
  <2> QED
    BY <1>12, <2>2, <2>3, <2>4, <2>5
<1>13. ASSUME NEW t \in Threads, Store(t) \/ Clear(t) \/ Register(t)
       PROVE  LockInv' /\ ControlInv'
  <2>1. pc[t] = "write" /\ writer' = Nobody /\ UNCHANGED shared
    BY <1>13 DEF Store, Clear, Register
  <2>2. CASE Store(t)
    BY <1>12, <2>1, <2>2 DEF Store
  <2>3. CASE Clear(t)
    BY <1>12, <2>1, <2>3 DEF Clear
  <2>4. CASE Register(t)
    BY <1>12, <2>1, <2>4 DEF Register
  <2> QED
    BY <1>13, <2>2, <2>3, <2>4
<1>14. CASE UNCHANGED vars
  BY <1>14 DEF vars, lockVars, LockInv, ControlInv, AtPlace, Holds
<1> QED
  BY <1>1, <1>2, <1>3, <1>4, <1>5, <1>6, <1>7, <1>8, <1>9, <1>10, <1>11, <1>13, <1>14
     DEF Next, Step

(* The invariant of the lock. *)
LEMMA LockInvariant == Spec => [](TypeOK /\ LockInv /\ ControlInv)
<1>1. Init => TypeOK /\ LockInv /\ ControlInv
  <2> SUFFICES ASSUME Init PROVE TypeOK /\ LockInv /\ ControlInv
    OBVIOUS
  <2>1. TypeOK
    <3>1. /\ shared \in [Threads -> Nat] /\ pc \in [Threads -> Places]
          /\ op \in [Threads -> Calls] /\ inner \in [Threads -> BOOLEAN]
          /\ seen \in [Threads -> {"nothing", "done", "resolved", "rejected"}]
          /\ last \in [Threads -> Nat] /\ calls \in [Threads -> 0 .. MaxCalls]
      BY UnsetType, LockAssumption DEF Init, Places, Calls
    <3> QED
      BY <3>1, TypeParts DEF Init
  <2>2. LockInv /\ ControlInv
    BY LockAssumption DEF Init, LockInv, ControlInv, AtPlace, Holds, Threads
  <2> QED
    BY <2>1, <2>2
<1>2. TypeOK /\ LockInv /\ ControlInv /\ [Next]_vars
      => TypeOK' /\ LockInv' /\ ControlInv'
  BY StepType, StepLock
<1> QED
  BY <1>1, <1>2, PTL DEF Spec

(* The state of the promise and of its lock keeps its types: in particular
   no thread lets go of a shared lock that it does not have. *)
THEOREM LockTypeCorrect == Spec => []TypeOK
  BY LockInvariant, PTL

(* While one thread changes the state of a promise under the exclusive lock,
   in the resolver, a registration or final_suspend, no other one reads or
   changes it, provided that nobody asks a Resolve<void> whether it is done:
   its operator bool looks without the lock. *)
THEOREM NoDataRaceHolds ==
    ASSUME "Bool" \notin Ops \union Nested
    PROVE  Spec => []NoDataRace
<1> DEFINE Locks == \A t \in Threads : op[t] # "Bool"
<1>1. Init => Locks
  BY DEF Init
<1>2. TypeOK /\ Locks /\ [Next]_vars => Locks'
  <2> SUFFICES ASSUME TypeOK, Locks, [Next]_vars PROVE Locks'
    OBVIOUS
  <2>1. ASSUME NEW t, NEW o, o # "Bool", op' = [op EXCEPT ![t] = o] PROVE Locks'
    BY <2>1 DEF TypeOK
  <2>2. ASSUME NEW t, NEW woken, Return(t, woken) PROVE Locks'
    BY <2>1, <2>2 DEF Return
  <2>3. ASSUME NEW t \in Threads, Step(t) PROVE Locks'
    BY <2>1, <2>2, <2>3
       DEF Step, LockShared, Ask, LockExclusive, Query, Load, WaitDone, WaitAwaited,
           EndFunction, Exchange, Store, Clear, Register
  <2>4. CASE BeginFinal
    BY <2>1, <2>4 DEF BeginFinal
  <2>5. CASE \/ \E t \in Users, o \in Ops : Begin(t, o)
             \/ \E t \in Users, o \in Nested : CallFunction(t, o)
    BY <2>1, <2>5 DEF Begin, CallFunction
  <2> QED
    BY <2>3, <2>4, <2>5 DEF Next, vars
<1>3. TypeOK /\ LockInv /\ Locks => NoDataRace
  <2> SUFFICES ASSUME TypeOK, LockInv, NEW t \in Threads, NEW u \in Threads,
                      t # u, pc[t] = "write"
               PROVE  pc[u] \notin {"read", "call", "write"}
    BY DEF NoDataRace
  <2>1. writer = t /\ shared[u] = 0 /\ shared[u] = Holds(u)
    BY WriterAlone DEF LockInv
  <2>2. pc[u] # "write"
    BY <2>1 DEF LockInv
  <2> QED
    BY <2>1, <2>2, HoldsNone
<1> QED
  BY <1>1, <1>2, <1>3, LockInvariant, PTL DEF Spec

(* The calls of users who leave Awaiters() alone and whose functions ask a
   promise under its own lock for nothing but its use count. *)
Disciplined ==
    \A t \in Threads : op[t] # "Awaiters" /\ (inner[t] => pc[t] = "load")

(* No thread asks for the lock of a promise while it has it: Then and Finally
   on a settled promise let go of the exclusive lock before they take the
   shared one, and a wait has let go of it before it asks again. *)
THEOREM LocksOnceHolds ==
    ASSUME "Awaiters" \notin Ops, Nested \subseteq {"UseCount"}
    PROVE  Spec => []LocksOnce
<1>1. Init => Disciplined
  BY DEF Init, Disciplined
<1>2. TypeOK /\ Disciplined /\ [Next]_vars => Disciplined'
  <2> SUFFICES ASSUME TypeOK, Disciplined, [Next]_vars PROVE Disciplined'
    OBVIOUS
  <2>1. ASSUME NEW t \in Threads, NEW woken \in SUBSET Woken, Return(t, woken)
        PROVE  Disciplined'
    BY <2>1 DEF TypeOK, Disciplined, Return, Goto, Woken
  <2>2. ASSUME NEW t \in Threads, ~inner[t], UNCHANGED inner,
               \E o \in Calls \ {"Awaiters"} : op' = [op EXCEPT ![t] = o],
               \A u \in Threads \ {t} : pc[u] = "load" => pc'[u] = "load"
        PROVE  Disciplined'
    BY <2>2 DEF TypeOK, Disciplined
  <2>3. ASSUME NEW t \in Threads, pc[t] # "load", UNCHANGED <<op, inner>>,
               \A u \in Threads \ {t} : pc[u] = "load" => pc'[u] = "load"
        PROVE  Disciplined'
    BY <2>3 DEF TypeOK, Disciplined
  <2>4. ASSUME NEW t \in Users, NEW o \in Ops, Begin(t, o) PROVE Disciplined'
    <3>1. t \in Threads /\ o \in Calls \ {"Awaiters"}
      BY LockAssumption DEF Threads, Calls
    <3>2. \A u \in Threads \ {t} : pc'[u] = pc[u]
      BY <2>4 DEF Begin, TypeOK
    <3> QED
      BY <2>2, <2>4, <3>1, <3>2 DEF Begin, Disciplined
  <2>5. ASSUME NEW t \in Users, NEW o \in Nested, CallFunction(t, o)
        PROVE  Disciplined'
    <3>1. t \in Threads /\ o = "UseCount"
      BY DEF Threads
    <3>2. First(o) = "load"
      BY <3>1 DEF First
    <3> QED
      BY <2>5, <3>1, <3>2 DEF CallFunction, Disciplined, TypeOK
  <2>6. CASE BeginFinal
    <3>1. \E o \in {"Return", "Clear"} :
             /\ op' = [op EXCEPT ![Body] = o]
             /\ pc' = [pc EXCEPT ![Body] = First(o)]
      BY <2>6 DEF BeginFinal
    <3>2. Body \in Threads /\ {"Return", "Clear"} \subseteq Calls \ {"Awaiters"}
      BY DEF Threads, Calls, AllOps, Queries, Waits
    <3>3. \A u \in Threads \ {Body} : pc'[u] = pc[u]
      BY <3>1, <3>2 DEF TypeOK
    <3>4. ~inner[Body] /\ UNCHANGED inner
      BY <2>6, <3>2 DEF BeginFinal, Disciplined
    <3> QED
      BY <2>2, <3>1, <3>2, <3>3, <3>4
  <2>7. ASSUME NEW t \in Threads, LockShared(t) \/ Ask(t) \/ LockExclusive(t)
        PROVE  Disciplined'
    BY <2>3, <2>7 DEF LockShared, Ask, LockExclusive, TypeOK
  <2>8. ASSUME NEW t \in Threads, Query(t) \/ Load(t) \/ EndFunction(t)
        PROVE  Disciplined'
    BY <2>1, <2>8 DEF Query, Load, EndFunction
  <2>9. ASSUME NEW t \in Threads, WaitDone(t) \/ WaitAwaited(t) \/ Exchange(t)
        PROVE  Disciplined'
    <3>1. \/ Return(t, {})
          \/ /\ pc' = [pc EXCEPT ![t] = "blocked"] \/ pc' = [pc EXCEPT ![t] = "excl"]
             /\ pc[t] # "load" /\ UNCHANGED <<op, inner>>
      BY <2>9 DEF WaitDone, WaitAwaited, Exchange
    <3> QED
      BY <2>1, <2>3, <3>1 DEF TypeOK
  <2>10. ASSUME NEW t \in Threads, Store(t) \/ Clear(t) \/ Register(t)
         PROVE  Disciplined'
    <3>1. \/ Return(t, Woken) \/ Return(t, {})
          \/ /\ \E o \in {"Clear", "none"} : op' = [op EXCEPT ![t] = o]
             /\ \E at \in {First("Clear"), "ended"}, woken \in SUBSET Woken :
                   Goto(t, at, woken)
             /\ pc[t] = "write" /\ UNCHANGED inner
          \/ /\ Goto(t, "shared", {})
             /\ pc[t] = "write" /\ UNCHANGED <<op, inner>>
      BY <2>10 DEF Store, Clear, Register
    <3>2. ASSUME NEW at, NEW woken \in SUBSET Woken, Goto(t, at, woken)
          PROVE  \A u \in Threads \ {t} : pc[u] = "load" => pc'[u] = "load"
      BY <3>2 DEF Goto, Woken, TypeOK
    <3>3. {"Clear", "none"} \subseteq Calls \ {"Awaiters"}
      BY DEF Calls, AllOps, Queries, Waits
    <3>4. pc[t] = "write" => ~inner[t]
      BY DEF Disciplined
    <3> QED
      BY <2>1, <2>2, <2>3, <3>1, <3>2, <3>3, <3>4
  <2>11. CASE UNCHANGED vars
    BY <2>11 DEF vars, Disciplined
  <2> QED
    BY <2>4, <2>5, <2>6, <2>7, <2>8, <2>9, <2>10, <2>11 DEF Next, Step
<1>3. TypeOK /\ LockInv /\ ControlInv /\ Disciplined => LocksOnce
  <2> SUFFICES ASSUME TypeOK, LockInv, ControlInv, Disciplined, NEW t \in Threads,
                      pc[t] \in {"shared", "again", "queued"}
               PROVE  shared[t] = 0 /\ writer # t
    BY DEF LocksOnce
  <2>1. pc[t] # "again" /\ ~inner[t] /\ writer # t
    BY DEF ControlInv, AtPlace, Disciplined, LockInv
  <2>2. shared[t] = Holds(t)
    BY DEF LockInv
  <2> QED
    BY <2>1, <2>2 DEF Holds
<1> QED
  BY <1>1, <1>2, <1>3, LockInvariant, PTL DEF Spec

(* Thread t has won the exchange of resolved_ and has not stored yet. *)
Settling(t) ==
    /\ pc[t] \in {"excl", "queued", "write"}
    /\ op[t] \in {"Resolve", "Reject", "Return"}

(* What a thread asks for it has a reason to ask for. *)
Asks(t) ==
    /\ op[t] = "Value" => seen[t] = "resolved"
    /\ op[t] = "Exception" => seen[t] # "nothing"

(* The promise settles once, so that answers about it stay true. *)
AnswerInv ==
    /\ ~(value /\ exception)
    /\ IsDone => resolved
    /\ \A t \in Threads : Settling(t) => resolved /\ ~IsDone
    /\ \A t, u \in Threads : Settling(t) /\ Settling(u) => t = u
    /\ \A t \in Threads : Asks(t)
    /\ AnswersHold

(* A step that settles nothing and learns nothing. *)
LEMMA QuietAnswers ==
    ASSUME TypeOK, AnswerInv, UNCHANGED <<value, exception, seen>>,
           resolved' = resolved \/ resolved' = TRUE,
           \A t \in Threads : Settling(t)' => Settling(t),
           \A t \in Threads : Asks(t)'
    PROVE  AnswerInv'
<1>1. /\ ~(value /\ exception)'
      /\ (IsDone => resolved)'
  BY DEF AnswerInv, IsDone
<1>2. \A t \in Threads : (Settling(t) => resolved /\ ~IsDone)'
  BY DEF AnswerInv, IsDone
<1>3. \A t, u \in Threads : (Settling(t) /\ Settling(u) => t = u)'
  BY DEF AnswerInv
<1>4. AnswersHold'
  BY DEF AnswerInv, AnswersHold, IsDone
<1> QED
  BY <1>1, <1>2, <1>3, <1>4 DEF AnswerInv

(* A step that settles nothing but from which thread t learns something. *)
LEMMA LearnAnswers ==
    ASSUME TypeOK, AnswerInv, UNCHANGED <<resolved, value, exception>>,
           NEW t \in Threads,
           \A u \in Threads : Settling(u)' => Settling(u),
           \A u \in Threads \ {t} : seen'[u] = seen[u] /\ op'[u] = op[u],
           op'[t] = op[t] \/ op'[t] \notin {"Value", "Exception"},
           seen[t] # "nothing" => seen'[t] # "nothing",
           seen[t] = "resolved" => seen'[t] = "resolved",
           seen'[t] # "nothing" => IsDone,
           seen'[t] = "resolved" => value /\ ~exception,
           seen'[t] = "rejected" => exception /\ ~value
    PROVE  AnswerInv'
<1>1. /\ ~(value /\ exception)'
      /\ (IsDone => resolved)'
  BY DEF AnswerInv, IsDone
<1>2. \A u \in Threads : (Settling(u) => resolved /\ ~IsDone)'
  BY DEF AnswerInv, IsDone
<1>3. \A u, v \in Threads : (Settling(u) /\ Settling(v) => u = v)'
  BY DEF AnswerInv
<1>4. \A u \in Threads : Asks(u)'
  BY DEF AnswerInv, Asks
<1>5. AnswersHold'
  BY DEF AnswerInv, AnswersHold, IsDone
<1> QED
  BY <1>1, <1>2, <1>3, <1>4, <1>5 DEF AnswerInv

(* A call that returns settles and asks nothing any more. *)
LEMMA ReturnAnswers ==
    ASSUME TypeOK, NEW t \in Threads, NEW woken \in SUBSET Woken, Return(t, woken)
    PROVE  /\ ~Settling(t)'
           /\ op'[t] \notin {"Value", "Exception"}
           /\ \A u \in Threads \ {t} : op'[u] = op[u] /\ (Settling(u)' => Settling(u))
<1>1. op'[t] = (IF inner[t] THEN "Then" ELSE "none") /\ inner[t] \in BOOLEAN
  BY DEF Return, TypeOK
<1>2. \A u \in Threads \ {t} :
        /\ op'[u] = op[u]
        /\ pc'[u] = pc[u] \/ (pc[u] = "blocked" /\ pc'[u] = "shared")
  BY DEF Return, Goto, TypeOK, Woken
<1> QED
  BY <1>1, <1>2 DEF Settling

(* Every step keeps the answers. *)
LEMMA StepAnswers ==
    ASSUME TypeOK, LockInv, AnswerInv, [Next]_vars
    PROVE  AnswerInv'
<1>1. ASSUME NEW t \in Users, NEW o \in AllOps, May(t, o), pc[t] \in {"idle", "call"},
             op' = [op EXCEPT ![t] = o], pc' = [pc EXCEPT ![t] = First(o)],
             UNCHANGED <<stateVars, seen>>
      PROVE  AnswerInv'
  <2>1. t \in Threads /\ o \in Calls
    BY DEF Threads, Calls
  <2>2. ~Settling(t)'
    <3>1. op'[t] = o /\ pc'[t] = First(o)
      BY <1>1, <2>1 DEF TypeOK
    <3>2. o \in {"Resolve", "Reject", "Return"} => First(o) = "exchange"
      BY DEF First
    <3> QED
      BY <3>1, <3>2 DEF Settling
  <2>3. \A u \in Threads \ {t} : op'[u] = op[u] /\ pc'[u] = pc[u]
    BY <1>1 DEF TypeOK
  <2>4. Asks(t)'
    BY <1>1, <2>1 DEF Asks, May, TypeOK
  <2>5. \A u \in Threads : Asks(u)' /\ (Settling(u)' => Settling(u))
    BY <1>1, <2>2, <2>3, <2>4 DEF Asks, Settling, AnswerInv
  <2> QED
    BY <1>1, <2>5, QuietAnswers DEF stateVars
<1>2. ASSUME NEW t \in Users, NEW o \in Ops, Begin(t, o) PROVE AnswerInv'
  BY <1>1, <1>2, LockAssumption DEF Begin
<1>3. ASSUME NEW t \in Users, NEW o \in Nested, CallFunction(t, o) PROVE AnswerInv'
  BY <1>1, <1>3, LockAssumption DEF CallFunction
<1>4. CASE BeginFinal
  <2>1. PICK o \in {"Return", "Clear"} :
             /\ op' = [op EXCEPT ![Body] = o]
             /\ pc' = [pc EXCEPT ![Body] = First(o)]
    BY <1>4 DEF BeginFinal
  <2>2. Body \in Threads
    BY DEF Threads
  <2>3. op'[Body] = o /\ ~Settling(Body)'
    BY <2>1, <2>2 DEF First, Settling, TypeOK
  <2>4. \A u \in Threads \ {Body} : op'[u] = op[u] /\ pc'[u] = pc[u]
    BY <2>1 DEF TypeOK
  <2>5. \A u \in Threads : Asks(u)' /\ (Settling(u)' => Settling(u))
    BY <1>4, <2>3, <2>4 DEF Asks, Settling, AnswerInv, BeginFinal, userVars
  <2> QED
    BY <1>4, <2>5, QuietAnswers DEF BeginFinal, stateVars, userVars
<1>5. ASSUME NEW t \in Threads, LockShared(t) \/ Ask(t) \/ LockExclusive(t)
      PROVE  AnswerInv'
  <2>1. \A u \in Threads : Settling(u)' => Settling(u)
    BY <1>5 DEF LockShared, Ask, LockExclusive, Settling, TypeOK
  <2>2. \A u \in Threads : Asks(u)'
    BY <1>5 DEF LockShared, Ask, LockExclusive, userVars, Asks, AnswerInv
  <2> QED
    BY <1>5, <2>1, <2>2, QuietAnswers
       DEF LockShared, Ask, LockExclusive, stateVars, userVars
<1>6. ASSUME NEW t \in Threads, Query(t) PROVE AnswerInv'
  <2>1. /\ ~Settling(t)' /\ op'[t] \notin {"Value", "Exception"}
        /\ \A u \in Threads \ {t} : op'[u] = op[u] /\ (Settling(u)' => Settling(u))
    BY <1>6, ReturnAnswers DEF Query
  <2>2. /\ seen'[t] = Learn(op[t], seen[t])
        /\ \A u \in Threads \ {t} : seen'[u] = seen[u]
    BY <1>6 DEF Query, TypeOK
  <2>3. /\ seen[t] # "nothing" => IsDone
        /\ seen[t] = "resolved" => value /\ ~exception
        /\ seen[t] = "rejected" => exception /\ ~value
        /\ ~(value /\ exception)
        /\ seen[t] \in {"nothing", "done", "resolved", "rejected"}
        /\ value \in BOOLEAN /\ exception \in BOOLEAN
    BY DEF AnswerInv, AnswersHold, TypeOK
  <2>4. /\ seen[t] # "nothing" => seen'[t] # "nothing"
        /\ seen[t] = "resolved" => seen'[t] = "resolved"
        /\ seen'[t] # "nothing" => IsDone
        /\ seen'[t] = "resolved" => value /\ ~exception
        /\ seen'[t] = "rejected" => exception /\ ~value
    BY <2>2, <2>3 DEF Learn, IsDone
  <2> QED
    BY <1>6, <2>1, <2>2, <2>4, LearnAnswers DEF Query, stateVars
<1>7. ASSUME NEW t \in Threads, Return(t, {}), UNCHANGED <<value, exception, seen>>,
             resolved' = resolved \/ resolved' = TRUE
      PROVE  AnswerInv'
  <2>1. /\ ~Settling(t)' /\ op'[t] \notin {"Value", "Exception"}
        /\ \A u \in Threads \ {t} : op'[u] = op[u] /\ (Settling(u)' => Settling(u))
    BY <1>7, ReturnAnswers
  <2>2. \A u \in Threads : Asks(u)'
    BY <1>7, <2>1 DEF Asks, AnswerInv
  <2> QED
    BY <1>7, <2>1, <2>2, QuietAnswers
<1>8. ASSUME NEW t \in Threads, EndFunction(t) PROVE AnswerInv'
  BY <1>7, <1>8 DEF EndFunction, stateVars, userVars
<1>9. ASSUME NEW t \in Threads, pc[t] # "write", UNCHANGED <<resolved, value, exception>>,
             pc' = [pc EXCEPT ![t] = "blocked"], UNCHANGED <<seen, op>>
      PROVE  AnswerInv'
  <2>1. \A u \in Threads : Asks(u)' /\ (Settling(u)' => Settling(u))
    BY <1>9 DEF Asks, Settling, TypeOK, AnswerInv
  <2> QED
    BY <1>9, <2>1, QuietAnswers
<1>10. ASSUME NEW t \in Threads, WaitAwaited(t) PROVE AnswerInv'
  BY <1>7, <1>9, <1>10 DEF WaitAwaited, stateVars
<1>11. ASSUME NEW t \in Threads, WaitDone(t) PROVE AnswerInv'
  <2>1. CASE ~Finished
    BY <1>9, <1>11, <2>1 DEF WaitDone, stateVars
  <2>2. CASE Finished
    <3>1. /\ ~Settling(t)' /\ op'[t] \notin {"Value", "Exception"}
          /\ \A u \in Threads \ {t} : op'[u] = op[u] /\ (Settling(u)' => Settling(u))
      BY <1>11, <2>2, ReturnAnswers DEF WaitDone
    <3>2. /\ seen'[t] = IF seen[t] = "nothing" THEN "done" ELSE seen[t]
          /\ \A u \in Threads \ {t} : seen'[u] = seen[u]
      BY <1>11, <2>2 DEF WaitDone, TypeOK
    <3>3. /\ seen'[t] # "nothing" => IsDone
          /\ seen'[t] = "resolved" => value /\ ~exception
          /\ seen'[t] = "rejected" => exception /\ ~value
      BY <2>2, <3>2 DEF AnswerInv, AnswersHold, Finished
    <3> QED
      BY <1>11, <3>1, <3>2, <3>3, LearnAnswers DEF WaitDone, stateVars
  <2> QED
    BY <2>1, <2>2
<1>12. ASSUME NEW t \in Threads, Exchange(t) PROVE AnswerInv'
  <2>1. CASE resolved
    BY <1>7, <1>12, <2>1 DEF Exchange, userVars
  <2>2. CASE ~resolved
    <3>1. \A u \in Threads : ~Settling(u) /\ ~IsDone
      BY <2>2 DEF AnswerInv
    <3>2. \A u \in Threads : Settling(u)' => u = t
      BY <1>12, <2>2, <3>1 DEF Exchange, Settling, TypeOK
    <3>3. UNCHANGED <<value, exception, seen, op>> /\ resolved'
      BY <1>12, <2>2 DEF Exchange, userVars
    <3>4. (\A u \in Threads : Asks(u))' /\ AnswersHold' /\ ~IsDone'
      BY <3>1, <3>3, <1>12 DEF AnswerInv, Asks, AnswersHold, IsDone
    <3> QED
      BY <3>2, <3>3, <3>4 DEF AnswerInv, IsDone
  <2> QED
    BY <2>1, <2>2
<1>13. ASSUME NEW t \in Threads, Store(t) PROVE AnswerInv'
  <2>1. Settling(t)
    BY <1>13 DEF Store, Settling
  <2>2. ~value /\ ~exception /\ resolved
    BY <2>1 DEF AnswerInv, IsDone
  <2>3. \A u \in Threads : ~Settling(u)' /\ Asks(u)'
    <3>1. \A u \in Threads \ {t} : ~Settling(u)
      BY <2>1 DEF AnswerInv
    <3>2. UNCHANGED seen
      BY <1>13 DEF Store, userVars
    <3>3. CASE Return(t, Woken) \/ Return(t, {})
      <4>1. /\ ~Settling(t)' /\ op'[t] \notin {"Value", "Exception"}
            /\ \A u \in Threads \ {t} : op'[u] = op[u] /\ (Settling(u)' => Settling(u))
        BY <3>3, ReturnAnswers
      <4> QED
        BY <3>1, <3>2, <4>1 DEF Asks, AnswerInv
    <3>4. CASE op' = [op EXCEPT ![t] = "Clear"] /\ Goto(t, First("Clear"), {})
      <4>1. /\ op'[t] = "Clear"
            /\ \A u \in Threads \ {t} : op'[u] = op[u] /\ pc'[u] = pc[u]
        BY <3>4 DEF Goto, TypeOK
      <4> QED
        BY <3>1, <3>2, <4>1 DEF Asks, AnswerInv, Settling
    <3> QED
      BY <1>13, <3>3, <3>4 DEF Store
  <2>4. /\ (value' = TRUE /\ exception' = exception)
           \/ (exception' = TRUE /\ value' = value)
        /\ UNCHANGED <<resolved, seen>>
    BY <1>13 DEF Store, userVars
  <2>5. AnswersHold'
    BY <2>2, <2>4 DEF AnswersHold, IsDone, AnswerInv
  <2> QED
    BY <2>2, <2>3, <2>4, <2>5 DEF AnswerInv, IsDone
<1>14. ASSUME NEW t \in Threads, Clear(t) PROVE AnswerInv'
  <2>1. \A u \in Threads : /\ u # t => op'[u] = op[u]
                           /\ op'[t] = "none"
                           /\ Settling(u)' => Settling(u)
    BY <1>14 DEF Clear, Goto, Woken, Settling, TypeOK
  <2>2. \A u \in Threads : Asks(u)'
    BY <1>14, <2>1 DEF Clear, userVars, Asks, AnswerInv
  <2> QED
    BY <1>14, <2>1, <2>2, QuietAnswers DEF Clear, userVars
<1>15. ASSUME NEW t \in Threads, Register(t) PROVE AnswerInv'
  <2>1. UNCHANGED <<resolved, value, exception, seen>>
    BY <1>15 DEF Register, userVars
  <2>2. CASE Return(t, Woken) \/ Return(t, {})
    <3>1. /\ ~Settling(t)' /\ op'[t] \notin {"Value", "Exception"}
          /\ \A u \in Threads \ {t} : op'[u] = op[u] /\ (Settling(u)' => Settling(u))
      BY <2>2, ReturnAnswers
    <3>2. \A u \in Threads : Asks(u)'
      BY <2>1, <3>1 DEF Asks, AnswerInv
    <3> QED
      BY <2>1, <3>1, <3>2, QuietAnswers
  <2>3. CASE Goto(t, "shared", {}) /\ UNCHANGED op
    <3>1. \A u \in Threads : Asks(u)' /\ (Settling(u)' => Settling(u))
      BY <2>1, <2>3 DEF Asks, AnswerInv, Goto, Settling, TypeOK
    <3> QED
      BY <2>1, <3>1, QuietAnswers
  <2> QED
    BY <1>15, <2>2, <2>3 DEF Register
<1>16. CASE UNCHANGED vars
  BY <1>16, QuietAnswers DEF vars, stateVars, userVars, Settling, Asks, AnswerInv
<1>17. ASSUME NEW t \in Threads, Load(t) PROVE AnswerInv'
  <2>1. /\ ~Settling(t)' /\ op'[t] \notin {"Value", "Exception"}
        /\ \A u \in Threads \ {t} : op'[u] = op[u] /\ (Settling(u)' => Settling(u))
    BY <1>17, ReturnAnswers DEF Load
  <2>2. /\ seen'[t] = seen[t] \/ (value /\ seen'[t] = "resolved")
        /\ \A u \in Threads \ {t} : seen'[u] = seen[u]
    BY <1>17 DEF Load, Peek, TypeOK
  <2>3. /\ seen'[t] # "nothing" => IsDone
        /\ seen'[t] = "resolved" => value /\ ~exception
        /\ seen'[t] = "rejected" => exception /\ ~value
    BY <2>2 DEF AnswerInv, AnswersHold, IsDone
  <2> QED
    BY <1>17, <2>1, <2>2, <2>3, LearnAnswers DEF Load, stateVars
<1> QED
  BY <1>2, <1>3, <1>4, <1>5, <1>6, <1>8, <1>10, <1>11, <1>12, <1>13, <1>14, <1>15, <1>16, <1>17
     DEF Next, Step

(* The invariant of the answers. *)
LEMMA AnswerInvariant == Spec => []AnswerInv
<1>1. Init => AnswerInv
  BY DEF Init, AnswerInv, AnswersHold, Asks, Settling, IsDone
<1>2. TypeOK /\ LockInv /\ AnswerInv /\ [Next]_vars => AnswerInv'
  BY StepAnswers
<1> QED
  BY <1>1, <1>2, LockInvariant, PTL DEF Spec

(* Done(), Resolved() and Rejected() never have to be asked again: a promise
   that has settled stays what it is, so a conclusion from two answers with
   the settling between them is right. *)
THEOREM AnswersHoldAlways == Spec => []AnswersHold
<1>1. AnswerInv => AnswersHold
  BY DEF AnswerInv
<1> QED
  BY <1>1, AnswerInvariant, PTL

(* The assertions of Value(), Exception() and the resolver hold: a caller
   that has a reason to ask finds what it asks for, and whoever wins the
   exchange of resolved_ finds the promise unsettled. *)
THEOREM AssertionsHoldAlways == Spec => []AssertionsHold
<1>1. AnswerInv => AssertionsHold
  BY DEF AnswerInv, AnswersHold, AssertionsHold, Asks, Settling
<1> QED
  BY <1>1, AnswerInvariant, PTL

(* The awaiters are taken when the promise has settled and its coroutine is
   gone, in whichever order that comes, and none registers after that. *)
THEOREM NoneLeftBehindHolds == Spec => []NoneLeftBehind
<1>1. Init => NoneLeftBehind
  BY DEF Init, NoneLeftBehind, IsDone
<1>2. TypeOK /\ NoneLeftBehind /\ [Next]_vars => NoneLeftBehind'
  <2> SUFFICES ASSUME TypeOK, NoneLeftBehind, [Next]_vars PROVE NoneLeftBehind'
    OBVIOUS
  <2>1. CASE UNCHANGED <<value, exception, handle, awaiters, useCount>>
    BY <2>1 DEF NoneLeftBehind, IsDone, Done
  <2>2. ASSUME NEW t \in Threads, Store(t) PROVE NoneLeftBehind'
    <3>1. IsDone' /\ (Done => awaiters' = 0) /\ (Done' <=> Done)
      BY <2>2 DEF Store, IsDone, Done
    <3> QED
      BY <3>1 DEF NoneLeftBehind
  <2>3. ASSUME NEW t \in Threads, Clear(t) PROVE NoneLeftBehind'
    BY <2>3 DEF Clear, NoneLeftBehind, IsDone
  <2>4. ASSUME NEW t \in Threads, Register(t) PROVE NoneLeftBehind'
    <3>1. CASE IsDone
      BY <2>1, <2>4, <3>1 DEF Register
    <3>2. CASE ~IsDone
      BY <2>4, <3>2 DEF Register, NoneLeftBehind, IsDone
    <3> QED
      BY <3>1, <3>2
  <2>5. ASSUME NEW t \in Threads, Exchange(t) PROVE NoneLeftBehind'
    BY <2>1, <2>5 DEF Exchange
  <2>6. ASSUME NEW t \in Threads,
               \/ LockShared(t) \/ Ask(t) \/ LockExclusive(t) \/ Query(t) \/ Load(t)
               \/ WaitDone(t) \/ WaitAwaited(t) \/ EndFunction(t)
        PROVE  NoneLeftBehind'
    <3>1. UNCHANGED stateVars
      BY <2>6 DEF LockShared, Ask, LockExclusive, Query, Load, WaitDone,
                  WaitAwaited, EndFunction
    <3> QED
      BY <2>1, <3>1 DEF stateVars
  <2>7. ASSUME UNCHANGED stateVars PROVE NoneLeftBehind'
    BY <2>1, <2>7 DEF stateVars
  <2>8. ASSUME \/ \E t \in Users, o \in Ops : Begin(t, o)
               \/ \E t \in Users, o \in Nested : CallFunction(t, o)
               \/ BeginFinal
               \/ UNCHANGED vars
        PROVE  NoneLeftBehind'
    <3>1. UNCHANGED stateVars
      BY <2>8 DEF Begin, CallFunction, BeginFinal, vars
    <3> QED
      BY <2>7, <3>1
  <2> QED
    BY <2>2, <2>3, <2>4, <2>5, <2>6, <2>8 DEF Next, Step
<1> QED
  BY <1>1, <1>2, LockInvariant, PTL DEF Spec
=============================================================================
