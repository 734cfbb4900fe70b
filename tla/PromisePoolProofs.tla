------------------------- MODULE PromisePoolProofs --------------------------
(***************************************************************************)
(* Theorems about the pool, for every number of workers, coroutines and    *)
(* dispatches: every dispatch is accepted or refused, whatever Stop() it   *)
(* races with, and a coroutine that has awaited Dispatch() is alone on the *)
(* worker that ran its job.                                                *)
(***************************************************************************)
EXTENDS PromisePool, TLAPS

(* Who is busy with which job: each job but a callback is in one pair of hands,
   and a thread other than a worker has the job of the callback that gave it
   the handles. *)
JobInv ==
    /\ \A k \in Callbacks : job[k] \in {None, k}
    /\ \A t, u \in Settlers :
         job[t] = job[u] /\ job[t] # None /\ job[t] \notin Callbacks => t = u
    /\ \A t \in Settlers :
         /\ pc[t] \in {"wait", "resolve"} => job[t] \in Switches
         /\ pc[t] = "call" => job[t] \notin Switches
         /\ pc[t] \in {"wait", "resolve"} => out[job[t]] = "pending"
         /\ pc[t] = "call" => out[job[t]] \in {"pending", "value", "error"}
         /\ pc[t] = "call" /\ job[t] \notin Callbacks => out[job[t]] = "pending"
         /\ pc[t] = "resume" => out[job[t]] \in {"value", "error"}

(* A function that is queued is queued once, and in nobody's hands. *)
QueueInv ==
    /\ IsInjective(queue)
    /\ Range(queue) \intersect later = {}
    /\ \A j \in Jobs : Queued(j) => out[j] = "pending" /\ ~Handled(j)
    /\ \A j \in Jobs : out[j] = "pending" => Queued(j) \/ Handled(j)

(* A promise that nobody has awaited is held by one coroutine at most, and
   the worker does not resolve that of Dispatch() before it is awaited: who
   comes to await it cannot find it resolved. *)
SwitchInv ==
    /\ \A c \in Coros : \A j \in holds[c] : uses[j] = 0 /\ out[j] # "none"
    /\ \A c, d \in Coros : c # d => holds[c] \intersect holds[d] = {}
    /\ \A j \in Jobs : out[j] = "none" => uses[j] = 0
    /\ \A j \in Switches : out[j] = "value" => uses[j] > 0
    /\ \A t \in Settlers : pc[t] = "resolve" => uses[job[t]] > 0
    /\ \A c \in Coros : after[c] # None => IsDone(after[c])

------------------------------------------------------------------------------
(* What the queue does to the set of its functions. *)

LEMMA AppendRange ==
    ASSUME NEW S, NEW s \in Seq(S), NEW e \in S
    PROVE  /\ Append(s, e) \in Seq(S)
           /\ Range(Append(s, e)) = Range(s) \union {e}
           /\ IsInjective(s) /\ e \notin Range(s) => IsInjective(Append(s, e))
<1>1. /\ Append(s, e) \in Seq(S)
      /\ Len(Append(s, e)) = Len(s) + 1
      /\ DOMAIN Append(s, e) = 1 .. Len(s) + 1
      /\ DOMAIN s = 1 .. Len(s)
      /\ Len(s) \in Nat
  OBVIOUS
<1>2. \A i \in 1 .. Len(s) : Append(s, e)[i] = s[i]
  OBVIOUS
<1>3. Append(s, e)[Len(s) + 1] = e
  OBVIOUS
<1>4. Range(Append(s, e)) = Range(s) \union {e}
  BY <1>1, <1>2, <1>3 DEF Range
<1>5. IsInjective(s) /\ e \notin Range(s) => IsInjective(Append(s, e))
  BY <1>1, <1>2, <1>3 DEF IsInjective, Range
<1> QED
  BY <1>1, <1>4, <1>5

LEMMA TailRange ==
    ASSUME NEW S, NEW s \in Seq(S), s # <<>>, IsInjective(s)
    PROVE  /\ Head(s) \in S /\ Tail(s) \in Seq(S)
           /\ Head(s) \in Range(s)
           /\ Range(Tail(s)) = Range(s) \ {Head(s)}
           /\ IsInjective(Tail(s))
<1>1. /\ Tail(s) \in Seq(S)
      /\ Len(s) \in Nat \ {0}
      /\ DOMAIN s = 1 .. Len(s)
      /\ DOMAIN Tail(s) = 1 .. Len(s) - 1
      /\ Head(s) = s[1]
      /\ 1 \in DOMAIN s
  OBVIOUS
<1>2. \A i \in 1 .. Len(s) - 1 : Tail(s)[i] = s[i + 1]
  OBVIOUS
<1>3. IsInjective(Tail(s))
  BY <1>1, <1>2 DEF IsInjective
<1>4. Head(s) \in S /\ Head(s) \in Range(s)
  BY <1>1 DEF Range
<1>5. ASSUME NEW x \in Range(Tail(s)) PROVE x \in Range(s) /\ x # Head(s)
  <2>1. PICK i \in 1 .. Len(s) - 1 : x = s[i + 1]
    BY <1>1, <1>2 DEF Range
  <2> QED
    BY <2>1, <1>1 DEF Range, IsInjective
<1>6. ASSUME NEW x \in Range(s), x # Head(s) PROVE x \in Range(Tail(s))
  <2>1. PICK i \in 1 .. Len(s) : x = s[i]
    BY <1>1 DEF Range
  <2>2. i - 1 \in 1 .. Len(s) - 1 /\ Tail(s)[i - 1] = x
    BY <2>1, <1>6, <1>1, <1>2
  <2> QED
    BY <2>2, <1>1 DEF Range
<1> QED
  BY <1>1, <1>3, <1>4, <1>5, <1>6

------------------------------------------------------------------------------
(* The types, and who is busy with what. *)

LEMMA TypeInit == Init => TypeOK /\ JobInv
<1> SUFFICES ASSUME Init PROVE TypeOK /\ JobInv
  OBVIOUS
<1> USE DEF Init, Settlers, Threads, Jobs
<1>1. /\ out \in [Jobs -> Outcomes] /\ uses \in [Jobs -> Nat]
      /\ later \in SUBSET Jobs /\ stopped \in BOOLEAN
  BY DEF Outcomes
<1>2. awaiters \in [Jobs -> Seq(Coros)] /\ queue \in Seq(Jobs) /\ batch \in [Settlers -> Seq(Coros)]
  OBVIOUS
<1>3. /\ pc \in [Settlers -> {"idle", "wait", "resolve", "call", "resume"}]
      /\ job \in [Settlers -> Jobs \union {None}]
      /\ \A t \in Settlers : pc[t] = "idle" /\ job[t] = None
  OBVIOUS
<1>4. /\ at \in [Coros -> Threads \union {"suspended", "ended"}]
      /\ waits \in [Coros -> Jobs \union {None}]
      /\ holds \in [Coros -> SUBSET Jobs]
      /\ after \in [Coros -> Jobs \union {None}]
  OBVIOUS
<1>5. TypeOK
  BY <1>1, <1>2, <1>3, <1>4 DEF TypeOK
<1>6. JobInv
  BY <1>3 DEF JobInv
<1> QED
  BY <1>5, <1>6

LEMMA TypeStep == TypeOK /\ [Next]_vars => TypeOK'
<1> SUFFICES ASSUME TypeOK, [Next]_vars PROVE TypeOK'
  OBVIOUS
<1> USE DEF TypeOK, Settlers, Threads, promiseVars, poolVars, workerVars, coroVars
<1>1. ASSUME NEW c \in Coros, NEW j \in Jobs, Dispatch(c, j) PROVE TypeOK'
  BY <1>1, AppendRange DEF Dispatch, Outcomes
<1>2. ASSUME NEW j \in Jobs, Due(j) PROVE TypeOK'
  BY <1>2, AppendRange DEF Due
<1>3. CASE Stop
  BY <1>3 DEF Stop
<1>4. ASSUME NEW w \in Workers, Take(w) PROVE TypeOK'
  <2>1. Head(queue) \in Jobs /\ Tail(queue) \in Seq(Jobs) /\ Head(queue) # None
    BY <1>4, PoolAssumption DEF Take, Jobs
  <2> QED
    BY <2>1, <1>4 DEF Take
<1>5. ASSUME NEW w \in Workers, Awaited(w) PROVE TypeOK'
  BY <1>5 DEF Awaited
<1>6. ASSUME NEW t \in Settlers, pc[t] # "idle",
             NEW o \in {"value", "error"}, Settle(t, job[t], o),
             UNCHANGED <<poolVars, job, coroVars>>
      PROVE  TypeOK'
  <2>1. job[t] \in Jobs
    BY <1>6
  <2>2. /\ out' \in [Jobs -> Outcomes]
        /\ awaiters' \in [Jobs -> Seq(Coros)]
        /\ batch' \in [Settlers -> Seq(Coros)]
    BY <2>1, <1>6 DEF Settle, Outcomes
  <2>3. /\ pc' \in [Settlers -> {"idle", "wait", "resolve", "call", "resume"}]
        /\ \A u \in Settlers : pc'[u] = "idle" <=> job'[u] = None
    BY <1>6 DEF Settle
  <2>4. UNCHANGED <<uses, queue, later, stopped, job, at, waits, holds, after>>
    BY <1>6 DEF Settle
  <2> QED
    BY <2>2, <2>3, <2>4
<1>7. ASSUME NEW w \in Workers, Pass(w) PROVE TypeOK'
  <2>1. job[w] \in Jobs /\ job[w] # None /\ job[w] \in Settlers
    BY <1>7, PoolAssumption DEF Pass
  <2>2. /\ pc' = [pc EXCEPT ![job[w]] = "call"]
        /\ job' = [job EXCEPT ![job[w]] = job[w]]
    BY <1>7 DEF Pass
  <2>3. \A t \in Settlers : pc'[t] = "idle" <=> job'[t] = None
    BY <2>1, <2>2
  <2>4. /\ pc' \in [Settlers -> {"idle", "wait", "resolve", "call", "resume"}]
        /\ job' \in [Settlers -> Jobs \union {None}]
    BY <2>1, <2>2
  <2> QED
    BY <2>3, <2>4, <1>7 DEF Pass
<1>16. ASSUME NEW t \in Settlers, Leave(t) PROVE TypeOK'
  BY <1>16 DEF Leave
<1>8. ASSUME NEW t \in Settlers, Resume(t) PROVE TypeOK'
  <2>1. Head(batch[t]) \in Coros /\ Tail(batch[t]) \in Seq(Coros)
    BY <1>8 DEF Resume
  <2> QED
    BY <2>1, <1>8 DEF Resume
<1>9. ASSUME NEW t \in Settlers, Finish(t) PROVE TypeOK'
  BY <1>9 DEF Finish
<1>10. ASSUME NEW c \in Coros, NEW j \in Jobs, Await(c, j) PROVE TypeOK'
  <2>1. Append(awaiters[j], c) \in Seq(Coros)
    BY AppendRange
  <2>2. UNCHANGED <<out, queue, later, stopped, pc, job, batch>>
    BY <1>10 DEF Await
  <2>3. holds' \in [Coros -> SUBSET Jobs]
    BY <1>10 DEF Await
  <2>4. CASE IsDone(j)
    BY <2>2, <2>3, <2>4, <1>10 DEF Await
  <2>5. CASE ~IsDone(j)
    <3> DEFINE longer == Append(awaiters[j], c)
    <3>a. awaiters' = [awaiters EXCEPT ![j] = longer] /\ longer \in Seq(Coros)
      BY <2>1, <2>5, <1>10 DEF Await
    <3>b. uses' = [uses EXCEPT ![j] = @ + 1]
      BY <2>5, <1>10 DEF Await
    <3> HIDE DEF longer
    <3>1. uses' \in [Jobs -> Nat] /\ awaiters' \in [Jobs -> Seq(Coros)]
      BY <3>a, <3>b
    <3>2. /\ at' \in [Coros -> Threads \union {"suspended", "ended"}]
          /\ waits' \in [Coros -> Jobs \union {None}]
          /\ after' \in [Coros -> Jobs \union {None}]
      BY <2>5, <1>10 DEF Await
    <3> QED
      BY <3>1, <3>2, <2>2, <2>3
  <2> QED
    BY <2>4, <2>5
<1>11. ASSUME NEW c \in Coros, NEW j \in Jobs, Drop(c, j) PROVE TypeOK'
  BY <1>11 DEF Drop
<1>12. ASSUME NEW c \in Coros, WaitDone(c) PROVE TypeOK'
  BY <1>12 DEF WaitDone
<1>13. ASSUME NEW c \in Coros, End(c) PROVE TypeOK'
  BY <1>13 DEF End
<1>14. CASE UNCHANGED vars
  BY <1>14 DEF vars
<1>15. ASSUME NEW t \in Settlers, Work(t) PROVE TypeOK'
  <2>1. CASE t \in Workers /\ Resolve(t)
    BY <2>1, <1>6 DEF Resolve
  <2>2. CASE Call(t)
    BY <2>2, <1>6 DEF Call
  <2> QED
    BY <1>15, <2>1, <2>2, <1>4, <1>5, <1>7, <1>8, <1>9, <1>16 DEF Work
<1> QED
  BY <1>1, <1>2, <1>3, <1>10, <1>11, <1>12, <1>13, <1>14, <1>15 DEF Next, Go

(* The pool keeps its types. *)
THEOREM PoolTypeCorrect == Spec => []TypeOK
  BY TypeInit, TypeStep, PTL DEF Spec

LEMMA JobStep == TypeOK /\ JobInv /\ QueueInv /\ [Next]_vars => JobInv'
<1> SUFFICES ASSUME TypeOK, JobInv, QueueInv, [Next]_vars PROVE JobInv'
  OBVIOUS
<1> USE DEF promiseVars, poolVars, workerVars, coroVars
<1>0. Workers \subseteq Settlers /\ Callbacks \subseteq Settlers
  BY DEF Settlers
<1>1. ASSUME NEW c \in Coros, NEW j \in Jobs, Dispatch(c, j) PROVE JobInv'
  <2>1. /\ out[j] = "none" /\ UNCHANGED <<pc, job>>
        /\ \A i \in Jobs : i # j => out'[i] = out[i]
    BY <1>1 DEF Dispatch, TypeOK
  <2>2. ASSUME NEW t \in Settlers, pc[t] # "idle" PROVE job[t] # j /\ job[t] \in Jobs
    <3>1. pc[t] \in {"wait", "resolve", "call", "resume"} /\ job[t] \in Jobs
      BY <2>2 DEF TypeOK
    <3>2. out[job[t]] \in {"pending", "value", "error"}
      BY <3>1 DEF JobInv
    <3> QED
      BY <3>1, <3>2, <2>1
  <2>3. \A t \in Settlers : pc[t] # "idle" => out'[job[t]] = out[job[t]]
    BY <2>1, <2>2
  <2>4. \A t \in Settlers :
           /\ pc[t] \in {"wait", "resolve"} => out'[job[t]] = "pending"
           /\ pc[t] = "call" => out'[job[t]] \in {"pending", "value", "error"}
           /\ pc[t] = "call" /\ job[t] \notin Callbacks => out'[job[t]] = "pending"
           /\ pc[t] = "resume" => out'[job[t]] \in {"value", "error"}
    BY <2>3 DEF JobInv
  <2> QED
    BY <2>1, <2>4 DEF JobInv
<1>2. ASSUME NEW w \in Workers, Take(w) PROVE JobInv'
  <2> DEFINE j == Head(queue)
  <2>1. /\ j \in Jobs /\ Queued(j)
        /\ pc' = [pc EXCEPT ![w] = IF j \in Switches THEN "wait" ELSE "call"]
        /\ job' = [job EXCEPT ![w] = j]
        /\ UNCHANGED out
    BY <1>2, TailRange DEF Take, TypeOK, QueueInv, Queued
  <2> HIDE DEF j
  <2>2. out[j] = "pending" /\ \A t \in Settlers : job[t] # j
    BY <2>1 DEF QueueInv, Handled
  <2>3. w \in Settlers /\ w \notin Callbacks
    BY <1>0, PoolAssumption
  <2> QED
    BY <2>1, <2>2, <2>3 DEF JobInv, TypeOK
<1>3. ASSUME NEW w \in Workers, Awaited(w) PROVE JobInv'
  BY <1>3, <1>0 DEF Awaited, JobInv, TypeOK
<1>4. ASSUME NEW t \in Settlers, pc[t] # "idle",
             NEW o \in {"value", "error"}, Settle(t, job[t], o), UNCHANGED job
      PROVE  JobInv'
  <2>1. job[t] \in Jobs /\ job[t] # None
    BY <1>4 DEF TypeOK
  <2>2. /\ out' = [out EXCEPT ![job[t]] = o]
        /\ pc' = [pc EXCEPT ![t] = "resume"]
    BY <1>4 DEF Settle
  <2>3. \A u \in Settlers : u # t /\ pc[u] # "idle" /\ job[u] # job[t] =>
            out'[job[u]] = out[job[u]]
    BY <2>1, <2>2 DEF TypeOK
  <2>4. \A u \in Settlers : u # t /\ job[u] = job[t] => job[u] \in Callbacks
    BY <2>1 DEF JobInv
  <2>5. Callbacks \intersect Switches = {}
    BY PoolAssumption
  <2>6. out'[job[t]] = o
    BY <2>1, <2>2 DEF TypeOK
  <2>7. \A u \in Settlers :
           /\ pc'[u] \in {"wait", "resolve"} => out'[job[u]] = "pending"
           /\ pc'[u] = "call" => out'[job[u]] \in {"pending", "value", "error"}
           /\ pc'[u] = "call" /\ job[u] \notin Callbacks => out'[job[u]] = "pending"
           /\ pc'[u] = "resume" => out'[job[u]] \in {"value", "error"}
    <3> SUFFICES ASSUME NEW u \in Settlers
                 PROVE  /\ pc'[u] \in {"wait", "resolve"} => out'[job[u]] = "pending"
                        /\ pc'[u] = "call" => out'[job[u]] \in {"pending", "value", "error"}
                        /\ pc'[u] = "call" /\ job[u] \notin Callbacks =>
                             out'[job[u]] = "pending"
                        /\ pc'[u] = "resume" => out'[job[u]] \in {"value", "error"}
      OBVIOUS
    <3>1. CASE u = t
      BY <3>1, <2>2, <2>6 DEF TypeOK
    <3>2. CASE u # t /\ job[u] # job[t]
      BY <3>2, <2>2, <2>3 DEF JobInv, TypeOK
    <3>3. CASE u # t /\ job[u] = job[t]
      BY <3>3, <2>2, <2>4, <2>5, <2>6 DEF JobInv, TypeOK
    <3> QED
      BY <3>1, <3>2, <3>3
  <2> QED
    BY <2>2, <2>7, <1>4 DEF JobInv, TypeOK
<1>5. ASSUME NEW w \in Workers, Pass(w) PROVE JobInv'
  <2> DEFINE k == job[w]
  <2>1. /\ k \in Callbacks /\ k # None /\ k \notin Switches
        /\ k \in Settlers /\ k \in Jobs
    BY <1>5, <1>0, PoolAssumption DEF Pass, Jobs
  <2>2. /\ pc' = [pc EXCEPT ![k] = "call"]
        /\ job' = [job EXCEPT ![k] = k]
        /\ pc[w] = "call"
        /\ UNCHANGED out
    BY <1>5 DEF Pass
  <2>3. out[k] \in {"pending", "value", "error"}
    BY <2>2, <1>0 DEF JobInv
  <2> HIDE DEF k
  <2>4. \A t, u \in Settlers :
           job'[t] = job'[u] /\ job'[t] # None /\ job'[t] \notin Callbacks => t = u
    BY <2>1, <2>2 DEF JobInv, TypeOK
  <2> QED
    BY <2>1, <2>2, <2>3, <2>4, <1>0 DEF JobInv, TypeOK
<1>12. ASSUME NEW t \in Settlers, Leave(t) PROVE JobInv'
  BY <1>12 DEF Leave, JobInv, TypeOK
<1>6. ASSUME NEW t \in Settlers, Finish(t) PROVE JobInv'
  BY <1>6 DEF Finish, JobInv, TypeOK
<1>7. ASSUME UNCHANGED <<out, pc, job>> PROVE JobInv'
  BY <1>7 DEF JobInv
<1>8. ASSUME NEW t \in Settlers, Work(t) PROVE JobInv'
  <2>1. CASE t \in Workers /\ Resolve(t)
    BY <2>1, <1>4 DEF Resolve
  <2>2. CASE Call(t)
    BY <2>2, <1>4 DEF Call
  <2>3. CASE Resume(t)
    BY <2>3, <1>7 DEF Resume
  <2> QED
    BY <1>8, <2>1, <2>2, <2>3, <1>2, <1>3, <1>5, <1>6, <1>12 DEF Work
<1>9. ASSUME NEW c \in Coros, Go(c) PROVE JobInv'
  BY <1>9, <1>7 DEF Go, Await, Drop, WaitDone, End
<1>10. CASE Stop \/ \E j \in Jobs : Due(j)
  BY <1>10, <1>7 DEF Stop, Due
<1>11. CASE UNCHANGED vars
  BY <1>11, <1>7 DEF vars
<1> QED
  BY <1>1, <1>8, <1>9, <1>10, <1>11 DEF Next

LEMMA QueueStep == TypeOK /\ JobInv /\ QueueInv /\ [Next]_vars => QueueInv'
<1> SUFFICES ASSUME TypeOK, JobInv, QueueInv, [Next]_vars PROVE QueueInv'
  OBVIOUS
<1> USE DEF promiseVars, poolVars, workerVars, coroVars
<1>0. Workers \subseteq Settlers /\ Callbacks \subseteq Settlers
  BY DEF Settlers
<1>1. ASSUME NEW c \in Coros, NEW j \in Jobs, Dispatch(c, j) PROVE QueueInv'
  <2>1. out[j] = "none" /\ ~Queued(j)
    BY <1>1 DEF Dispatch, QueueInv
  <2>2. \A i \in Jobs : Handled(i)' <=> Handled(i)
    BY <1>1 DEF Dispatch, Handled
  <2>3. ~Handled(j)
    <3> SUFFICES ASSUME NEW t \in Settlers, job[t] = j PROVE FALSE
      BY DEF Handled
    <3>1. j # None
      BY PoolAssumption DEF Jobs
    <3>2. pc[t] \in {"wait", "resolve", "call", "resume"}
      BY <3>1 DEF TypeOK
    <3> QED
      BY <3>2, <2>1 DEF JobInv
  <2>4. \A i \in Jobs : i # j => out'[i] = out[i]
    BY <1>1 DEF Dispatch, TypeOK
  <2>5. CASE stopped
    <3>1. out'[j] = "stopped" /\ UNCHANGED <<queue, later>>
      BY <2>5, <1>1 DEF Dispatch, TypeOK
    <3>2. \A i \in Jobs : Queued(i)' <=> Queued(i)
      BY <3>1 DEF Queued
    <3> QED
      BY <3>1, <3>2, <2>1, <2>2, <2>4 DEF QueueInv
  <2>6. CASE ~stopped
    <3>1. out'[j] = "pending"
      BY <2>6, <1>1 DEF Dispatch, TypeOK
    <3>2. /\ IsInjective(queue') /\ Range(queue') \intersect later' = {}
          /\ \A i \in Jobs : Queued(i)' <=> Queued(i) \/ i = j
      <4>1. CASE j \in Delayed
        <5>1. queue' = queue /\ later' = later \union {j}
          BY <4>1, <2>6, <1>1 DEF Dispatch
        <5> QED
          BY <5>1, <2>1 DEF Queued, QueueInv
      <4>2. CASE j \notin Delayed
        <5>1. queue' = Append(queue, j) /\ later' = later
          BY <4>2, <2>6, <1>1 DEF Dispatch
        <5>2. /\ IsInjective(queue')
              /\ Range(queue') = Range(queue) \union {j}
          BY <5>1, <2>1, AppendRange DEF Queued, QueueInv, TypeOK
        <5> QED
          BY <5>1, <5>2, <2>1 DEF Queued, QueueInv
      <4> QED
        BY <4>1, <4>2
    <3> QED
      BY <3>1, <3>2, <2>2, <2>3, <2>4 DEF QueueInv
  <2> QED
    BY <2>5, <2>6
<1>2. ASSUME NEW j \in Jobs, Due(j) PROVE QueueInv'
  <2>1. j \notin Range(queue)
    BY <1>2 DEF Due, QueueInv
  <2>2. /\ IsInjective(queue')
        /\ Range(queue') = Range(queue) \union {j}
        /\ later' = later \ {j} /\ j \in later
        /\ UNCHANGED <<out, job>>
    BY <1>2, <2>1, AppendRange DEF Due, QueueInv, TypeOK
  <2>3. \A i \in Jobs : (Queued(i)' <=> Queued(i)) /\ (Handled(i)' <=> Handled(i))
    BY <2>2 DEF Queued, Handled
  <2> QED
    BY <2>2, <2>3 DEF QueueInv
<1>3. ASSUME NEW w \in Workers, Take(w) PROVE QueueInv'
  <2> DEFINE j == Head(queue)
  <2>1. /\ j \in Jobs /\ j \in Range(queue)
        /\ IsInjective(queue') /\ Range(queue') = Range(queue) \ {j}
        /\ job' = [job EXCEPT ![w] = j]
        /\ pc[w] = "idle"
        /\ UNCHANGED <<out, later>>
    BY <1>3, TailRange DEF Take, TypeOK, QueueInv
  <2> HIDE DEF j
  <2>2. job[w] = None
    BY <2>1, <1>0 DEF TypeOK
  <2>3. \A i \in Jobs : Handled(i)' <=> Handled(i) \/ i = j
    BY <2>1, <2>2, <1>0, PoolAssumption DEF Handled, TypeOK, Jobs
  <2>4. \A i \in Jobs : Queued(i)' <=> Queued(i) /\ i # j
    BY <2>1 DEF Queued, QueueInv
  <2> QED
    BY <2>1, <2>3, <2>4 DEF QueueInv
<1>4. ASSUME NEW t \in Settlers, pc[t] # "idle",
             NEW o \in {"value", "error"}, Settle(t, job[t], o),
             UNCHANGED <<queue, later, job>>
      PROVE  QueueInv'
  <2>1. job[t] \in Jobs /\ Handled(job[t])
    BY <1>4 DEF TypeOK, Handled
  <2>2. \A i \in Jobs : out'[i] = IF i = job[t] THEN o ELSE out[i]
    BY <2>1, <1>4 DEF Settle, TypeOK
  <2>3. \A i \in Jobs : (Queued(i)' <=> Queued(i)) /\ (Handled(i)' <=> Handled(i))
    BY <1>4 DEF Queued, Handled
  <2> QED
    BY <2>1, <2>2, <2>3, <1>4 DEF QueueInv
<1>5. ASSUME NEW w \in Workers, Pass(w) PROVE QueueInv'
  <2> DEFINE k == job[w]
  <2>1. /\ k \in Callbacks /\ k \in Settlers /\ w \in Settlers /\ w # k
        /\ job[k] = None /\ job' = [job EXCEPT ![k] = k]
        /\ UNCHANGED <<out, queue, later>>
    BY <1>5, <1>0, PoolAssumption DEF Pass
  <2>2. job[w] = k
    OBVIOUS
  <2> HIDE DEF k
  <2>3. \A i \in Jobs : Handled(i)' <=> Handled(i)
    <3> SUFFICES ASSUME NEW i \in Jobs PROVE Handled(i)' <=> Handled(i)
      OBVIOUS
    <3>1. i # None
      BY PoolAssumption DEF Jobs
    <3>2. ASSUME NEW t \in Settlers, job[t] = i PROVE \E u \in Settlers : job'[u] = i
      BY <3>1, <3>2, <2>1 DEF TypeOK
    <3>3. ASSUME NEW t \in Settlers, job'[t] = i PROVE \E u \in Settlers : job[u] = i
      BY <3>3, <2>1, <2>2 DEF TypeOK
    <3> QED
      BY <3>2, <3>3 DEF Handled
  <2>4. \A i \in Jobs : Queued(i)' <=> Queued(i)
    BY <2>1 DEF Queued
  <2> QED
    BY <2>1, <2>3, <2>4 DEF QueueInv
<1>12. ASSUME NEW t \in Settlers, Leave(t) PROVE QueueInv'
  <2>0. PICK k : k = job[t]
    OBVIOUS
  <2>1. /\ k \in Callbacks /\ k \in Settlers /\ k \in Jobs
        /\ IsDone(k) \/ (k # t /\ job[k] = k)
        /\ job' = [job EXCEPT ![t] = None]
        /\ UNCHANGED <<out, queue, later>>
    BY <2>0, <1>12, <1>0, PoolAssumption DEF Leave, Jobs
  <2>2. job[t] = k
    BY <2>0
  <2>3. \A i \in Jobs : Handled(i)' => Handled(i)
    BY <2>1, PoolAssumption DEF Handled, TypeOK, Jobs
  <2>4. \A i \in Jobs : Handled(i) /\ i # k => Handled(i)'
    <3>1. \A u \in Settlers : u # t => job'[u] = job[u]
      BY <2>1 DEF TypeOK
    <3> QED
      BY <3>1, <2>2 DEF Handled
  <2>5. out[k] = "pending" => Handled(k)'
    <3>1. out[k] = "pending" => k # t /\ job[k] = k
      BY <2>1 DEF IsDone
    <3>2. k # t => job'[k] = job[k]
      BY <2>1 DEF TypeOK
    <3> QED
      BY <2>1, <3>1, <3>2 DEF Handled
  <2>6. \A i \in Jobs : Queued(i)' <=> Queued(i)
    BY <2>1 DEF Queued
  <2> QED
    BY <2>1, <2>3, <2>4, <2>5, <2>6 DEF QueueInv
<1>6. ASSUME NEW t \in Settlers, Finish(t) PROVE QueueInv'
  <2>1. /\ pc[t] = "resume" /\ job' = [job EXCEPT ![t] = None]
        /\ UNCHANGED <<out, queue, later>>
    BY <1>6 DEF Finish
  <2>2. out[job[t]] # "pending" /\ job[t] \in Jobs
    <3>1. out[job[t]] \in {"value", "error"}
      BY <2>1 DEF JobInv
    <3>2. job[t] \in Jobs
      BY <2>1 DEF TypeOK
    <3> QED
      BY <3>1, <3>2
  <2>3. \A i \in Jobs : Handled(i)' => Handled(i)
    BY <2>1, PoolAssumption DEF Handled, TypeOK, Jobs
  <2>4. \A i \in Jobs : Handled(i) /\ i # job[t] => Handled(i)'
    BY <2>1 DEF Handled, TypeOK
  <2>5. \A i \in Jobs : Queued(i)' <=> Queued(i)
    BY <2>1 DEF Queued
  <2> QED
    BY <2>1, <2>2, <2>3, <2>4, <2>5 DEF QueueInv
<1>7. ASSUME UNCHANGED <<out, job, queue, later>> PROVE QueueInv'
  BY <1>7 DEF QueueInv, Queued, Handled
<1>8. ASSUME NEW t \in Settlers, Work(t) PROVE QueueInv'
  <2>1. CASE t \in Workers /\ Resolve(t)
    BY <2>1, <1>4 DEF Resolve
  <2>2. CASE Call(t)
    BY <2>2, <1>4 DEF Call
  <2>3. CASE Resume(t) \/ Awaited(t)
    BY <2>3, <1>7 DEF Resume, Awaited
  <2> QED
    BY <1>8, <2>1, <2>2, <2>3, <1>3, <1>5, <1>6, <1>12 DEF Work
<1>9. ASSUME NEW c \in Coros, Go(c) PROVE QueueInv'
  BY <1>9, <1>7 DEF Go, Await, Drop, WaitDone, End
<1>10. CASE Stop
  BY <1>10, <1>7 DEF Stop
<1>11. CASE UNCHANGED vars
  BY <1>11, <1>7 DEF vars
<1> QED
  BY <1>1, <1>2, <1>8, <1>9, <1>10, <1>11 DEF Next

LEMMA QueueInvariant == Spec => [](TypeOK /\ JobInv /\ QueueInv)
<1>1. Init => QueueInv
  BY DEF Init, QueueInv, IsInjective, Range, Queued
<1> QED
  BY <1>1, TypeInit, TypeStep, JobStep, QueueStep, PTL DEF Spec

(* Every dispatch is accepted or refused: a function in the queue or at work
   has a pending promise, a pending promise has its function in one place,
   and a promise rejected by a stopped pool has its function in none. *)
THEOREM AcceptedOrRefusedHolds == Spec => []AcceptedOrRefused
<1>1. ASSUME TypeOK, JobInv, QueueInv PROVE AcceptedOrRefused
  <2> SUFFICES ASSUME NEW j \in Jobs
               PROVE  /\ Queued(j) => out[j] = "pending"
                      /\ out[j] = "pending" => Queued(j) # Handled(j)
                      /\ j \notin Callbacks =>
                           \A t \in Settlers :
                              job[t] = j /\ pc[t] # "resume" => out[j] = "pending"
                      /\ out[j] = "stopped" => ~Queued(j) /\ ~Handled(j)
    BY DEF AcceptedOrRefused
  <2>1. j # None
    BY PoolAssumption DEF Jobs
  <2>2. ASSUME NEW t \in Settlers, job[t] = j
        PROVE  /\ pc[t] # "resume" /\ j \notin Callbacks => out[j] = "pending"
               /\ out[j] \in {"pending", "value", "error"}
    <3>1. pc[t] \in {"wait", "resolve", "call", "resume"}
      BY <2>1, <2>2, <1>1 DEF TypeOK
    <3> QED
      BY <3>1, <2>2, <1>1 DEF JobInv
  <2>3. Handled(j) => out[j] \in {"pending", "value", "error"}
    BY <2>2 DEF Handled
  <2>4. Queued(j) \in BOOLEAN /\ Handled(j) \in BOOLEAN
    BY DEF Queued, Handled
  <2>5. Queued(j) => out[j] = "pending" /\ ~Handled(j)
    BY <1>1 DEF QueueInv
  <2>6. out[j] = "pending" => Queued(j) \/ Handled(j)
    BY <1>1 DEF QueueInv
  <2>7. out[j] = "pending" => Queued(j) # Handled(j)
    BY <2>4, <2>5, <2>6
  <2>8. out[j] = "stopped" => ~Queued(j) /\ ~Handled(j)
    BY <2>3, <2>5
  <2> QED
    BY <2>2, <2>5, <2>7, <2>8
<1> QED
  BY <1>1, QueueInvariant, PTL

------------------------------------------------------------------------------
(* Where a coroutine is when Dispatch() has been awaited. *)

LEMMA SwitchStep == TypeOK /\ JobInv /\ SwitchInv /\ [Next]_vars => SwitchInv'
<1> SUFFICES ASSUME TypeOK, JobInv, SwitchInv, [Next]_vars PROVE SwitchInv'
  OBVIOUS
<1> USE DEF promiseVars, poolVars, workerVars, coroVars
<1>0. /\ Workers \subseteq Settlers /\ Switches \subseteq Jobs
      /\ None \notin Jobs
  BY PoolAssumption DEF Settlers, Jobs
<1>1. ASSUME NEW c \in Coros, NEW j \in Jobs, Dispatch(c, j) PROVE SwitchInv'
  <2>1. /\ out[j] = "none" /\ out'[j] \in {"stopped", "pending"}
        /\ \A i \in Jobs : i # j => out'[i] = out[i]
        /\ holds' = [holds EXCEPT ![c] = @ \union {j}]
        /\ after' = [after EXCEPT ![c] = None]
        /\ UNCHANGED <<uses, pc, job>>
    BY <1>1 DEF Dispatch, TypeOK
  <2>2. uses[j] = 0 /\ \A d \in Coros : j \notin holds[d]
    BY <2>1 DEF SwitchInv
  <2>3. \A d \in Coros : \A i \in holds'[d] : uses'[i] = 0 /\ out'[i] # "none"
    BY <2>1, <2>2 DEF SwitchInv, TypeOK
  <2>4. \A d, e \in Coros : d # e => holds'[d] \intersect holds'[e] = {}
    BY <2>1, <2>2 DEF SwitchInv, TypeOK
  <2>5. \A i \in Jobs : out'[i] = "none" => uses'[i] = 0
    BY <2>1 DEF SwitchInv
  <2>6. \A i \in Switches : out'[i] = "value" => uses'[i] > 0
    BY <2>1, <1>0 DEF SwitchInv
  <2>7. \A t \in Settlers : pc'[t] = "resolve" => uses'[job'[t]] > 0
    BY <2>1 DEF SwitchInv
  <2>8. \A d \in Coros : after'[d] # None => out'[after'[d]] \notin {"none", "pending"}
    BY <2>1 DEF SwitchInv, IsDone, TypeOK
  <2> QED
    BY <2>3, <2>4, <2>5, <2>6, <2>7, <2>8 DEF SwitchInv, IsDone
<1>2. ASSUME NEW w \in Workers, Take(w) PROVE SwitchInv'
  BY <1>2, <1>0 DEF Take, SwitchInv, TypeOK, IsDone
<1>3. ASSUME NEW w \in Workers, Awaited(w) PROVE SwitchInv'
  BY <1>3, <1>0 DEF Awaited, SwitchInv, TypeOK, IsDone
<1>4. ASSUME NEW t \in Settlers, pc[t] \in {"resolve", "call"},
             NEW o \in {"value", "error"}, Settle(t, job[t], o),
             UNCHANGED <<job, coroVars>>
      PROVE  SwitchInv'
  <2>1. /\ job[t] \in Jobs
        /\ out' = [out EXCEPT ![job[t]] = o]
        /\ pc' = [pc EXCEPT ![t] = "resume"]
        /\ UNCHANGED <<uses, job, holds, after>>
    BY <1>4 DEF Settle, TypeOK
  <2>2. job[t] \in Switches => uses[job[t]] > 0
    BY <1>4 DEF JobInv, SwitchInv
  <2>3. \A i \in Jobs : out'[i] = IF i = job[t] THEN o ELSE out[i]
    BY <2>1 DEF TypeOK
  <2>4. \A d \in Coros : holds[d] \subseteq Jobs /\ after[d] \in Jobs \union {None}
    BY DEF TypeOK
  <2>5. \A d \in Coros : \A i \in holds'[d] : uses'[i] = 0 /\ out'[i] # "none"
    BY <2>1, <2>3, <2>4 DEF SwitchInv
  <2>6. \A i \in Jobs : out'[i] = "none" => uses'[i] = 0
    BY <2>1, <2>3 DEF SwitchInv
  <2>7. \A i \in Switches : out'[i] = "value" => uses'[i] > 0
    BY <2>1, <2>2, <2>3, <1>0 DEF SwitchInv
  <2>8. \A u \in Settlers : pc'[u] = "resolve" => uses'[job'[u]] > 0
    BY <2>1 DEF SwitchInv, TypeOK
  <2>9. \A d \in Coros : after'[d] # None => out'[after'[d]] \notin {"none", "pending"}
    BY <2>1, <2>3, <2>4 DEF SwitchInv, IsDone
  <2> QED
    BY <2>1, <2>5, <2>6, <2>7, <2>8, <2>9 DEF SwitchInv, IsDone
<1>5. ASSUME NEW w \in Workers, Pass(w) PROVE SwitchInv'
  <2>1. /\ pc' = [pc EXCEPT ![job[w]] = "call"]
        /\ job' = [job EXCEPT ![job[w]] = job[w]]
        /\ UNCHANGED <<out, uses, holds, after>>
    BY <1>5 DEF Pass
  <2>2. \A u \in Settlers : pc'[u] = "resolve" => pc[u] = "resolve" /\ job'[u] = job[u]
    BY <2>1 DEF TypeOK
  <2> QED
    BY <2>1, <2>2 DEF SwitchInv, IsDone
<1>16. ASSUME NEW t \in Settlers, Leave(t) PROVE SwitchInv'
  BY <1>16 DEF Leave, SwitchInv, TypeOK, IsDone
<1>6. ASSUME NEW t \in Settlers, Resume(t) PROVE SwitchInv'
  <2>1. /\ pc[t] = "resume" /\ Head(batch[t]) \in Coros
        /\ after' = [after EXCEPT ![Head(batch[t])] = job[t]]
        /\ UNCHANGED <<out, uses, holds, pc, job>>
    BY <1>6 DEF Resume, TypeOK
  <2>2. IsDone(job[t])
    BY <2>1 DEF JobInv, IsDone
  <2>3. \A d \in Coros : after'[d] # None => out'[after'[d]] \notin {"none", "pending"}
    BY <2>1, <2>2 DEF SwitchInv, IsDone, TypeOK
  <2> QED
    BY <2>1, <2>3 DEF SwitchInv, IsDone
<1>7. ASSUME NEW t \in Settlers, Finish(t) PROVE SwitchInv'
  BY <1>7 DEF Finish, SwitchInv, TypeOK, IsDone
<1>8. ASSUME NEW c \in Coros, NEW j \in Jobs, Await(c, j) PROVE SwitchInv'
  <2>1. /\ j \in holds[c] /\ holds' = [holds EXCEPT ![c] = @ \ {j}]
        /\ UNCHANGED <<out, pc, job>>
    BY <1>8 DEF Await
  <2>2. \A i \in Jobs : uses'[i] = uses[i] \/ (i = j /\ uses'[i] = uses[i] + 1)
    BY <1>8 DEF Await, TypeOK
  <2>3. \A d \in Coros : after'[d] # None => after'[d] = after[d] \/ IsDone(after'[d])
    BY <1>8 DEF Await, TypeOK
  <2>4. \A d \in Coros : holds'[d] \subseteq holds[d] /\ j \notin holds'[d]
    BY <2>1 DEF SwitchInv, TypeOK
  <2>5. \A d \in Coros : holds[d] \subseteq Jobs
    BY DEF TypeOK
  <2>6. \A d \in Coros : \A i \in holds'[d] : uses'[i] = 0 /\ out'[i] # "none"
    BY <2>1, <2>2, <2>4, <2>5 DEF SwitchInv
  <2>7. \A d, e \in Coros : d # e => holds'[d] \intersect holds'[e] = {}
    BY <2>4 DEF SwitchInv
  <2>8. \A i \in Jobs : out'[i] = "none" => uses'[i] = 0
    BY <2>1, <2>2 DEF SwitchInv
  <2>9. \A i \in Jobs : uses[i] > 0 => uses'[i] > 0
    <3>1. \A i \in Jobs : uses[i] \in Nat
      BY DEF TypeOK
    <3> QED
      BY <2>2, <3>1
  <2>10. \A t \in Settlers : pc[t] = "resolve" => job[t] \in Jobs
    BY <1>0 DEF JobInv
  <2>11. \A i \in Switches : out'[i] = "value" => uses'[i] > 0
    BY <2>1, <2>9, <1>0 DEF SwitchInv
  <2>12. \A t \in Settlers : pc'[t] = "resolve" => uses'[job'[t]] > 0
    BY <2>1, <2>9, <2>10 DEF SwitchInv
  <2>13. \A d \in Coros : after'[d] # None => out'[after'[d]] \notin {"none", "pending"}
    BY <2>1, <2>3 DEF SwitchInv, IsDone
  <2> QED
    BY <2>6, <2>7, <2>8, <2>11, <2>12, <2>13 DEF SwitchInv, IsDone
<1>9. ASSUME NEW c \in Coros, NEW j \in Jobs, Drop(c, j) PROVE SwitchInv'
  BY <1>9 DEF Drop, SwitchInv, TypeOK, IsDone
<1>10. ASSUME NEW c \in Coros, End(c) PROVE SwitchInv'
  BY <1>10 DEF End, SwitchInv, TypeOK, IsDone
<1>11. ASSUME UNCHANGED <<out, uses, pc, job, holds, after>> PROVE SwitchInv'
  BY <1>11 DEF SwitchInv, IsDone
<1>12. ASSUME NEW t \in Settlers, Work(t) PROVE SwitchInv'
  <2>1. CASE t \in Workers /\ Resolve(t)
    BY <2>1, <1>4 DEF Resolve
  <2>2. CASE Call(t)
    BY <2>2, <1>4 DEF Call
  <2> QED
    BY <1>12, <2>1, <2>2, <1>2, <1>3, <1>5, <1>6, <1>7, <1>16 DEF Work
<1>13. ASSUME NEW c \in Coros, Go(c) PROVE SwitchInv'
  <2>1. CASE WaitDone(c)
    BY <2>1, <1>11 DEF WaitDone
  <2> QED
    BY <1>13, <2>1, <1>8, <1>9, <1>10 DEF Go
<1>14. CASE Stop \/ \E j \in Jobs : Due(j)
  BY <1>14, <1>11 DEF Stop, Due
<1>15. CASE UNCHANGED vars
  BY <1>15, <1>11 DEF vars
<1> QED
  BY <1>1, <1>12, <1>13, <1>14, <1>15 DEF Next

(* Coroutine c has just come back from an awaited Dispatch(). *)
Switched(c) == after[c] \in Switches /\ out[after[c]] = "value"

LEMMA OnPoolStep ==
    TypeOK /\ JobInv /\ SwitchInv /\ OnPoolThread /\ [Next]_vars => OnPoolThread'
<1> SUFFICES ASSUME TypeOK, JobInv, SwitchInv, OnPoolThread, [Next]_vars
             PROVE  OnPoolThread'
  OBVIOUS
<1> USE DEF promiseVars, poolVars, workerVars, coroVars
<1>0. /\ Workers \subseteq Settlers /\ Switches \subseteq Jobs
      /\ None \notin Switches /\ Switches \intersect Callbacks = {}
      /\ Workers \intersect Callbacks = {}
      /\ "suspended" \notin Workers /\ "ended" \notin Workers
  BY PoolAssumption DEF Settlers, Jobs
<1> DEFINE Home(c) == /\ at[c] \in Workers
                      /\ job[at[c]] = after[c]
                      /\ \A d \in Coros : at[d] = at[c] => d = c
<1>a. \A c \in Coros : Switched(c) => Home(c)
  BY DEF OnPoolThread, Switched
(* What suffices: whoever has switched after the step is at home then. *)
<1>b. SUFFICES ASSUME NEW c \in Coros, Switched(c)' PROVE Home(c)'
  BY DEF OnPoolThread, Switched
<1> HIDE DEF Home
<1>1. ASSUME NEW d \in Coros, NEW j \in Jobs, Dispatch(d, j) PROVE Home(c)'
  <2>1. /\ out'[j] \in {"stopped", "pending"}
        /\ \A i \in Jobs : i # j => out'[i] = out[i]
        /\ after' = [after EXCEPT ![d] = None]
        /\ UNCHANGED <<job, at>>
    BY <1>1 DEF Dispatch, TypeOK
  <2>2. after'[c] = after[c] /\ Switched(c)
    BY <2>1, <1>0, <1>b DEF Switched, TypeOK
  <2> QED
    BY <2>1, <2>2, <1>a DEF Home
<1>2. ASSUME UNCHANGED <<out, after, at>>, UNCHANGED job PROVE Home(c)'
  BY <1>2, <1>a, <1>b DEF Home, Switched
<1>3. ASSUME NEW w \in Workers, UNCHANGED <<out, after, at>>, at[c] # w,
             \A t \in Workers \ {w} : job'[t] = job[t]
      PROVE  Home(c)'
  BY <1>3, <1>a, <1>b DEF Home, Switched
<1>4. ASSUME NEW w \in Workers, Take(w) PROVE Home(c)'
  <2>1. job[w] = None /\ UNCHANGED <<out, after, at>>
        /\ \A t \in Workers \ {w} : job'[t] = job[t]
    BY <1>4, <1>0 DEF Take, TypeOK
  <2>2. at[c] # w
    BY <2>1, <1>0, <1>a, <1>b DEF Home, Switched
  <2> QED
    BY <2>1, <2>2, <1>3
<1>5. ASSUME NEW t \in Settlers, pc[t] \in {"resolve", "call"}, ~IsDone(job[t]),
             NEW o \in {"value", "error"}, Settle(t, job[t], o),
             UNCHANGED <<job, coroVars>>
      PROVE  Home(c)'
  <2>1. job[t] \in Jobs /\ out[job[t]] = "pending"
    <3>1. job[t] \in Jobs
      BY <1>5 DEF TypeOK
    <3>2. out[job[t]] \in {"pending", "value", "error"}
      BY <1>5 DEF JobInv
    <3> QED
      BY <1>5, <3>1, <3>2 DEF IsDone
  <2>2. after[c] # None => after[c] # job[t]
    BY <2>1 DEF SwitchInv, IsDone
  <2>3. after[c] \in Switches /\ out'[after[c]] = out[after[c]]
    BY <2>1, <2>2, <1>0, <1>5, <1>b DEF Settle, Switched, TypeOK
  <2> QED
    BY <2>3, <1>5, <1>a, <1>b DEF Home, Switched
<1>6. ASSUME NEW w \in Workers, Pass(w) PROVE Home(c)'
  <2>1. job[w] \in Callbacks /\ UNCHANGED <<out, after, at>>
        /\ job' = [job EXCEPT ![job[w]] = job[w]]
    BY <1>6 DEF Pass
  <2>2. \A t \in Workers : job'[t] = job[t]
    BY <2>1, <1>0 DEF TypeOK
  <2> QED
    BY <2>1, <2>2, <1>a, <1>b DEF Home, Switched
<1>16. ASSUME NEW t \in Settlers, Leave(t) PROVE Home(c)'
  <2>1. job[t] \in Callbacks /\ UNCHANGED <<out, after, at>>
        /\ \A u \in Settlers : u # t => job'[u] = job[u]
    BY <1>16 DEF Leave, TypeOK
  <2>2. at[c] # t
    BY <2>1, <1>0, <1>a, <1>b DEF Home, Switched
  <2> QED
    BY <2>1, <2>2, <1>0, <1>a, <1>b DEF Home, Switched
<1>7. ASSUME NEW t \in Settlers, Resume(t) PROVE Home(c)'
  <2> DEFINE e == Head(batch[t])
  <2>1. /\ e \in Coros
        /\ at' = [at EXCEPT ![e] = t]
        /\ after' = [after EXCEPT ![e] = job[t]]
        /\ \A d \in Coros : at[d] # t
        /\ UNCHANGED <<out, job>>
    BY <1>7 DEF Resume, TypeOK, Free
  <2> HIDE DEF e
  <2>2. CASE c = e
    <3>1. job[t] \in Switches
      BY <2>1, <2>2, <1>b DEF Switched, TypeOK
    <3>2. t \in Workers
      BY <3>1, <1>0 DEF JobInv, Settlers
    <3> QED
      BY <3>2, <2>1, <2>2 DEF Home, TypeOK
  <2>3. CASE c # e
    <3>1. Home(c) /\ at'[c] = at[c] /\ after'[c] = after[c]
      BY <2>1, <2>3, <1>a, <1>b DEF Switched, TypeOK
    <3> QED
      BY <3>1, <2>1 DEF Home, TypeOK
  <2> QED
    BY <2>2, <2>3
<1>8. ASSUME NEW t \in Settlers, Finish(t) PROVE Home(c)'
  <2>1. at[c] # t /\ UNCHANGED <<out, after, at>>
        /\ \A u \in Settlers : u # t => job'[u] = job[u]
    BY <1>8 DEF Finish, Free, TypeOK
  <2> QED
    BY <2>1, <1>0, <1>a, <1>b DEF Home, Switched
<1>9. ASSUME NEW d \in Coros, UNCHANGED <<out, job>>,
             \A e \in Coros : e # d => at'[e] = at[e] /\ after'[e] = after[e],
             at'[d] \notin Workers \/ at'[d] = at[d],
             c # d
      PROVE  Home(c)'
  BY <1>9, <1>a, <1>b DEF Home, Switched
<1>10. ASSUME NEW d \in Coros, NEW j \in Jobs, Await(d, j) PROVE Home(c)'
  <2>1. j \in Switches => out[j] # "value"
    BY <1>10 DEF Await, SwitchInv
  <2>2. /\ UNCHANGED <<out, job>>
        /\ \A e \in Coros : e # d => at'[e] = at[e] /\ after'[e] = after[e]
        /\ at'[d] = "suspended" \/ at'[d] = at[d]
        /\ after'[d] \in {j, None}
    BY <1>10 DEF Await, TypeOK
  <2>3. c # d
    BY <2>1, <2>2, <1>0, <1>b DEF Switched
  <2> QED
    BY <2>2, <2>3, <1>0, <1>9
<1>11. ASSUME NEW d \in Coros, End(d) \/ \E j \in Jobs : Drop(d, j) PROVE Home(c)'
  <2>1. /\ UNCHANGED <<out, job>>
        /\ \A e \in Coros : e # d => at'[e] = at[e] /\ after'[e] = after[e]
        /\ at'[d] = "ended" \/ at'[d] = at[d]
        /\ after'[d] = None
    BY <1>11 DEF End, Drop, TypeOK
  <2>2. c # d
    BY <2>1, <1>0, <1>b DEF Switched
  <2> QED
    BY <2>1, <2>2, <1>0, <1>9
<1>12. ASSUME NEW t \in Settlers, Work(t) PROVE Home(c)'
  <2>1. CASE t \in Workers /\ Resolve(t)
    BY <2>1, <1>5 DEF Resolve, JobInv, IsDone
  <2>2. CASE Call(t)
    BY <2>2, <1>5 DEF Call
  <2>3. CASE Awaited(t)
    BY <2>3, <1>2 DEF Awaited
  <2> QED
    BY <1>12, <2>1, <2>2, <2>3, <1>4, <1>6, <1>7, <1>8, <1>16 DEF Work
<1>13. ASSUME NEW d \in Coros, Go(d) PROVE Home(c)'
  <2>1. CASE WaitDone(d)
    BY <2>1, <1>2 DEF WaitDone
  <2> QED
    BY <1>13, <2>1, <1>10, <1>11 DEF Go
<1>14. CASE Stop \/ \E j \in Jobs : Due(j)
  BY <1>14, <1>2 DEF Stop, Due
<1>15. CASE UNCHANGED vars
  BY <1>15, <1>2 DEF vars
<1> QED
  BY <1>1, <1>12, <1>13, <1>14, <1>15 DEF Next

(* Whoever awaited Dispatch() and got no exception is alone on the worker
   that ran its job, however late it came to await: the worker waits. *)
THEOREM OnPoolThreadHolds == Spec => []OnPoolThread
<1>1. Init => SwitchInv /\ OnPoolThread
  BY PoolAssumption DEF Init, SwitchInv, OnPoolThread, Jobs, IsDone
<1> QED
  BY <1>1, QueueInvariant, SwitchStep, OnPoolStep, PTL DEF Spec
=============================================================================
