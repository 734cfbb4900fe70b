-------------------------- MODULE CVMonitorProofs ----------------------------
(***************************************************************************)
(* Proofs about CVPromise used as a monitor, for every number of           *)
(* consumers, producers, enders, rounds and calls of Lock.                 *)
(***************************************************************************)
EXTENDS CVMonitor, AsyncMutexProofs

Outcomes == {"pending", "resolved", "rejected"}

Places ==
    {"start", "entering", "snapped", "unlocking", "awaiting", "leaving", "left",
     "called", "settling", "ended"}

(* The types of the variables of the monitor. *)
MTypeOK ==
    /\ round \in 0 .. MaxRounds
    /\ outcome \in [0 .. MaxRounds -> Outcomes]
    /\ flag \in BOOLEAN
    /\ upc \in [Users -> Places]
    /\ snap \in [Consumers -> 0 .. MaxRounds]
    /\ took \in [Callers -> 0 .. MaxRounds]
    /\ alive \in BOOLEAN

(* The rounds: what a call is settling has left promise_, what has not been
   there yet is pending, and nobody waits for a round to come. *)
RoundsInv ==
    /\ \A c \in Callers : upc[c] = "settling" => took[c] < round
    /\ \A r \in 0 .. MaxRounds : r > round => outcome[r] = "pending"
    /\ \A g \in Consumers : snap[g] <= round

MonitorInv ==
    /\ MTypeOK
    /\ RoundsInv
    /\ RoundsSettled
    /\ NoNotificationLost

(* What the places of a user say about its guard, which it only locks and
   unlocks. *)
PlacesInv ==
    \A g \in Guards :
        /\ after[g] \in {Plain, Idle}
        /\ upc[g] = "entering" => own[g]
        /\ upc[g] \in {"snapped", "leaving"} => own[g] /\ stage[ticket[g]] = "granted"

(* A user is between the co_await of Lock and the call of Unlock. *)
InMonitor(g) == Inside(g) \/ upc[g] \in {"snapped", "leaving"}

(* One user at a time is inside the monitor. *)
MonitorExclusion ==
    \A g, h \in Guards : InMonitor(g) /\ InMonitor(h) => g = h

------------------------------------------------------------------------------

(* The users' roles. *)
LEMMA Roles ==
    /\ Consumers \subseteq Users /\ Producers \subseteq Users /\ Callers \subseteq Users
    /\ Guards \subseteq Users
    /\ Consumers \intersect Callers = {}
    /\ Producers \subseteq Guards /\ Consumers \subseteq Guards
    /\ Callers = Producers \union Enders
BY RolesAssumption DEF Users, Callers

LEMMA MonitorTypeStep == MTypeOK /\ [MNext]_mvars => MTypeOK'
<1> SUFFICES ASSUME MTypeOK, [MNext]_mvars PROVE MTypeOK'
  OBVIOUS
<1> USE RoundsAssumption, Roles DEF MTypeOK
<1>g. \A u, p : Go(u, p) /\ p \in Places => upc' \in [Users -> Places]
  BY DEF Go
<1>1. ASSUME NEW g \in Guards, Enter(g) \/ WaitUnlock(g) \/ WaitReleased(g) \/ Exit(g)
      PROVE  MTypeOK'
  <2>1. upc' \in [Users -> Places]
    BY <1>1, <1>g DEF Enter, WaitUnlock, WaitReleased, Exit, Places
  <2> QED
    BY <1>1, <2>1 DEF Enter, WaitUnlock, WaitReleased, Exit
<1>2. ASSUME NEW g \in Guards, Check(g) PROVE MTypeOK'
  <2>1. upc' \in [Users -> Places]
    BY <1>2, <1>g DEF Check, Places
  <2>2. snap' \in [Consumers -> 0 .. MaxRounds]
    BY <1>2 DEF Check
  <2> QED
    BY <1>2, <2>1, <2>2 DEF Check
<1>3. ASSUME NEW g \in Guards, Wake(g) PROVE MTypeOK'
  <2>1. upc' \in [Users -> Places]
    BY <1>3, <1>g DEF Wake, Places
  <2> QED
    BY <1>3, <2>1 DEF Wake
<1>4. ASSUME NEW g \in Guards, Produce(g) PROVE MTypeOK'
  <2>1. upc' \in [Users -> Places]
    BY <1>4, <1>g DEF Produce, Places
  <2> QED
    BY <1>4, <2>1 DEF Produce
<1>5. ASSUME NEW g \in Guards, Left(g) PROVE MTypeOK'
  <2>1. upc' \in [Users -> Places]
    BY <1>5, <1>g DEF Left, Places
  <2> QED
    BY <1>5, <2>1 DEF Left
<1>6. ASSUME NEW c \in Callers, TakeOut(c) PROVE MTypeOK'
  <2>1. upc' \in [Users -> Places]
    BY <1>6, <1>g DEF TakeOut, Places
  <2>2. round' \in 0 .. MaxRounds /\ took' \in [Callers -> 0 .. MaxRounds]
    BY <1>6 DEF TakeOut, Swap
  <2> QED
    BY <1>6, <2>1, <2>2 DEF TakeOut
<1>7. ASSUME NEW c \in Callers, Notify(c) \/ Reject(c) PROVE MTypeOK'
  <2>1. upc' \in [Users -> Places]
    BY <1>7, <1>g DEF Notify, Reject, Places
  <2>2. outcome' \in [0 .. MaxRounds -> Outcomes]
    BY <1>7 DEF Notify, Reject, Settle, Outcomes
  <2> QED
    BY <1>7, <2>1, <2>2 DEF Notify, Reject
<1>8. CASE DestroyCV
  BY <1>8 DEF DestroyCV, Settle, Outcomes
<1>9. CASE UNCHANGED mvars
  BY <1>9 DEF mvars, cvVars
<1>10. ASSUME NEW n \in Locks, MutexStep(n) PROVE MTypeOK'
  BY <1>10 DEF MutexStep, cvVars
<1>11. CASE Over
  BY <1>9, <1>11 DEF Over
<1> QED
  BY <1>1, <1>2, <1>3, <1>4, <1>5, <1>6, <1>7, <1>8, <1>9, <1>10, <1>11
     DEF MNext, UserStep, CallStep

(* A user of the lock leaves the rounds alone, and neither begins nor ends a
   call of Notify or Reject: after it, it is nowhere near "settling". *)
LEMMA UserStepFacts ==
    ASSUME MTypeOK, NEW g \in Guards, UserStep(g)
    PROVE  /\ UNCHANGED <<round, outcome, took, alive>>
           /\ upc[g] # "settling" /\ upc'[g] # "settling"
           /\ \A u \in Users \ {g} : upc'[u] = upc[u]
           /\ \A h \in Consumers : snap'[h] = snap[h] \/ snap'[h] = round
<1> USE Roles DEF MTypeOK, Go
<1>1. CASE Check(g)
  BY <1>1 DEF Check, Inside
<1>2. CASE Enter(g) \/ WaitUnlock(g) \/ WaitReleased(g) \/ Exit(g)
  BY <1>2 DEF Enter, WaitUnlock, WaitReleased, Exit
<1>3. CASE Wake(g)
  BY <1>3 DEF Wake
<1>4. CASE Produce(g)
  BY <1>4 DEF Produce, Inside
<1>5. CASE Left(g)
  BY <1>5 DEF Left
<1> QED
  BY <1>1, <1>2, <1>3, <1>4, <1>5 DEF UserStep

(* The call of Notify or Reject settles the round it took out, once. *)
LEMMA CallFacts ==
    ASSUME MTypeOK, NEW c \in Callers, Notify(c) \/ Reject(c)
    PROVE  /\ UNCHANGED <<round, flag, snap, took, alive>>
           /\ upc[c] = "settling" /\ upc'[c] = "ended"
           /\ \A u \in Users \ {c} : upc'[u] = upc[u]
           /\ outcome'[took[c]] # "pending"
           /\ \A r \in 0 .. MaxRounds : r # took[c] => outcome'[r] = outcome[r]
           /\ \A r \in 0 .. MaxRounds : outcome'[r] = "pending" => outcome[r] = "pending"
BY Roles DEF MTypeOK, Go, Notify, Reject, Settle

LEMMA TakeOutFacts ==
    ASSUME MTypeOK, NEW c \in Callers, TakeOut(c)
    PROVE  /\ UNCHANGED <<outcome, flag, snap, alive>> /\ alive
           /\ round \in Nat /\ round < MaxRounds /\ round' = round + 1
           /\ upc[c] = "called" /\ upc'[c] = "settling" /\ took'[c] = round
           /\ \A u \in Users \ {c} : upc'[u] = upc[u]
           /\ \A d \in Callers \ {c} : took'[d] = took[d]
BY Roles, RoundsAssumption DEF MTypeOK, Go, TakeOut, Swap

LEMMA DestroyFacts ==
    ASSUME MTypeOK, DestroyCV
    PROVE  /\ UNCHANGED <<round, flag, upc, snap, took>> /\ ~alive'
           /\ \A c \in Callers : upc[c] = "ended"
           /\ \A r \in 0 .. MaxRounds : r # round => outcome'[r] = outcome[r]
           /\ \A r \in 0 .. MaxRounds : outcome'[r] = "pending" => outcome[r] = "pending"
BY DEF MTypeOK, DestroyCV, Settle

LEMMA RoundsStep ==
    ASSUME MTypeOK, RoundsInv, RoundsSettled, [MNext]_mvars
    PROVE  RoundsInv' /\ RoundsSettled'
<1> USE RoundsAssumption
<1>0. /\ round \in 0 .. MaxRounds
      /\ \A c \in Callers : took[c] \in 0 .. MaxRounds
      /\ \A g \in Consumers : snap[g] \in 0 .. MaxRounds
  BY DEF MTypeOK
<1>1. ASSUME NEW g \in Guards, UserStep(g) PROVE RoundsInv' /\ RoundsSettled'
  <2>1. \A c \in Callers : /\ upc[c] = "settling" <=> upc'[c] = "settling"
                           /\ took'[c] = took[c]
    BY <1>1, UserStepFacts, Roles
  <2>2. /\ UNCHANGED <<round, outcome, alive>>
        /\ \A h \in Consumers : snap'[h] = snap[h] \/ snap'[h] = round
    BY <1>1, UserStepFacts
  <2>3. RoundsInv'
    BY <1>0, <2>1, <2>2 DEF RoundsInv
  <2> QED
    BY <2>1, <2>2, <2>3 DEF RoundsSettled
<1>2. ASSUME NEW c \in Callers, TakeOut(c) PROVE RoundsInv' /\ RoundsSettled'
  <2>1. /\ UNCHANGED <<outcome, snap>>
        /\ round \in Nat /\ round < MaxRounds /\ round' = round + 1
        /\ upc[c] = "called" /\ upc'[c] = "settling" /\ took'[c] = round
        /\ \A d \in Callers \ {c} : upc'[d] = upc[d] /\ took'[d] = took[d]
    BY <1>2, TakeOutFacts, Roles
  <2>2. RoundsInv'
    BY <1>0, <2>1 DEF RoundsInv
  <2>3. outcome'[round'] = "pending"
    BY <2>1 DEF RoundsInv
  <2>4. ASSUME NEW r \in 0 .. round' - 1, outcome'[r] = "pending"
        PROVE  /\ \E d \in Callers : upc'[d] = "settling" /\ took'[d] = r
               /\ \A d, e \in Callers : /\ upc'[d] = "settling" /\ took'[d] = r
                                        /\ upc'[e] = "settling" /\ took'[e] = r
                                        => d = e
    <3>1. CASE r = round
      BY <1>0, <2>1, <3>1 DEF RoundsInv
    <3>2. CASE r # round
      <4>1. r \in 0 .. round - 1 /\ outcome[r] = "pending"
        BY <2>1, <2>4, <3>2
      <4>2. PICK d \in Callers : upc[d] = "settling" /\ took[d] = r
        BY <4>1 DEF RoundsSettled
      <4>3. d # c
        BY <2>1, <4>2
      <4>4. \A e \in Callers : upc'[e] = "settling" /\ took'[e] = r =>
               upc[e] = "settling" /\ took[e] = r
        BY <2>1, <3>2
      <4> QED
        BY <2>1, <4>1, <4>2, <4>3, <4>4 DEF RoundsSettled
    <3> QED
      BY <3>1, <3>2
  <2> QED
    BY <2>2, <2>3, <2>4 DEF RoundsSettled
<1>3. ASSUME NEW c \in Callers, Notify(c) \/ Reject(c) PROVE RoundsInv' /\ RoundsSettled'
  <2>1. /\ UNCHANGED <<round, snap, took, alive>>
        /\ upc[c] = "settling" /\ upc'[c] = "ended"
        /\ \A d \in Callers \ {c} : upc'[d] = upc[d]
        /\ outcome'[took[c]] # "pending"
        /\ \A r \in 0 .. MaxRounds : r # took[c] => outcome'[r] = outcome[r]
        /\ \A r \in 0 .. MaxRounds : outcome'[r] = "pending" => outcome[r] = "pending"
    BY <1>3, CallFacts, Roles
  <2>2. took[c] < round /\ took[c] \in 0 .. MaxRounds
    BY <1>0, <2>1 DEF RoundsInv
  <2>3. RoundsInv'
    BY <1>0, <2>1, <2>2 DEF RoundsInv
  <2>4. alive' => outcome'[round'] = "pending"
    BY <1>0, <2>1, <2>2 DEF RoundsSettled
  <2>5. ASSUME NEW r \in 0 .. round' - 1, outcome'[r] = "pending"
        PROVE  /\ \E d \in Callers : upc'[d] = "settling" /\ took'[d] = r
               /\ \A d, e \in Callers : /\ upc'[d] = "settling" /\ took'[d] = r
                                        /\ upc'[e] = "settling" /\ took'[e] = r
                                        => d = e
    <3>1. r \in 0 .. MaxRounds /\ r # took[c] /\ r \in 0 .. round - 1
      BY <1>0, <2>1, <2>5
    <3>2. outcome[r] = "pending"
      BY <2>1, <2>5, <3>1
    <3>3. PICK d \in Callers : upc[d] = "settling" /\ took[d] = r
      BY <3>1, <3>2 DEF RoundsSettled
    <3>4. d # c
      BY <3>1, <3>3
    <3>5. \A e \in Callers : upc'[e] = "settling" /\ took'[e] = r =>
             upc[e] = "settling" /\ took[e] = r
      BY <2>1
    <3> QED
      BY <2>1, <3>1, <3>2, <3>3, <3>4, <3>5 DEF RoundsSettled
  <2> QED
    BY <2>3, <2>4, <2>5 DEF RoundsSettled
<1>4. CASE DestroyCV
  <2>1. /\ UNCHANGED <<round, upc, snap, took>> /\ ~alive'
        /\ \A r \in 0 .. MaxRounds : r # round => outcome'[r] = outcome[r]
    BY <1>4, DestroyFacts
  <2>2. RoundsInv'
    BY <1>0, <2>1 DEF RoundsInv
  <2>3. \A r \in 0 .. round - 1 : outcome'[r] = outcome[r]
    BY <1>0, <2>1
  <2> QED
    BY <2>1, <2>2, <2>3 DEF RoundsSettled
<1>5. CASE UNCHANGED mvars
  BY <1>5 DEF mvars, cvVars, RoundsInv, RoundsSettled
<1>6. ASSUME NEW n \in Locks, MutexStep(n) PROVE RoundsInv' /\ RoundsSettled'
  BY <1>6 DEF MutexStep, cvVars, RoundsInv, RoundsSettled
<1>7. CASE Over
  BY <1>5, <1>7 DEF Over
<1> QED
  BY <1>1, <1>2, <1>3, <1>4, <1>5, <1>6, <1>7 DEF MNext, CallStep
(* A producer that has set the flag and has yet to notify still has to do so
   after a step of a user of the lock. *)
LEMMA ProducerGoesOn ==
    ASSUME MTypeOK, NEW g \in Guards, UserStep(g),
           NEW p \in Producers, upc[p] \in {"leaving", "left", "called"}
    PROVE  upc'[p] \in {"leaving", "left", "called"}
<1>0. p \in Users /\ g \in Users
  BY Roles
<1>1. CASE p # g
  BY <1>0, <1>1, UserStepFacts
<1>2. CASE p = g
  BY <1>0, <1>2 DEF MTypeOK, UserStep, Go, Enter, Check, WaitUnlock, WaitReleased,
     Wake, Produce, Exit, Left, Inside
<1> QED
  BY <1>1, <1>2

(* Who begins to wait has seen the flag unset, and whoever sets it becomes a
   producer that has yet to notify. *)
LEMMA WaitersStep ==
    ASSUME MTypeOK, NEW g \in Guards, UserStep(g), NEW h \in Consumers,
           upc'[h] \in {"snapped", "unlocking", "awaiting"}, flag'
    PROVE  \/ \E p \in Producers : upc'[p] = "leaving"
           \/ /\ upc[h] \in {"snapped", "unlocking", "awaiting"} /\ flag
              /\ snap'[h] = snap[h]
<1> USE Roles DEF MTypeOK, Go
<1>1. CASE Check(g)
  <2>1. UNCHANGED flag
    BY <1>1 DEF Check
  <2>2. UNCHANGED snap /\ upc' = [upc EXCEPT ![g] = "leaving"]
    BY <1>1, <2>1 DEF Check
  <2> QED
    BY <2>1, <2>2
<1>2. CASE Enter(g) \/ WaitUnlock(g) \/ WaitReleased(g) \/ Exit(g)
  BY <1>2 DEF Enter, WaitUnlock, WaitReleased, Exit
<1>3. CASE Wake(g)
  BY <1>3 DEF Wake
<1>4. CASE Produce(g)
  BY <1>4 DEF Produce
<1>5. CASE Left(g)
  BY <1>5 DEF Left
<1> QED
  BY <1>1, <1>2, <1>3, <1>4, <1>5 DEF UserStep

LEMMA NotificationStep ==
    ASSUME MTypeOK, RoundsInv, RoundsSettled, NoNotificationLost, [MNext]_mvars
    PROVE  NoNotificationLost'
<1> USE RoundsAssumption
<1> DEFINE Waits(h) == upc[h] \in {"snapped", "unlocking", "awaiting"}
           Due(c) == c \in Producers /\ upc[c] \in {"leaving", "left", "called"}
           Comes(c, r) == upc[c] = "settling" /\ took[c] = r
<1> SUFFICES ASSUME NEW h \in Consumers, Waits(h)', flag', outcome'[snap'[h]] = "pending"
             PROVE  \E c \in Producers \union Enders :
                       Due(c)' \/ (upc'[c] = "settling" /\ took'[c] = snap'[h])
  BY DEF NoNotificationLost
<1>0. round \in 0 .. MaxRounds /\ snap[h] \in 0 .. MaxRounds /\ snap[h] <= round
  BY DEF MTypeOK, RoundsInv
<1>r. Callers = Producers \union Enders
  BY Roles
<1>1. ASSUME NEW g \in Guards, UserStep(g)
      PROVE  \E c \in Callers : Due(c)' \/ (upc'[c] = "settling" /\ took'[c] = snap'[h])
  <2>1. CASE \E p \in Producers : upc'[p] = "leaving"
    BY <1>r, <2>1
  <2>2. CASE Waits(h) /\ flag /\ snap'[h] = snap[h]
    <3>1. UNCHANGED <<outcome, took>>
      BY <1>1, UserStepFacts
    <3>2. PICK c \in Callers : Due(c) \/ Comes(c, snap[h])
      BY <1>r, <2>2, <3>1 DEF NoNotificationLost
    <3>3. CASE Due(c)
      BY <1>1, <3>3, ProducerGoesOn
    <3>4. CASE Comes(c, snap[h])
      <4>1. upc'[c] = "settling"
        BY <1>1, <3>4, UserStepFacts, Roles
      <4> QED
        BY <2>2, <3>1, <3>4, <4>1
    <3> QED
      BY <3>2, <3>3, <3>4
  <2> QED
    BY <1>1, <2>1, <2>2, WaitersStep
<1>2. ASSUME NEW c \in Callers, TakeOut(c)
      PROVE  \E d \in Callers : Due(d)' \/ (upc'[d] = "settling" /\ took'[d] = snap'[h])
  <2>1. /\ UNCHANGED <<outcome, flag, snap>>
        /\ upc[c] = "called" /\ upc'[c] = "settling" /\ took'[c] = round
        /\ \A u \in Users \ {c} : upc'[u] = upc[u]
        /\ \A d \in Callers \ {c} : took'[d] = took[d]
    BY <1>2, TakeOutFacts
  <2>2. CASE snap[h] = round
    BY <2>1, <2>2
  <2>3. CASE snap[h] # round
    <3>1. snap[h] \in 0 .. round - 1 /\ outcome[snap[h]] = "pending"
      BY <1>0, <2>1, <2>3
    <3>2. PICK d \in Callers : upc[d] = "settling" /\ took[d] = snap[h]
      BY <3>1 DEF RoundsSettled
    <3>3. d # c /\ d \in Users
      BY <2>1, <3>2, Roles
    <3> QED
      BY <2>1, <3>2, <3>3
  <2> QED
    BY <2>2, <2>3
<1>3. ASSUME NEW c \in Callers, Notify(c) \/ Reject(c)
      PROVE  \E d \in Callers : Due(d)' \/ (upc'[d] = "settling" /\ took'[d] = snap'[h])
  <2>1. /\ UNCHANGED <<flag, snap, took>>
        /\ upc[c] = "settling" /\ upc'[c] = "ended"
        /\ \A u \in Users \ {c} : upc'[u] = upc[u]
        /\ outcome'[took[c]] # "pending"
        /\ \A r \in 0 .. MaxRounds : outcome'[r] = "pending" => outcome[r] = "pending"
    BY <1>3, CallFacts
  <2>2. Waits(h)
    BY <2>1, Roles
  <2>3. outcome[snap[h]] = "pending" /\ took[c] # snap[h]
    BY <1>0, <2>1
  <2>4. PICK d \in Callers : Due(d) \/ Comes(d, snap[h])
    BY <1>r, <2>1, <2>2, <2>3 DEF NoNotificationLost
  <2>5. d # c /\ d \in Users
    BY <2>1, <2>3, <2>4, Roles
  <2> QED
    BY <2>1, <2>4, <2>5
<1>4. ASSUME DestroyCV
      PROVE  \E d \in Callers : Due(d)' \/ (upc'[d] = "settling" /\ took'[d] = snap'[h])
  <2>1. /\ UNCHANGED <<flag, upc, snap, took>>
        /\ outcome[snap[h]] = "pending"
    BY <1>0, <1>4, DestroyFacts
  <2> QED
    BY <1>r, <2>1 DEF NoNotificationLost
<1>5. ASSUME UNCHANGED cvVars
      PROVE  \E d \in Callers : Due(d)' \/ (upc'[d] = "settling" /\ took'[d] = snap'[h])
  BY <1>r, <1>5 DEF cvVars, NoNotificationLost
<1>6. Over \/ UNCHANGED mvars \/ (\E n \in Locks : MutexStep(n)) => UNCHANGED cvVars
  BY DEF Over, mvars, MutexStep
<1> QED
  BY <1>r, <1>1, <1>2, <1>3, <1>4, <1>5, <1>6 DEF MNext, CallStep
LEMMA MonitorInit == MInit => MonitorInv
<1> SUFFICES ASSUME MInit PROVE MonitorInv
  OBVIOUS
<1> USE RoundsAssumption, Roles
<1>1. MTypeOK
  <2>1. upc \in [Users -> Places]
    BY DEF MInit, Places
  <2>2. 0 \in 0 .. MaxRounds
    OBVIOUS
  <2> QED
    BY <2>1, <2>2 DEF MInit, MTypeOK, Outcomes
<1>2. \A u \in Users : upc[u] \in {"start", "called"}
  BY DEF MInit
<1>3. RoundsInv /\ RoundsSettled
  <2>1. round = 0 /\ \A r \in 0 .. MaxRounds : outcome[r] = "pending"
    BY DEF MInit
  <2>2. \A c \in Callers : upc[c] # "settling"
    BY <1>2
  <2>3. \A g \in Consumers : snap[g] = 0
    BY DEF MInit
  <2>4. RoundsInv
    BY <2>1, <2>2, <2>3 DEF RoundsInv
  <2>5. 0 \in 0 .. MaxRounds /\ 0 .. round - 1 = {}
    BY <2>1
  <2> QED
    BY <2>1, <2>4, <2>5 DEF RoundsSettled
<1>4. NoNotificationLost
  BY DEF MInit, NoNotificationLost
<1> QED
  BY <1>1, <1>3, <1>4 DEF MonitorInv

(* The invariant of the monitor is inductive: the rounds explain why a
   notification reaches whoever has copied the promise. *)
THEOREM MonitorInvariant == MSpec => []MonitorInv
<1>1. MonitorInv /\ [MNext]_mvars => MonitorInv'
  BY MonitorTypeStep, RoundsStep, NotificationStep DEF MonitorInv
<1> QED
  BY <1>1, MonitorInit, PTL DEF MSpec

(* assert(old_promise.Done()) of Notify and Reject, and what they rest on:
   every round that left promise_ is settled or in the hands of one call, and
   the one in promise_ is pending until ~CVPromise. *)
THEOREM RoundsSettledTheorem == MSpec => []RoundsSettled
<1>1. MonitorInv => RoundsSettled
  BY DEF MonitorInv
<1> QED
  BY <1>1, MonitorInvariant, PTL

(* Wait(lock) copies promise_ before it unlocks, so that no Notify is lost in
   between, however many consumers, producers and calls of Reject there are. *)
THEOREM NoNotificationLostTheorem == MSpec => []NoNotificationLost
<1>1. MonitorInv => NoNotificationLost
  BY DEF MonitorInv
<1> QED
  BY <1>1, MonitorInvariant, PTL

------------------------------------------------------------------------------
(* The monitor and its mutex. *)

(* Every step of the monitor is a step of the mutex or leaves it alone: the
   users of the condition variable keep the rules of LockGuard, and all that
   is proved of AsyncMutex holds inside the monitor. *)
THEOREM MonitorUsesMutex == MSpec => Spec
<1>1. MInit => Init
  BY DEF MInit
<1>2. [MNext]_mvars => [Next]_vars
  <2> SUFFICES ASSUME [MNext]_mvars PROVE Next \/ UNCHANGED vars
    OBVIOUS
  <2>1. ASSUME NEW g \in Guards, UserStep(g)
        PROVE  Lock(g) \/ Unlock(g) \/ Release(g) \/ UNCHANGED vars
    BY <2>1 DEF UserStep, Enter, Check, WaitUnlock, WaitReleased, Wake, Produce,
       Exit, Left
  <2>2. ASSUME NEW c \in Callers, CallStep(c) PROVE UNCHANGED vars
    BY <2>2 DEF CallStep, TakeOut, Notify, Reject
  <2>3. DestroyCV \/ Over \/ UNCHANGED mvars => UNCHANGED vars
    BY DEF DestroyCV, Over, mvars
  <2>4. (\E n \in Locks : MutexStep(n)) => \E n \in Locks : LockStep(n)
    BY DEF MutexStep
  <2> QED
    BY <2>1, <2>2, <2>3, <2>4 DEF MNext, Next, GuardStep
<1> QED
  BY <1>1, <1>2, PTL DEF MSpec, Spec
(* What the operations of the mutex do to the guards' calls of Lock. *)
LEMMA LockFacts ==
    ASSUME TypeOK, ChainInv, NEW g \in Guards, Lock(g)
    PROVE  /\ UNCHANGED after
           /\ own'[g] /\ \A h \in Guards \ {g} : own'[h] = own[h] /\ ticket'[h] = ticket[h]
           /\ \A n \in Locks : stage[n] = "granted" => stage'[n] = "granted"
<1>1. tail + 1 \in Locks /\ stage[tail + 1] = "new"
  BY LocksAssumption DEF TypeOK, ChainInv, Lock, Locks
<1> QED
  BY <1>1 DEF TypeOK, Lock

LEMMA UnlockFacts ==
    ASSUME TypeOK, GuardInv, NEW g \in Guards, Unlock(g)
    PROVE  /\ \A h \in Guards : after[h] \in {Plain, Idle} => after'[h] \in {Plain, Idle}
           /\ \A h \in Guards \ {g} : own'[h] = own[h] /\ ticket'[h] = ticket[h]
           /\ \A h \in Guards \ {g} :
                 own[h] /\ stage[ticket[h]] = "granted" => stage'[ticket[h]] = "granted"
<1>1. own[g]
  BY DEF Unlock, MayGiveUp
<1>2. ASSUME NEW h \in Guards \ {g}, own[h]
      PROVE  ticket[h] # ticket[g] /\ ticket[h] \in Locks /\ ticket[g] \in Locks
  BY <1>1, <1>2 DEF GuardInv
<1>3. ASSUME NEW h \in Guards \ {g}, own[h], stage[ticket[h]] = "granted"
      PROVE  stage'[ticket[h]] = "granted"
  BY <1>2, <1>3 DEF Unlock, UnLock, TypeOK
<1> QED
  BY <1>3 DEF Unlock, UnLock, TypeOK

LEMMA ReleaseFacts ==
    ASSUME TypeOK, NEW g \in Guards, Release(g), after[g] \in {Plain, Idle}
    PROVE  /\ \A h \in Guards : after[h] \in {Plain, Idle} => after'[h] \in {Plain, Idle}
           /\ UNCHANGED <<own, ticket, stage>>
BY GuardsAssumption DEF Release, TypeOK

LEMMA LockStepFacts ==
    ASSUME TypeOK, NEW n \in Locks, LockStep(n)
    PROVE  /\ UNCHANGED <<after, own, ticket>>
           /\ \A m \in Locks : stage[m] = "granted" => stage'[m] = "granted"
BY DEF LockStep, Acquire, Grant, TypeOK, guardVars

LEMMA PlacesStep ==
    ASSUME MTypeOK, TypeOK, ChainInv, GuardInv, PlacesInv, [MNext]_mvars
    PROVE  PlacesInv'
<1> USE Roles
<1> SUFFICES ASSUME NEW h \in Guards
             PROVE  /\ after'[h] \in {Plain, Idle}
                    /\ upc'[h] = "entering" => own'[h]
                    /\ upc'[h] \in {"snapped", "leaving"} =>
                          own'[h] /\ stage'[ticket'[h]] = "granted"
  BY DEF PlacesInv
<1>0. /\ after[h] \in {Plain, Idle}
      /\ upc[h] = "entering" => own[h]
      /\ upc[h] \in {"snapped", "leaving"} => own[h] /\ stage[ticket[h]] = "granted"
      /\ own[h] => ticket[h] \in Locks
  BY DEF PlacesInv, GuardInv
<1>a. ASSUME UNCHANGED <<vars, upc>>
      PROVE  /\ after'[h] \in {Plain, Idle}
             /\ upc'[h] = "entering" => own'[h]
             /\ upc'[h] \in {"snapped", "leaving"} =>
                   own'[h] /\ stage'[ticket'[h]] = "granted"
  BY <1>0, <1>a DEF vars, guardVars, mutexVars
<1>1. ASSUME NEW g \in Guards, UserStep(g)
      PROVE  /\ after'[h] \in {Plain, Idle}
             /\ upc'[h] = "entering" => own'[h]
             /\ upc'[h] \in {"snapped", "leaving"} =>
                   own'[h] /\ stage'[ticket'[h]] = "granted"
  <2>0. h # g => upc'[h] = upc[h]
    BY <1>1, UserStepFacts
  <2>1. CASE Enter(g) \/ (Lock(g) /\ Go(g, "entering"))
    <3>1. Lock(g)
      BY <2>1 DEF Enter
    <3>2. upc'[g] = "entering"
      BY <2>1 DEF Enter, Go, MTypeOK
    <3> QED
      BY <1>0, <2>0, <3>1, <3>2, LockFacts
  <2>2. CASE Check(g) \/ Produce(g)
    <3>1. UNCHANGED <<after, own, ticket, stage>> /\ Inside(g)
      BY <2>2 DEF Check, Produce, vars, guardVars, mutexVars
    <3>2. own[g] /\ stage[ticket[g]] = "granted"
      BY <3>1 DEF Inside, PlacesInv
    <3> QED
      BY <1>0, <2>0, <3>1, <3>2
  <2>3. CASE WaitUnlock(g) \/ Exit(g)
    <3>1. Unlock(g) /\ upc'[g] \in {"unlocking", "left"}
      BY <2>3 DEF WaitUnlock, Exit, Go, MTypeOK
    <3>2. CASE h = g
      BY <1>0, <3>1, <3>2, UnlockFacts
    <3>3. CASE h # g
      BY <1>0, <2>0, <3>1, <3>3, UnlockFacts
    <3> QED
      BY <3>2, <3>3
  <2>4. CASE WaitReleased(g) \/ Left(g)
    <3>1. Release(g) /\ upc'[g] \in {"awaiting", "called", "ended"}
      BY <2>4 DEF WaitReleased, Left, Go, MTypeOK
    <3>2. after[g] \in {Plain, Idle}
      BY DEF PlacesInv
    <3> QED
      BY <1>0, <2>0, <3>1, <3>2, ReleaseFacts
  <2>5. CASE Wake(g) /\ UNCHANGED vars /\ Go(g, "ended")
    <3>1. upc'[g] = "ended"
      BY <2>5 DEF Go, MTypeOK
    <3> QED
      BY <1>0, <2>0, <2>5, <3>1 DEF vars, guardVars, mutexVars
  <2> QED
    BY <1>1, <2>1, <2>2, <2>3, <2>4, <2>5 DEF UserStep, Wake
<1>2. ASSUME NEW c \in Callers, CallStep(c)
      PROVE  /\ after'[h] \in {Plain, Idle}
             /\ upc'[h] = "entering" => own'[h]
             /\ upc'[h] \in {"snapped", "leaving"} =>
                   own'[h] /\ stage'[ticket'[h]] = "granted"
  <2>1. UNCHANGED <<after, own, ticket, stage>>
    BY <1>2 DEF CallStep, TakeOut, Notify, Reject, vars, guardVars, mutexVars
  <2>2. upc'[h] = upc[h] \/ upc'[h] \in {"settling", "ended"}
    BY <1>2, TakeOutFacts, CallFacts DEF CallStep
  <2> QED
    BY <1>0, <2>1, <2>2
<1>3. ASSUME NEW n \in Locks, MutexStep(n)
      PROVE  /\ after'[h] \in {Plain, Idle}
             /\ upc'[h] = "entering" => own'[h]
             /\ upc'[h] \in {"snapped", "leaving"} =>
                   own'[h] /\ stage'[ticket'[h]] = "granted"
  <2>1. LockStep(n) /\ UNCHANGED upc
    BY <1>3 DEF MutexStep, cvVars
  <2> QED
    BY <1>0, <2>1, LockStepFacts
<1>4. DestroyCV \/ Over \/ UNCHANGED mvars => UNCHANGED <<vars, upc>>
  BY DEF DestroyCV, Over, mvars, cvVars
<1> QED
  BY <1>a, <1>1, <1>2, <1>3, <1>4 DEF MNext

(* The consumers' tests of the flag and the producers' writes exclude each
   other: one user at a time is between Lock and Unlock. *)
THEOREM MonitorExclusionTheorem ==
    ASSUME Trust = "granted"
    PROVE  MSpec => []MonitorExclusion
<1>1. MInit => PlacesInv
  BY Roles DEF MInit, Init, PlacesInv
<1>2. MTypeOK /\ TypeOK /\ ChainInv /\ GuardInv /\ PlacesInv /\ [MNext]_mvars => PlacesInv'
  BY PlacesStep
<1>3. MonitorInv => MTypeOK
  BY DEF MonitorInv
<1>4. ChainInv /\ GuardInv /\ PlacesInv => MonitorExclusion
  <2> SUFFICES ASSUME ChainInv, GuardInv, PlacesInv,
                      NEW g \in Guards, NEW h \in Guards, InMonitor(g), InMonitor(h)
               PROVE  g = h
    BY DEF MonitorExclusion
  <2>1. /\ own[g] /\ stage[ticket[g]] = "granted"
        /\ own[h] /\ stage[ticket[h]] = "granted"
    BY DEF InMonitor, Inside, PlacesInv
  <2>2. ticket[g] \in Locks /\ ticket[h] \in Locks
    BY <2>1 DEF GuardInv
  <2>3. ticket[g] = resolve /\ ticket[h] = resolve
    BY <2>1, <2>2 DEF ChainInv, Holds
  <2> QED
    BY <2>1, <2>3 DEF GuardInv
<1> QED
  BY <1>1, <1>2, <1>3, <1>4, MonitorInvariant, MonitorUsesMutex, TypeCorrect,
     MutexInvariant, PTL DEF MSpec

(* assert(!resolve_) of Mutex::Lock and assert(resolve_) of Mutex::UnLock hold
   inside the monitor. *)
THEOREM MonitorMutexAssertions ==
    ASSUME Trust = "granted"
    PROVE  MSpec => []MutexAssertions
BY MonitorUsesMutex, MutexAssertionsHold, PTL
=============================================================================
