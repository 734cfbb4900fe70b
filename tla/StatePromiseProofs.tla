------------------------- MODULE StatePromiseProofs --------------------------
(***************************************************************************)
(* Proofs about StatePromise: what holds however many waiters there are    *)
(* and however often it is reset, if a resumed waiter calls Wait, Ready and *)
(* Done again, at any depth, but not Reset.                                *)
(***************************************************************************)
EXTENDS StatePromise, TLAPS

(* The resolver calls, by the promise they resolve. *)
ReadyCalls == {"ready", "doneSecond", "destroyFirst"}
DoneCalls == {"doneFirst", "destroySecond"}

(* The calls that are in a stack. *)
Frames(s) == {s[i] : i \in DOMAIN s}

FrameSet ==
    [at : ReadyCalls \union DoneCalls, wasReady : BOOLEAN,
     batch : SUBSET Waiters, resumed : BOOLEAN]

(* The types of the variables; only promises that exist are resolved. *)
TypeOK ==
    /\ ready \in Nat /\ done \in Nat
    /\ readySet \subseteq 0 .. ready
    /\ doneSet \subseteq 0 .. done
    /\ byReady \subseteq readySet
    /\ stack \in Seq(FrameSet)
    /\ kind \in [Waiters -> Kinds]
    /\ onReady \in [Waiters -> 0 .. ready]
    /\ onDone \in [Waiters -> 0 .. done]
    /\ result \in [Waiters -> {"none", "pending", "void", "End"}]
    /\ alive \in BOOLEAN

------------------------------------------------------------------------------
(* The inductive invariant behind DoneUnblocksAll and NoneForgotten. *)

(* ready_was_done is still true when Done() uses it, and the destructor
   resolves done only after ready. *)
FramesTrue ==
    \A f \in Frames(stack) :
        f.wasReady \/ f.at \in {"destroyFirst", "destroySecond"}
            => ready \in readySet

(* While done is resolved and ready is not, a Done() under way will see to
   it. *)
ReadyFollows ==
    done \in doneSet /\ ready \notin readySet =>
        \E f \in Frames(stack) : f.at = "doneFirst" /\ ~f.wasReady

(* Whoever waits for a promise that is resolved is about to be run by the
   call that resolved it. *)
ReadyWaiterScheduled ==
    \A w \in Waiters :
        result[w] = "pending" /\ UsesReady(kind[w]) /\ onReady[w] \in readySet =>
            \E f \in Frames(stack) : f.at \in ReadyCalls /\ w \in f.batch

DoneWaiterScheduled ==
    \A w \in Waiters :
        result[w] = "pending" /\ UsesDone(kind[w]) /\ onDone[w] \in doneSet =>
            \E f \in Frames(stack) : f.at \in DoneCalls /\ w \in f.batch

StateInv ==
    /\ TypeOK
    /\ FramesTrue
    /\ ReadyFollows
    /\ ReadyWaiterScheduled
    /\ DoneWaiterScheduled
    /\ NoneForgotten

------------------------------------------------------------------------------
(* What more is needed for WaitWithReject. *)

(* A Done() under way has resolved the current done promise. *)
DoneResolves ==
    \A f \in Frames(stack) : f.at \in {"doneFirst", "doneSecond"} => done \in doneSet

(* What a call has still to run waits; Ready() resolved the promise it waits
   for, and the second half of Done() comes after its done promise. *)
BatchTold ==
    \A f \in Frames(stack) : \A w \in f.batch :
        /\ result[w] # "none"
        /\ f.at = "ready" => onReady[w] \in byReady
        /\ f.at = "doneSecond" => onDone[w] \in doneSet

(* Reset never replaces done alone: a race is between promises of one pair. *)
PairsKept ==
    \A w \in Waiters :
        result[w] # "none" /\ onReady[w] = ready => onDone[w] = done

(* Ready() is what resolved a ready promise whose done promise is pending. *)
ReadyByReady ==
    Ending \/ (ready \in readySet /\ done \notin doneSet => ready \in byReady)

RaceInv ==
    /\ StateInv
    /\ DoneResolves
    /\ BatchTold
    /\ PairsKept
    /\ ReadyByReady

------------------------------------------------------------------------------
(* Lemmas about stacks. *)

LEMMA PushFrames ==
    ASSUME NEW S, NEW s \in Seq(S), NEW f \in S
    PROVE  /\ <<f>> \o s \in Seq(S)
           /\ <<f>> \o s # <<>>
           /\ Head(<<f>> \o s) = f
           /\ Tail(<<f>> \o s) = s
           /\ Len(<<f>> \o s) = Len(s) + 1
           /\ Frames(<<f>> \o s) = {f} \union Frames(s)
<1> DEFINE t == <<f>> \o s
<1>1. /\ t \in Seq(S) /\ Len(t) = Len(s) + 1 /\ t[1] = f
      /\ \A i \in 1 .. Len(s) : t[i + 1] = s[i]
  OBVIOUS
<1>2. t # <<>> /\ Head(t) = f
  BY <1>1
<1>3. Tail(t) = s
  OBVIOUS
<1>4. DOMAIN t = 1 .. Len(s) + 1 /\ DOMAIN s = 1 .. Len(s) /\ Len(s) \in Nat
  BY <1>1
<1> HIDE DEF t
<1>5. Frames(t) \subseteq {f} \union Frames(s)
  <2> SUFFICES ASSUME NEW i \in 1 .. Len(s) + 1
               PROVE  t[i] \in {f} \union Frames(s)
    BY <1>4 DEF Frames
  <2>1. CASE i = 1
    BY <2>1, <1>1
  <2>2. CASE i # 1
    <3>1. i - 1 \in 1 .. Len(s) /\ (i - 1) + 1 = i
      BY <1>4, <2>2
    <3> QED
      BY <3>1, <1>1, <1>4 DEF Frames
  <2> QED
    BY <2>1, <2>2
<1>6. {f} \union Frames(s) \subseteq Frames(t)
  <2>1. 1 \in 1 .. Len(s) + 1 /\ \A i \in 1 .. Len(s) : i + 1 \in 1 .. Len(s) + 1
    BY <1>4
  <2> QED
    BY <2>1, <1>1, <1>4 DEF Frames
<1> QED
  BY <1>1, <1>2, <1>3, <1>5, <1>6 DEF t

LEMMA PopFrames ==
    ASSUME NEW S, NEW s \in Seq(S), s # <<>>
    PROVE  /\ Head(s) \in S
           /\ Tail(s) \in Seq(S)
           /\ Len(Tail(s)) = Len(s) - 1
           /\ Frames(s) = {Head(s)} \union Frames(Tail(s))
<1>1. Head(s) \in S /\ Tail(s) \in Seq(S) /\ Len(Tail(s)) = Len(s) - 1
  OBVIOUS
<1>2. s = <<Head(s)>> \o Tail(s)
  OBVIOUS
<1> QED
  BY <1>1, <1>2, PushFrames

LEMMA OneFrame ==
    ASSUME NEW S, NEW s \in Seq(S), s # <<>>, Len(s) <= 1
    PROVE  Tail(s) = <<>> /\ Frames(s) = {Head(s)}
<1>1. Len(s) \in Nat /\ Len(s) # 0
  OBVIOUS
<1>2. Len(s) = 1
  BY <1>1
<1>3. Len(Tail(s)) = Len(s) - 1 /\ Tail(s) \in Seq(S)
  OBVIOUS
<1>4. Len(Tail(s)) = 0
  BY <1>2, <1>3
<1>5. Tail(s) = <<>>
  BY <1>3, <1>4
<1> QED
  BY <1>5, PopFrames DEF Frames

(* What the three ways to change the stack do to the calls in it. *)
LEMMA CallFrames ==
    ASSUME stack \in Seq(FrameSet), NEW f \in FrameSet, Call(f)
    PROVE  /\ stack' \in Seq(FrameSet) /\ stack' # <<>>
           /\ Head(stack') = f
           /\ Len(stack') = Len(stack) + 1
           /\ Frames(stack') = {f} \union Frames(stack)
BY PushFrames DEF Call

LEMMA ContinueFrames ==
    ASSUME stack \in Seq(FrameSet), stack # <<>>, NEW f \in FrameSet, Continue(f)
    PROVE  /\ stack' \in Seq(FrameSet) /\ stack' # <<>>
           /\ Head(stack') = f
           /\ Len(stack') = Len(stack)
           /\ Head(stack) \in FrameSet
           /\ Frames(stack) = {Head(stack)} \union Frames(Tail(stack))
           /\ Frames(stack') = {f} \union Frames(Tail(stack))
<1>1. /\ Head(stack) \in FrameSet /\ Tail(stack) \in Seq(FrameSet)
      /\ Len(Tail(stack)) = Len(stack) - 1
      /\ Frames(stack) = {Head(stack)} \union Frames(Tail(stack))
  BY PopFrames
<1>2. /\ stack' \in Seq(FrameSet) /\ stack' # <<>>
      /\ Head(stack') = f
      /\ Len(stack') = Len(Tail(stack)) + 1
      /\ Frames(stack') = {f} \union Frames(Tail(stack))
  BY <1>1, PushFrames DEF Continue
<1>3. Len(stack) \in Nat
  OBVIOUS
<1> QED
  BY <1>1, <1>2, <1>3

LEMMA ReturnFrames ==
    ASSUME stack \in Seq(FrameSet), stack # <<>>, Return
    PROVE  /\ stack' \in Seq(FrameSet)
           /\ Len(stack') = Len(stack) - 1
           /\ Head(stack) \in FrameSet
           /\ Frames(stack) = {Head(stack)} \union Frames(Tail(stack))
           /\ Frames(stack') = Frames(Tail(stack))
BY PopFrames DEF Return

LEMMA BatchTypes ==
    /\ ReadyBatch \subseteq Waiters /\ DoneBatch \subseteq Waiters
    /\ \A at \in ReadyCalls \union DoneCalls : \A b \in BOOLEAN :
          /\ Frame(at, b, ReadyBatch) \in FrameSet
          /\ Frame(at, b, DoneBatch) \in FrameSet
BY DEF ReadyBatch, DoneBatch, Frame, FrameSet

LEMMA DoneGoesOnCases ==
    ASSUME DoneGoesOn
    PROVE  \/ Head(stack).wasReady /\ Return /\ readySet' = readySet
           \/ /\ ~Head(stack).wasReady
              /\ Continue(Frame("doneSecond", FALSE, ReadyBatch))
              /\ readySet' = readySet \union {ready}
BY Zenon DEF DoneGoesOn

LEMMA StateInit == Init => StateInv
<1> SUFFICES ASSUME Init PROVE StateInv
  OBVIOUS
<1>1. TypeOK
  BY DEF Init, TypeOK, Kinds, FrameSet
<1>2. Frames(stack) = {}
  BY DEF Init, Frames
<1> QED
  BY <1>1, <1>2 DEF Init, StateInv, FramesTrue, ReadyFollows, ReadyWaiterScheduled,
     DoneWaiterScheduled, NoneForgotten
LEMMA TypeStep == TypeOK /\ [Next]_vars => TypeOK'
<1> SUFFICES ASSUME TypeOK, [Next]_vars PROVE TypeOK'
  OBVIOUS
<1> USE DEF TypeOK, promiseVars, waiterVars
<1>1. CASE Ready
  <2>1. stack' \in Seq(FrameSet)
    BY <1>1, BatchTypes, CallFrames DEF Ready, ReadyCalls
  <2> QED
    BY <1>1, <2>1 DEF Ready
<1>2. ASSUME ReadyReturns \/ DoneReturns \/ DestroyReturns PROVE TypeOK'
  <2>1. stack' \in Seq(FrameSet)
    BY <1>2, ReturnFrames DEF ReadyReturns, DoneReturns, DestroyReturns, Drained
  <2> QED
    BY <1>2, <2>1 DEF ReadyReturns, DoneReturns, DestroyReturns
<1>3. CASE Done
  <2>1. stack' \in Seq(FrameSet)
    <3>1. (ready \in readySet) \in BOOLEAN
      OBVIOUS
    <3>2. Frame("doneFirst", ready \in readySet, DoneBatch) \in FrameSet
      BY <3>1, BatchTypes DEF DoneCalls
    <3> QED
      BY <1>3, <3>2, CallFrames DEF Done
  <2> QED
    BY <1>3, <2>1 DEF Done
<1>4. CASE DoneGoesOn
  <2>1. stack' \in Seq(FrameSet)
    <3>1. Frame("doneSecond", FALSE, ReadyBatch) \in FrameSet
      BY BatchTypes DEF ReadyCalls
    <3> QED
      BY <1>4, <3>1, ContinueFrames, ReturnFrames DEF DoneGoesOn, Drained
  <2>2. readySet' \subseteq 0 .. ready /\ readySet \subseteq readySet'
    <3>1. readySet' = readySet \/ readySet' = readySet \union {ready}
      BY <1>4, DoneGoesOnCases
    <3>2. CASE readySet' = readySet
      BY <3>2
    <3>3. CASE readySet' = readySet \union {ready}
      BY <3>3
    <3> QED
      BY <3>1, <3>2, <3>3
  <2> QED
    BY <1>4, <2>1, <2>2 DEF DoneGoesOn
<1>5. CASE Destroy
  <2>1. stack' \in Seq(FrameSet)
    BY <1>5, BatchTypes, CallFrames DEF Destroy, ReadyCalls
  <2> QED
    BY <1>5, <2>1 DEF Destroy
<1>6. CASE DestroyGoesOn
  <2>1. stack' \in Seq(FrameSet)
    BY <1>6, BatchTypes, ContinueFrames DEF DestroyGoesOn, Drained, DoneCalls
  <2> QED
    BY <1>6, <2>1 DEF DestroyGoesOn
<1>7. CASE Reset
  <2>1. /\ ready' \in Nat /\ done' \in Nat
        /\ ready <= ready' /\ done <= done'
    BY <1>7 DEF Reset, Renew
  <2> QED
    BY <1>7, <2>1 DEF Reset
<1>8. ASSUME NEW w \in Waiters, NEW k \in Kinds, Wait(w, k) PROVE TypeOK'
  <2>1. AtOnce(k) \in {"none", "pending", "void", "End"}
    BY DEF AtOnce
  <2> QED
    BY <1>8, <2>1 DEF Wait
<1>9. ASSUME NEW w \in Waiters, Deliver(w) PROVE TypeOK'
  <2>1. [Head(stack) EXCEPT !.batch = @ \ {w}, !.resumed = TRUE] \in FrameSet
    <3>1. Head(stack) \in FrameSet
      BY <1>9, PopFrames DEF Deliver
    <3> QED
      BY <3>1 DEF FrameSet
  <2>2. stack' \in Seq(FrameSet)
    BY <1>9, <2>1, ContinueFrames DEF Deliver
  <2>3. Verdict(Head(stack).at, kind[w]) \in {"none", "pending", "void", "End"}
    BY DEF Verdict
  <2> QED
    BY <1>9, <2>2, <2>3 DEF Deliver
<1>10. CASE UNCHANGED vars
  BY <1>10 DEF vars
<1> QED
  BY <1>1, <1>2, <1>3, <1>4, <1>5, <1>6, <1>7, <1>8, <1>9, <1>10 DEF Next
(* Reset is called only when no call is under way, and then ready is resolved
   if done is. *)
LEMMA ResetStep ==
    ASSUME "reset" \notin Reentrant, StateInv, Reset
    PROVE  /\ stack = <<>>
           /\ \/ ready' = ready /\ done' = done
              \/ /\ ready \in readySet /\ ready' = ready + 1 /\ ready' \notin readySet
                 /\ \/ done' = done /\ done \notin doneSet
                    \/ done \in doneSet /\ done' = done + 1 /\ done' \notin doneSet
<1>1. stack = <<>>
  BY DEF Reset, Callable
<1>2. done \in doneSet => ready \in readySet
  BY <1>1 DEF StateInv, ReadyFollows, Frames
<1>3. /\ ready \in Nat /\ done \in Nat
      /\ ready + 1 \notin readySet /\ done + 1 \notin doneSet
  BY DEF StateInv, TypeOK
<1>4. ready' = Renew[1] /\ done' = Renew[2]
  BY DEF Reset
<1> QED
  BY <1>1, <1>2, <1>3, <1>4 DEF Renew

LEMMA FramesStep ==
    ASSUME "reset" \notin Reentrant, StateInv, [Next]_vars
    PROVE  FramesTrue' /\ ReadyFollows'
<1> USE DEF promiseVars, waiterVars
<1>0. TypeOK /\ FramesTrue /\ ReadyFollows /\ stack \in Seq(FrameSet)
  BY DEF StateInv, TypeOK
<1>1. CASE Ready
  <2>1. Frame("ready", FALSE, ReadyBatch) \in FrameSet
    BY BatchTypes DEF ReadyCalls
  <2>2. Frames(stack') = {Frame("ready", FALSE, ReadyBatch)} \union Frames(stack)
    BY <1>0, <1>1, <2>1, CallFrames DEF Ready
  <2> QED
    BY <1>0, <1>1, <2>2 DEF Ready, FramesTrue, ReadyFollows, Frame
<1>2. ASSUME ReadyReturns \/ DoneReturns \/ DestroyReturns
      PROVE  FramesTrue' /\ ReadyFollows'
  <2>1. stack # <<>> /\ Return
    BY <1>2 DEF ReadyReturns, DoneReturns, DestroyReturns, Drained
  <2>2. Head(stack).at # "doneFirst"
    BY <1>2 DEF ReadyReturns, DoneReturns, DestroyReturns, Drained
  <2>3. /\ Frames(stack) = {Head(stack)} \union Frames(Tail(stack))
        /\ Frames(stack') = Frames(Tail(stack))
    BY <1>0, <2>1, ReturnFrames
  <2>4. UNCHANGED <<ready, done, readySet, doneSet>>
    BY <1>2 DEF ReadyReturns, DoneReturns, DestroyReturns
  <2> QED
    BY <1>0, <2>2, <2>3, <2>4 DEF FramesTrue, ReadyFollows
<1>3. CASE Done
  <2> DEFINE new == Frame("doneFirst", ready \in readySet, DoneBatch)
  <2>0. (ready \in readySet) \in BOOLEAN
    OBVIOUS
  <2>1. new \in FrameSet
    BY <2>0, BatchTypes DEF DoneCalls
  <2>2. new.at = "doneFirst" /\ new.wasReady = (ready \in readySet)
    BY DEF Frame
  <2> HIDE DEF new
  <2>3. Frames(stack') = {new} \union Frames(stack)
    BY <1>0, <1>3, <2>1, CallFrames DEF Done, new
  <2>4. UNCHANGED <<ready, done, readySet>>
    BY <1>3 DEF Done
  <2> QED
    BY <1>0, <2>2, <2>3, <2>4 DEF FramesTrue, ReadyFollows
<1>4. CASE DoneGoesOn
  <2> DEFINE new == Frame("doneSecond", FALSE, ReadyBatch)
  <2>1. new \in FrameSet
    BY BatchTypes DEF ReadyCalls
  <2>2. new.at = "doneSecond" /\ ~new.wasReady
    BY DEF Frame
  <2> HIDE DEF new
  <2>3. stack # <<>> /\ UNCHANGED <<ready, done, doneSet>>
    BY <1>4 DEF DoneGoesOn, Drained
  <2>4. CASE Head(stack).wasReady /\ Return /\ readySet' = readySet
    <3>1. /\ Frames(stack) = {Head(stack)} \union Frames(Tail(stack))
          /\ Frames(stack') = Frames(Tail(stack))
      BY <1>0, <2>3, <2>4, ReturnFrames
    <3> QED
      BY <1>0, <2>3, <2>4, <3>1 DEF FramesTrue, ReadyFollows
  <2>5. CASE Continue(new) /\ readySet' = readySet \union {ready}
    BY <1>0, <2>3, <2>5 DEF FramesTrue, ReadyFollows
  <2> QED
    BY <1>4, <2>4, <2>5, DoneGoesOnCases DEF new
<1>5. CASE Destroy
  BY <1>5 DEF Destroy, FramesTrue, ReadyFollows
<1>6. CASE DestroyGoesOn
  <2>1. ready \in readySet
    BY <1>0, <1>6, PopFrames DEF DestroyGoesOn, Drained, FramesTrue
  <2> QED
    BY <1>6, <2>1 DEF DestroyGoesOn, FramesTrue, ReadyFollows
<1>7. CASE Reset
  <2>1. Frames(stack') = {}
    BY <1>0, <1>7, ResetStep DEF Reset, Frames
  <2>2. done' \in doneSet' => ready' \in readySet'
    BY <1>0, <1>7, <2>1, ResetStep DEF Reset, ReadyFollows, Frames
  <2> QED
    BY <2>1, <2>2 DEF FramesTrue, ReadyFollows
<1>8. ASSUME NEW w \in Waiters, NEW k \in Kinds, Wait(w, k)
      PROVE  FramesTrue' /\ ReadyFollows'
  BY <1>0, <1>8 DEF Wait, FramesTrue, ReadyFollows
<1>9. ASSUME NEW w \in Waiters, Deliver(w)
      PROVE  FramesTrue' /\ ReadyFollows'
  <2> DEFINE new == [Head(stack) EXCEPT !.batch = @ \ {w}, !.resumed = TRUE]
  <2>1. stack # <<>> /\ Continue(new) /\ UNCHANGED promiseVars
    BY <1>9 DEF Deliver
  <2>2. Head(stack) \in FrameSet
    BY <1>0, <2>1, PopFrames
  <2>3. /\ new \in FrameSet
        /\ new.at = Head(stack).at /\ new.wasReady = Head(stack).wasReady
    BY <2>2 DEF FrameSet
  <2> HIDE DEF new
  <2>4. /\ Frames(stack) = {Head(stack)} \union Frames(Tail(stack))
        /\ Frames(stack') = {new} \union Frames(Tail(stack))
    BY <1>0, <2>1, <2>3, ContinueFrames
  <2> QED
    BY <1>0, <2>1, <2>3, <2>4 DEF FramesTrue, ReadyFollows
<1>10. CASE UNCHANGED vars
  BY <1>0, <1>10 DEF vars, FramesTrue, ReadyFollows
<1> QED
  BY <1>1, <1>2, <1>3, <1>4, <1>5, <1>6, <1>7, <1>8, <1>9, <1>10 DEF Next
LEMMA ScheduledStep ==
    ASSUME "reset" \notin Reentrant, StateInv, [Next]_vars
    PROVE  ReadyWaiterScheduled' /\ DoneWaiterScheduled'
<1> USE DEF promiseVars, waiterVars
<1>0. /\ TypeOK /\ stack \in Seq(FrameSet)
      /\ ReadyWaiterScheduled /\ DoneWaiterScheduled
  BY DEF StateInv, TypeOK
<1>1. CASE Ready
  <2> DEFINE new == Frame("ready", FALSE, ReadyBatch)
  <2>1. new \in FrameSet /\ new.at \in ReadyCalls /\ new.batch = ReadyBatch
    BY BatchTypes DEF ReadyCalls, Frame
  <2> HIDE DEF new
  <2>2. Frames(stack') = {new} \union Frames(stack)
    BY <1>0, <1>1, <2>1, CallFrames DEF Ready, new
  <2>3. UNCHANGED <<doneSet, waiterVars>> /\ readySet' = readySet \union {ready}
    BY <1>1 DEF Ready
  <2>4. ReadyWaiterScheduled'
    BY <1>0, <2>1, <2>2, <2>3 DEF ReadyWaiterScheduled, ReadyBatch
  <2> QED
    BY <1>0, <2>2, <2>3, <2>4 DEF DoneWaiterScheduled
<1>2. ASSUME ReadyReturns \/ DoneReturns \/ DestroyReturns
      PROVE  ReadyWaiterScheduled' /\ DoneWaiterScheduled'
  <2>1. stack # <<>> /\ Return /\ Head(stack).batch = {}
    BY <1>2 DEF ReadyReturns, DoneReturns, DestroyReturns, Drained
  <2>3. /\ Frames(stack) = {Head(stack)} \union Frames(Tail(stack))
        /\ Frames(stack') = Frames(Tail(stack))
    BY <1>0, <2>1, ReturnFrames
  <2>4. UNCHANGED <<readySet, doneSet, waiterVars>>
    BY <1>2 DEF ReadyReturns, DoneReturns, DestroyReturns
  <2> QED
    BY <1>0, <2>1, <2>3, <2>4 DEF ReadyWaiterScheduled, DoneWaiterScheduled
<1>3. CASE Done
  <2> DEFINE new == Frame("doneFirst", ready \in readySet, DoneBatch)
  <2>0. (ready \in readySet) \in BOOLEAN
    OBVIOUS
  <2>1. new \in FrameSet /\ new.at \in DoneCalls /\ new.batch = DoneBatch
    BY <2>0, BatchTypes DEF DoneCalls, Frame
  <2> HIDE DEF new
  <2>2. Frames(stack') = {new} \union Frames(stack)
    BY <1>0, <1>3, <2>1, CallFrames DEF Done, new
  <2>3. UNCHANGED <<readySet, waiterVars>> /\ doneSet' = doneSet \union {done}
    BY <1>3 DEF Done
  <2>4. DoneWaiterScheduled'
    BY <1>0, <2>1, <2>2, <2>3 DEF DoneWaiterScheduled, DoneBatch
  <2> QED
    BY <1>0, <2>2, <2>3, <2>4 DEF ReadyWaiterScheduled
<1>4. CASE DoneGoesOn
  <2> DEFINE new == Frame("doneSecond", FALSE, ReadyBatch)
  <2>1. new \in FrameSet /\ new.at \in ReadyCalls /\ new.batch = ReadyBatch
    BY BatchTypes DEF ReadyCalls, Frame
  <2> HIDE DEF new
  <2>2. /\ stack # <<>> /\ Head(stack).batch = {}
        /\ UNCHANGED <<doneSet, waiterVars>>
    BY <1>4 DEF DoneGoesOn, Drained
  <2>3. CASE Return /\ readySet' = readySet
    <3>1. /\ Frames(stack) = {Head(stack)} \union Frames(Tail(stack))
          /\ Frames(stack') = Frames(Tail(stack))
      BY <1>0, <2>2, <2>3, ReturnFrames
    <3> QED
      BY <1>0, <2>2, <2>3, <3>1 DEF ReadyWaiterScheduled, DoneWaiterScheduled
  <2>4. CASE Continue(new) /\ readySet' = readySet \union {ready}
    <3>1. /\ Frames(stack) = {Head(stack)} \union Frames(Tail(stack))
          /\ Frames(stack') = {new} \union Frames(Tail(stack))
      BY <1>0, <2>1, <2>2, <2>4, ContinueFrames
    <3>2. ReadyWaiterScheduled'
      BY <1>0, <2>1, <2>2, <2>4, <3>1 DEF ReadyWaiterScheduled, ReadyBatch
    <3> QED
      BY <1>0, <2>2, <2>4, <3>1, <3>2 DEF DoneWaiterScheduled
  <2> QED
    BY <1>4, <2>3, <2>4, DoneGoesOnCases DEF new
<1>5. CASE Destroy
  <2> DEFINE new == Frame("destroyFirst", FALSE, ReadyBatch)
  <2>1. new \in FrameSet /\ new.at \in ReadyCalls /\ new.batch = ReadyBatch
    BY BatchTypes DEF ReadyCalls, Frame
  <2> HIDE DEF new
  <2>2. Frames(stack') = {new} \union Frames(stack)
    BY <1>0, <1>5, <2>1, CallFrames DEF Destroy, new
  <2>3. UNCHANGED <<doneSet, waiterVars>> /\ readySet' = readySet \union {ready}
    BY <1>5 DEF Destroy
  <2>4. ReadyWaiterScheduled'
    BY <1>0, <2>1, <2>2, <2>3 DEF ReadyWaiterScheduled, ReadyBatch
  <2> QED
    BY <1>0, <2>2, <2>3, <2>4 DEF DoneWaiterScheduled
<1>6. CASE DestroyGoesOn
  <2> DEFINE new == Frame("destroySecond", FALSE, DoneBatch)
  <2>1. new \in FrameSet /\ new.at \in DoneCalls /\ new.batch = DoneBatch
    BY BatchTypes DEF DoneCalls, Frame
  <2> HIDE DEF new
  <2>2. /\ stack # <<>> /\ Head(stack).batch = {} /\ Continue(new)
        /\ UNCHANGED <<readySet, waiterVars>> /\ doneSet' = doneSet \union {done}
    BY <1>6 DEF DestroyGoesOn, Drained, new
  <2>3. /\ Frames(stack) = {Head(stack)} \union Frames(Tail(stack))
        /\ Frames(stack') = {new} \union Frames(Tail(stack))
    BY <1>0, <2>1, <2>2, ContinueFrames
  <2>4. DoneWaiterScheduled'
    BY <1>0, <2>1, <2>2, <2>3 DEF DoneWaiterScheduled, DoneBatch
  <2> QED
    BY <1>0, <2>2, <2>3, <2>4 DEF ReadyWaiterScheduled
<1>7. CASE Reset
  BY <1>0, <1>7 DEF Reset, ReadyWaiterScheduled, DoneWaiterScheduled
<1>8. ASSUME NEW w \in Waiters, NEW k \in Kinds, Wait(w, k)
      PROVE  ReadyWaiterScheduled' /\ DoneWaiterScheduled'
  <2>1. /\ AtOnce(k) = "pending" /\ UsesReady(k) => ready \notin readySet
        /\ AtOnce(k) = "pending" /\ UsesDone(k) => done \notin doneSet
    BY DEF AtOnce
  <2>2. /\ UNCHANGED <<readySet, doneSet, stack>>
        /\ kind' = [kind EXCEPT ![w] = k]
        /\ onReady' = [onReady EXCEPT ![w] = ready]
        /\ onDone' = [onDone EXCEPT ![w] = done]
        /\ result' = [result EXCEPT ![w] = AtOnce(k)]
    BY <1>8 DEF Wait
  <2>3. ReadyWaiterScheduled'
    BY <1>0, <2>1, <2>2 DEF TypeOK, ReadyWaiterScheduled
  <2>4. DoneWaiterScheduled'
    BY <1>0, <2>1, <2>2 DEF TypeOK, DoneWaiterScheduled
  <2> QED
    BY <2>3, <2>4
<1>9. ASSUME NEW w \in Waiters, Deliver(w)
      PROVE  ReadyWaiterScheduled' /\ DoneWaiterScheduled'
  <2> DEFINE new == [Head(stack) EXCEPT !.batch = @ \ {w}, !.resumed = TRUE]
  <2>1. /\ stack # <<>> /\ Continue(new)
        /\ UNCHANGED <<readySet, doneSet, kind, onReady, onDone>>
    BY <1>9 DEF Deliver
  <2>2. Head(stack) \in FrameSet
    BY <1>0, <2>1, PopFrames
  <2>3. new \in FrameSet /\ new.at = Head(stack).at /\ new.batch = Head(stack).batch \ {w}
    BY <2>2 DEF FrameSet
  <2> HIDE DEF new
  <2>4. /\ Frames(stack) = {Head(stack)} \union Frames(Tail(stack))
        /\ Frames(stack') = {new} \union Frames(Tail(stack))
    BY <1>0, <2>1, <2>3, ContinueFrames
  <2>5. result'[w] # "pending" /\ \A v \in Waiters \ {w} : result'[v] = result[v]
    BY <1>0, <1>9 DEF Deliver, Verdict, TypeOK
  <2>6. ReadyWaiterScheduled'
    BY <1>0, <2>1, <2>3, <2>4, <2>5 DEF ReadyWaiterScheduled
  <2>7. DoneWaiterScheduled'
    BY <1>0, <2>1, <2>3, <2>4, <2>5 DEF DoneWaiterScheduled
  <2> QED
    BY <2>6, <2>7
<1>10. CASE UNCHANGED vars
  BY <1>0, <1>10 DEF vars, ReadyWaiterScheduled, DoneWaiterScheduled
<1> QED
  BY <1>1, <1>2, <1>3, <1>4, <1>5, <1>6, <1>7, <1>8, <1>9, <1>10 DEF Next
LEMMA NoneForgottenStep ==
    ASSUME "reset" \notin Reentrant, StateInv, [Next]_vars
    PROVE  NoneForgotten'
<1> USE DEF promiseVars, waiterVars
<1>0. TypeOK /\ NoneForgotten
  BY DEF StateInv
<1>1. CASE Ready
  BY <1>0, <1>1 DEF Ready, NoneForgotten
<1>2. ASSUME ReadyReturns \/ DoneReturns \/ DestroyReturns PROVE NoneForgotten'
  BY <1>0, <1>2 DEF ReadyReturns, DoneReturns, DestroyReturns, NoneForgotten
<1>3. CASE Done
  BY <1>0, <1>3 DEF Done, NoneForgotten
<1>4. CASE DoneGoesOn
  <2>1. readySet \subseteq readySet'
    BY <1>4, DoneGoesOnCases
  <2> QED
    BY <1>0, <1>4, <2>1 DEF DoneGoesOn, NoneForgotten
<1>5. CASE Destroy
  BY <1>0, <1>5 DEF Destroy, NoneForgotten
<1>6. CASE DestroyGoesOn
  BY <1>0, <1>6 DEF DestroyGoesOn, NoneForgotten
<1>7. CASE Reset
  <2>1. UNCHANGED <<readySet, doneSet, waiterVars>>
    BY <1>7 DEF Reset
  <2>2. /\ ready' = ready \/ ready \in readySet
        /\ done' = done \/ done \in doneSet
    BY <1>7, ResetStep
  <2> QED
    BY <1>0, <2>1, <2>2 DEF NoneForgotten
<1>8. ASSUME NEW w \in Waiters, NEW k \in Kinds, Wait(w, k) PROVE NoneForgotten'
  BY <1>0, <1>8 DEF Wait, NoneForgotten, TypeOK
<1>9. ASSUME NEW w \in Waiters, Deliver(w) PROVE NoneForgotten'
  <2>1. \A v \in Waiters : result'[v] = "pending" => result[v] = "pending"
    BY <1>0, <1>9 DEF Deliver, Verdict, TypeOK
  <2> QED
    BY <1>0, <1>9, <2>1 DEF Deliver, NoneForgotten
<1>10. CASE UNCHANGED vars
  BY <1>0, <1>10 DEF vars, NoneForgotten
<1> QED
  BY <1>1, <1>2, <1>3, <1>4, <1>5, <1>6, <1>7, <1>8, <1>9, <1>10 DEF Next

LEMMA StateStep ==
    ASSUME "reset" \notin Reentrant
    PROVE  StateInv /\ [Next]_vars => StateInv'
BY TypeStep, FramesStep, ScheduledStep, NoneForgottenStep DEF StateInv

(* The types of the variables of StatePromise hold in every state. *)
THEOREM StateTypes == Spec => []TypeOK
<1>1. Init => TypeOK
  BY StateInit DEF StateInv
<1> QED
  BY <1>1, TypeStep, PTL DEF Spec

(* The invariant of the calls under way: as long as no waiter resets the
   object from inside Ready(), Done() or the destructor, whoever waits for a
   resolved promise is in the batch of the call that resolved it. *)
THEOREM StateInvariant ==
    ASSUME "reset" \notin Reentrant
    PROVE  Spec => []StateInv
BY StateInit, StateStep, PTL DEF Spec

(* No waiter of WaitReady, WaitDone, Wait or their rejecting forms is left
   with a promise that nobody can resolve any more, whatever Reset replaced
   and whatever the resumed waiters called, short of Reset. *)
THEOREM NoneForgottenTheorem ==
    ASSUME "reset" \notin Reentrant
    PROVE  Spec => []NoneForgotten
<1>1. StateInv => NoneForgotten
  BY DEF StateInv
<1> QED
  BY <1>1, StateInvariant, PTL

(* Done() unblocks everybody by the time it has returned, also when its
   waiters call Wait, Ready or Done again. *)
THEOREM DoneUnblocksAllTheorem ==
    ASSUME "reset" \notin Reentrant
    PROVE  Spec => []DoneUnblocksAll
<1>1. StateInv => DoneUnblocksAll
  <2> SUFFICES ASSUME StateInv, stack = <<>>, done \in doneSet
               PROVE  IsDone /\ \A w \in Waiters : result[w] # "pending"
    BY DEF DoneUnblocksAll
  <2>1. Frames(stack) = {}
    BY DEF Frames
  <2>2. ready \in readySet
    BY <2>1 DEF StateInv, ReadyFollows
  <2>3. ASSUME NEW w \in Waiters, result[w] = "pending" PROVE FALSE
    <3>1. UsesReady(kind[w]) \/ UsesDone(kind[w])
      BY DEF StateInv, TypeOK, Kinds, UsesReady, UsesDone
    <3>2. UsesReady(kind[w]) => onReady[w] \in readySet
      BY <2>2, <2>3 DEF StateInv, NoneForgotten
    <3>3. UsesDone(kind[w]) => onDone[w] \in doneSet
      BY <2>3 DEF StateInv, NoneForgotten
    <3> QED
      BY <2>1, <2>3, <3>1, <3>2, <3>3
         DEF StateInv, ReadyWaiterScheduled, DoneWaiterScheduled
  <2> QED
    BY <2>2, <2>3 DEF IsDone
<1> QED
  BY <1>1, StateInvariant, PTL
------------------------------------------------------------------------------
(* WaitWithReject. *)

EndCalls == {"destroyFirst", "destroySecond"}

LEMMA EndingFrames ==
    ASSUME stack \in Seq(FrameSet)
    PROVE  Ending <=> ~alive \/ \E f \in Frames(stack) : f.at \in EndCalls
BY DEF Ending, Frames, EndCalls

(* What the steps do to the calls under way: begin one, replace the innermost
   one, or end it. *)
LEMMA BeginShape ==
    ASSUME TypeOK, NEW at \in ReadyCalls \union DoneCalls, NEW b \in BOOLEAN,
           NEW S \in SUBSET Waiters, Call(Frame(at, b, S))
    PROVE  \E f \in FrameSet : /\ f.at = at /\ f.batch = S
                               /\ Frames(stack') = {f} \union Frames(stack)
<1> DEFINE f == Frame(at, b, S)
<1>1. f \in FrameSet /\ f.at = at /\ f.batch = S
  BY DEF Frame, FrameSet
<1>2. Call(f) /\ stack \in Seq(FrameSet)
  BY DEF TypeOK
<1> HIDE DEF f
<1> QED
  BY <1>1, <1>2, CallFrames

LEMMA GoOnShape ==
    ASSUME TypeOK, stack # <<>>, NEW at \in ReadyCalls \union DoneCalls, NEW b \in BOOLEAN,
           NEW S \in SUBSET Waiters, Continue(Frame(at, b, S))
    PROVE  \E f \in FrameSet : /\ f.at = at /\ f.batch = S
                               /\ Frames(stack') = {f} \union Frames(Tail(stack))
<1> DEFINE f == Frame(at, b, S)
<1>1. f \in FrameSet /\ f.at = at /\ f.batch = S
  BY DEF Frame, FrameSet
<1>2. Continue(f) /\ stack \in Seq(FrameSet)
  BY DEF TypeOK
<1> HIDE DEF f
<1> QED
  BY <1>1, <1>2, ContinueFrames

LEMMA DeliverShape ==
    ASSUME TypeOK, NEW w \in Waiters, Deliver(w)
    PROVE  /\ stack # <<>> /\ Head(stack) \in FrameSet /\ w \in Head(stack).batch
           /\ Frames(stack) = {Head(stack)} \union Frames(Tail(stack))
           /\ \E f \in FrameSet : /\ f.at = Head(stack).at
                                  /\ f.batch = Head(stack).batch \ {w}
                                  /\ Frames(stack') = {f} \union Frames(Tail(stack))
<1> DEFINE f == [Head(stack) EXCEPT !.batch = @ \ {w}, !.resumed = TRUE]
<1>1. stack \in Seq(FrameSet) /\ stack # <<>> /\ Continue(f) /\ w \in Head(stack).batch
  BY DEF Deliver, TypeOK
<1>2. /\ Head(stack) \in FrameSet
      /\ Frames(stack) = {Head(stack)} \union Frames(Tail(stack))
  BY <1>1, PopFrames
<1>3. f \in FrameSet /\ f.at = Head(stack).at /\ f.batch = Head(stack).batch \ {w}
  BY <1>2 DEF FrameSet
<1> HIDE DEF f
<1> QED
  BY <1>1, <1>2, <1>3, ContinueFrames

(* The calls under way after a step: those before it, but for the innermost,
   and at most one new one.  Which one is new, and whom it has to run. *)
NewCall(f) ==
    \/ Ready /\ f.at = "ready" /\ f.batch = ReadyBatch
    \/ Done /\ f.at = "doneFirst" /\ f.batch = DoneBatch
    \/ /\ DoneGoesOn /\ f.at = "doneSecond" /\ f.batch = ReadyBatch
       /\ \E g \in Frames(stack) : g.at = "doneFirst"
    \/ Destroy /\ f.at = "destroyFirst" /\ f.batch = ReadyBatch
    \/ DestroyGoesOn /\ f.at = "destroySecond" /\ f.batch = DoneBatch
    \/ \E w \in Waiters : /\ Deliver(w)
                          /\ \E g \in Frames(stack) :
                                f.at = g.at /\ f.batch = g.batch \ {w}

LEMMA CallsAfter ==
    ASSUME TypeOK, [Next]_vars
    PROVE  /\ \A f \in Frames(stack') : f \in Frames(stack) \/ NewCall(f)
           /\ Frames(stack') \subseteq FrameSet
           /\ Ending => Ending'
<1> USE DEF promiseVars, waiterVars
<1> DEFINE Kept == \A f \in Frames(stack) : f.at \in EndCalls =>
                      ~alive' \/ \E g \in Frames(stack') : g.at \in EndCalls
           Goal == /\ \A f \in Frames(stack') : f \in Frames(stack) \/ NewCall(f)
                   /\ Kept
<1>0. stack \in Seq(FrameSet) /\ Frames(stack) \subseteq FrameSet
  BY DEF TypeOK, Frames
<1>a. /\ ReadyBatch \in SUBSET Waiters /\ DoneBatch \in SUBSET Waiters
      /\ (ready \in readySet) \in BOOLEAN /\ FALSE \in BOOLEAN
  BY BatchTypes
<1>b. stack # <<>> => /\ Head(stack) \in Frames(stack)
                      /\ Frames(Tail(stack)) \subseteq Frames(stack)
                      /\ Frames(stack) = {Head(stack)} \union Frames(Tail(stack))
  BY <1>0, PopFrames
<1>1. ASSUME Ready PROVE Goal
  <2>1. PICK f \in FrameSet : /\ f.at = "ready" /\ f.batch = ReadyBatch
                              /\ Frames(stack') = {f} \union Frames(stack)
    <3>1. "ready" \in ReadyCalls \union DoneCalls /\ Call(Frame("ready", FALSE, ReadyBatch))
      BY <1>1 DEF Ready, ReadyCalls
    <3> QED
      BY <1>a, <3>1, BeginShape, Zenon
  <2> QED
    BY <1>1, <2>1 DEF NewCall
<1>2. ASSUME ReadyReturns \/ DoneReturns \/ DestroyReturns PROVE Goal
  <2>1. stack # <<>> /\ Return
    BY <1>2 DEF ReadyReturns, DoneReturns, DestroyReturns, Drained
  <2>2. Head(stack).at \notin EndCalls \/ ~alive'
    BY <1>2 DEF ReadyReturns, DoneReturns, DestroyReturns, Drained, EndCalls
  <2> QED
    BY <1>0, <1>b, <2>1, <2>2, ReturnFrames
<1>3. ASSUME Done PROVE Goal
  <2>1. PICK f \in FrameSet : /\ f.at = "doneFirst" /\ f.batch = DoneBatch
                              /\ Frames(stack') = {f} \union Frames(stack)
    <3>1. /\ "doneFirst" \in ReadyCalls \union DoneCalls
          /\ Call(Frame("doneFirst", ready \in readySet, DoneBatch))
      BY <1>3, Zenon DEF Done, DoneCalls
    <3> QED
      BY <1>a, <3>1, BeginShape, Zenon
  <2> QED
    BY <1>3, <2>1 DEF NewCall
<1>4. ASSUME DoneGoesOn PROVE Goal
  <2>1. stack # <<>> /\ Head(stack).at = "doneFirst"
    BY <1>4 DEF DoneGoesOn, Drained
  <2>2. CASE Return
    BY <1>0, <1>b, <2>1, <2>2, ReturnFrames DEF EndCalls
  <2>3. CASE Continue(Frame("doneSecond", FALSE, ReadyBatch))
    <3>1. PICK f \in FrameSet : /\ f.at = "doneSecond" /\ f.batch = ReadyBatch
                                /\ Frames(stack') = {f} \union Frames(Tail(stack))
      <4>1. "doneSecond" \in ReadyCalls \union DoneCalls
        BY DEF ReadyCalls
      <4> QED
        BY <1>a, <2>1, <2>3, <4>1, GoOnShape, Zenon
    <3>2. NewCall(f)
      BY <1>4, <1>b, <2>1, <3>1 DEF NewCall
    <3> QED
      BY <1>b, <2>1, <3>1, <3>2 DEF EndCalls
  <2> QED
    BY <1>4, <2>2, <2>3, DoneGoesOnCases
<1>5. ASSUME Destroy PROVE Goal
  <2>1. PICK f \in FrameSet : /\ f.at = "destroyFirst" /\ f.batch = ReadyBatch
                              /\ Frames(stack') = {f} \union Frames(stack)
    <3>1. /\ "destroyFirst" \in ReadyCalls \union DoneCalls
          /\ Call(Frame("destroyFirst", FALSE, ReadyBatch))
      BY <1>5 DEF Destroy, ReadyCalls
    <3> QED
      BY <1>a, <3>1, BeginShape, Zenon
  <2> QED
    BY <1>5, <2>1 DEF NewCall
<1>6. ASSUME DestroyGoesOn PROVE Goal
  <2>1. stack # <<>> /\ Continue(Frame("destroySecond", FALSE, DoneBatch))
    BY <1>6 DEF DestroyGoesOn, Drained
  <2>2. PICK f \in FrameSet : /\ f.at = "destroySecond" /\ f.batch = DoneBatch
                              /\ Frames(stack') = {f} \union Frames(Tail(stack))
    <3>1. "destroySecond" \in ReadyCalls \union DoneCalls
      BY DEF DoneCalls
    <3> QED
      BY <1>a, <2>1, <3>1, GoOnShape, Zenon
  <2> QED
    BY <1>6, <1>b, <2>1, <2>2 DEF NewCall, EndCalls
<1>7. ASSUME UNCHANGED stack PROVE Goal
  BY <1>7
<1>8. ASSUME NEW w \in Waiters, Deliver(w) PROVE Goal
  <2>1. stack # <<>>
    BY <1>8 DEF Deliver
  <2>2. PICK f \in FrameSet : /\ f.at = Head(stack).at
                              /\ f.batch = Head(stack).batch \ {w}
                              /\ Frames(stack') = {f} \union Frames(Tail(stack))
    BY <1>8, DeliverShape
  <2>3. NewCall(f)
    BY <1>8, <1>b, <2>1, <2>2 DEF NewCall
  <2> QED
    BY <1>b, <2>1, <2>2, <2>3
<1>9. Goal
  <2>1. Reset \/ (\E w \in Waiters, k \in Kinds : Wait(w, k)) \/ UNCHANGED vars => UNCHANGED stack
    BY DEF Reset, Wait, vars
  <2> QED
    BY <1>1, <1>2, <1>3, <1>4, <1>5, <1>6, <1>7, <1>8, <2>1 DEF Next
<1>10. Frames(stack') \subseteq FrameSet
  BY TypeStep DEF TypeOK, Frames
<1>11. Ending => Ending'
  <2>1. stack \in Seq(FrameSet) /\ stack' \in Seq(FrameSet)
    BY TypeStep DEF TypeOK
  <2>2. /\ Ending <=> ~alive \/ \E f \in Frames(stack) : f.at \in EndCalls
        /\ Ending' <=> ~alive' \/ \E f \in Frames(stack') : f.at \in EndCalls
    BY <2>1 DEF Ending, Frames, EndCalls
  <2>3. alive' = alive \/ ~alive'
    BY DEF Next, vars, Ready, ReadyReturns, Done, DoneGoesOn, DoneReturns, Destroy,
       DestroyGoesOn, DestroyReturns, Reset, Wait, Deliver
  <2> QED
    BY <1>9, <2>2, <2>3
<1> QED
  BY <1>9, <1>10, <1>11

(* The second half of Done() resolves the ready promise of a pair whose done
   promise is resolved. *)
LEMMA TellsStep ==
    ASSUME "reset" \notin Reentrant, RaceInv, [Next]_vars
    PROVE  DoneResolves' /\ BatchTold'
<1> USE DEF promiseVars, waiterVars
<1>0. TypeOK /\ TypeOK' /\ DoneResolves /\ BatchTold /\ PairsKept
  BY TypeStep DEF RaceInv, StateInv
<1>1. byReady \subseteq byReady' /\ doneSet \subseteq doneSet'
  BY DEF Next, vars, Ready, ReadyReturns, Done, DoneGoesOn, DoneReturns, Destroy,
     DestroyGoesOn, DestroyReturns, Reset, Wait, Deliver
<1>2. done' = done \/ stack' = <<>>
  BY DEF Next, vars, Ready, ReadyReturns, Done, DoneGoesOn, DoneReturns, Destroy,
     DestroyGoesOn, DestroyReturns, Reset, Callable, Wait, Deliver
<1>3. \A w \in Waiters : result[w] # "none" =>
         result'[w] # "none" /\ onReady'[w] = onReady[w] /\ onDone'[w] = onDone[w]
  <2>1. ASSUME NEW v \in Waiters, NEW k \in Kinds, Wait(v, k),
               NEW w \in Waiters, result[w] # "none"
        PROVE  result'[w] # "none" /\ onReady'[w] = onReady[w] /\ onDone'[w] = onDone[w]
    BY <1>0, <2>1 DEF Wait, TypeOK
  <2>2. ASSUME NEW v \in Waiters, Deliver(v), NEW w \in Waiters, result[w] # "none"
        PROVE  result'[w] # "none" /\ onReady'[w] = onReady[w] /\ onDone'[w] = onDone[w]
    BY <1>0, <2>2 DEF Deliver, Verdict, TypeOK
  <2>3. \/ UNCHANGED <<result, onReady, onDone>>
        \/ \E v \in Waiters : (\E k \in Kinds : Wait(v, k)) \/ Deliver(v)
    BY DEF Next, vars, Ready, ReadyReturns, Done, DoneGoesOn, DoneReturns, Destroy,
       DestroyGoesOn, DestroyReturns, Reset
  <2> QED
    BY <2>1, <2>2, <2>3
<1>4. ASSUME NEW f \in Frames(stack') PROVE f \in Frames(stack) \/ NewCall(f)
  BY <1>0, CallsAfter
<1>5. DoneResolves'
  <2> SUFFICES ASSUME NEW f \in Frames(stack'), f.at \in {"doneFirst", "doneSecond"}
               PROVE  done' \in doneSet'
    BY DEF DoneResolves
  <2>1. done' = done
    BY <1>2 DEF Frames
  <2>2. CASE f \in Frames(stack)
    BY <1>0, <1>1, <2>1, <2>2 DEF DoneResolves
  <2>3. CASE NewCall(f)
    <3>1. Done => done \in doneSet'
      BY DEF Done
    <3> QED
      BY <1>0, <1>1, <2>1, <2>3, <3>1 DEF NewCall, DoneResolves
  <2> QED
    BY <1>4, <2>2, <2>3
<1>6. BatchTold'
  <2> SUFFICES ASSUME NEW f \in Frames(stack'), NEW w \in f.batch
               PROVE  /\ result'[w] # "none"
                      /\ f.at = "ready" => onReady'[w] \in byReady'
                      /\ f.at = "doneSecond" => onDone'[w] \in doneSet'
    BY DEF BatchTold
  <2>0. w \in Waiters
    BY <1>0, CallsAfter DEF FrameSet
  <2>1. ASSUME NEW g \in Frames(stack), f.at = g.at, w \in g.batch
        PROVE  /\ result'[w] # "none"
               /\ f.at = "ready" => onReady'[w] \in byReady'
               /\ f.at = "doneSecond" => onDone'[w] \in doneSet'
    BY <1>0, <1>1, <1>3, <2>0, <2>1 DEF BatchTold
  <2>2. CASE f \in Frames(stack)
    BY <2>1, <2>2
  <2>3. CASE Ready /\ f.at = "ready" /\ f.batch = ReadyBatch
    <3>1. result[w] = "pending" /\ onReady[w] = ready
      BY <2>3 DEF ReadyBatch
    <3>2. ready \in byReady'
      BY <2>3 DEF Ready
    <3> QED
      BY <1>3, <2>0, <2>3, <3>1, <3>2
  <2>4. CASE f.at \notin {"ready", "doneSecond"} /\ f.batch \in {ReadyBatch, DoneBatch}
    <3>1. result[w] = "pending"
      BY <2>4 DEF ReadyBatch, DoneBatch
    <3> QED
      BY <1>3, <2>0, <2>4, <3>1
  <2>5. CASE /\ f.at = "doneSecond" /\ f.batch = ReadyBatch
             /\ \E g \in Frames(stack) : g.at = "doneFirst"
    <3>1. result[w] = "pending" /\ onReady[w] = ready
      BY <2>5 DEF ReadyBatch
    <3>2. onDone[w] = done /\ done \in doneSet
      BY <1>0, <2>0, <2>5, <3>1 DEF PairsKept, DoneResolves
    <3> QED
      BY <1>1, <1>3, <2>0, <2>5, <3>1, <3>2
  <2>6. CASE \E v \in Waiters : \E g \in Frames(stack) :
                f.at = g.at /\ f.batch = g.batch \ {v}
    BY <2>1, <2>6
  <2> QED
    BY <1>4, <2>2, <2>3, <2>4, <2>5, <2>6 DEF NewCall
<1> QED
  BY <1>5, <1>6

LEMMA PairsStep ==
    ASSUME "reset" \notin Reentrant, RaceInv, [Next]_vars
    PROVE  PairsKept' /\ ReadyByReady'
<1> USE DEF promiseVars, waiterVars
<1>0. TypeOK /\ StateInv /\ PairsKept /\ DoneResolves /\ ReadyByReady
  BY DEF RaceInv, StateInv
<1>1. PairsKept'
  <2>1. CASE Reset
    <3>1. /\ UNCHANGED waiterVars
          /\ (ready' = ready /\ done' = done) \/ ready' = ready + 1
      BY <1>0, <2>1, ResetStep DEF Reset
    <3>2. ready \in Nat /\ \A w \in Waiters : onReady[w] \in 0 .. ready
      BY <1>0 DEF TypeOK
    <3> QED
      BY <1>0, <3>1, <3>2 DEF PairsKept
  <2>2. ASSUME NEW w \in Waiters, NEW k \in Kinds, Wait(w, k) PROVE PairsKept'
    BY <1>0, <2>2 DEF Wait, PairsKept, TypeOK
  <2>3. ASSUME NEW w \in Waiters, Deliver(w) PROVE PairsKept'
    <3>1. \A v \in Waiters : result'[v] = "none" <=> result[v] = "none"
      BY <1>0, <2>3 DEF Deliver, Verdict, TypeOK
    <3> QED
      BY <1>0, <2>3, <3>1 DEF Deliver, PairsKept
  <2>4. ASSUME UNCHANGED <<ready, done, waiterVars>> PROVE PairsKept'
    BY <1>0, <2>4 DEF PairsKept
  <2> QED
    BY <2>1, <2>2, <2>3, <2>4 DEF Next, vars, Ready, ReadyReturns, Done, DoneGoesOn,
       DoneReturns, Destroy, DestroyGoesOn, DestroyReturns
<1>2. ReadyByReady'
  <2> SUFFICES ASSUME ~Ending', ready' \in readySet', done' \notin doneSet'
               PROVE  ready' \in byReady'
    BY DEF ReadyByReady
  <2>1. ready \in readySet /\ done \notin doneSet => ready \in byReady
    BY <1>0, CallsAfter DEF ReadyByReady
  <2>2. CASE Ready
    BY <2>2 DEF Ready
  <2>3. CASE UNCHANGED promiseVars
    BY <2>1, <2>3
  <2>4. ~Done
    BY DEF Done
  <2>5. ~DoneGoesOn
    <3>1. ASSUME DoneGoesOn PROVE done \in doneSet
      <4>1. stack # <<>> /\ Head(stack).at = "doneFirst" /\ stack \in Seq(FrameSet)
        BY <1>0, <3>1 DEF DoneGoesOn, Drained, TypeOK
      <4>2. Head(stack) \in Frames(stack)
        BY <4>1, PopFrames
      <4> QED
        BY <1>0, <4>1, <4>2 DEF DoneResolves
    <3> QED
      BY <3>1 DEF DoneGoesOn
  <2>6. ~Destroy
    <3>1. ASSUME Destroy PROVE Ending'
      <4>1. stack' # <<>> /\ Head(stack').at = "destroyFirst"
        <5> DEFINE new == Frame("destroyFirst", FALSE, ReadyBatch)
        <5>1. new \in FrameSet /\ new.at = "destroyFirst"
          BY BatchTypes DEF ReadyCalls, Frame
        <5>2. Call(new) /\ stack \in Seq(FrameSet)
          BY <1>0, <3>1 DEF Destroy, TypeOK
        <5> HIDE DEF new
        <5> QED
          BY <5>1, <5>2, CallFrames
      <4>2. stack' \in Seq(FrameSet)
        BY <1>0, TypeStep DEF TypeOK
      <4> QED
        BY <4>1, <4>2 DEF Ending
    <3> QED
      BY <3>1
  <2>7. ~DestroyGoesOn
    BY DEF DestroyGoesOn
  <2>8. CASE Reset
    BY <1>0, <2>1, <2>8, ResetStep DEF Reset
  <2> QED
    BY <2>2, <2>3, <2>4, <2>5, <2>6, <2>7, <2>8 DEF Next, vars, ReadyReturns,
       DoneReturns, DestroyReturns, Wait, Deliver
<1> QED
  BY <1>1, <1>2

LEMMA RaceStep ==
    ASSUME "reset" \notin Reentrant
    PROVE  RaceInv /\ [Next]_vars => RaceInv'
BY StateStep, TellsStep, PairsStep DEF RaceInv

LEMMA RaceInit == Init => RaceInv
<1> SUFFICES ASSUME Init PROVE RaceInv
  OBVIOUS
<1>1. StateInv
  BY StateInit
<1>2. Frames(stack) = {}
  BY DEF Init, Frames
<1> QED
  BY <1>1, <1>2 DEF Init, RaceInv, DoneResolves, BatchTold, PairsKept, ReadyByReady

(* A call under way that is not the innermost one, and has w to run. *)
LEMMA OvertakenBy ==
    ASSUME TypeOK, NEW w, NEW f \in Frames(stack), w \in f.batch,
           stack # <<>> => f.at # Head(stack).at
    PROVE  Overtaken(w)
<1>1. PICK i \in DOMAIN stack : f = stack[i]
  BY DEF Frames
<1>2. stack \in Seq(FrameSet) /\ DOMAIN stack = 1 .. Len(stack) /\ Len(stack) \in Nat
  BY DEF TypeOK
<1>3. i # 1
  BY <1>1, <1>2
<1> QED
  BY <1>1, <1>2, <1>3 DEF Overtaken

(* However Ready(), Done() and Reset() interleave with waiters that call them
   again, WaitWithReject resolves only for a waiter whose ready promise Ready()
   resolved, until the destructor begins and but for a Done() inside the Done()
   that is about to reject it. *)
THEOREM VoidMeansReadyTheorem ==
    ASSUME "reset" \notin Reentrant
    PROVE  Spec => VoidMeansReadyFirst
<1> DEFINE Resolves(w) == /\ kind'[w] = "eitherReject"
                          /\ result[w] # "void" /\ result'[w] = "void"
           Allowed(w) == onReady'[w] \in byReady \/ Ending \/ Overtaken(w)
<1>1. ASSUME RaceInv, [Next]_vars, NEW w \in Waiters, Resolves(w), ~Ending
      PROVE  onReady'[w] \in byReady \/ Overtaken(w)
  <2>0. /\ TypeOK /\ BatchTold /\ DoneWaiterScheduled /\ DoneResolves
        /\ ready \in readySet /\ done \notin doneSet => ready \in byReady
    BY <1>1 DEF RaceInv, StateInv, ReadyByReady
  <2>1. ASSUME NEW v \in Waiters, NEW k \in Kinds, Wait(v, k)
        PROVE  onReady'[w] \in byReady
    <3>1. v = w /\ k = "eitherReject" /\ AtOnce(k) = "void" /\ onReady'[w] = ready
      BY <1>1, <2>0, <2>1 DEF Wait, TypeOK
    <3>2. ready \in readySet /\ done \notin doneSet
      BY <3>1 DEF AtOnce, UsesDone, UsesReady
    <3> QED
      BY <2>0, <2>1, <3>1, <3>2 DEF Wait, promiseVars
  <2>2. ASSUME NEW v \in Waiters, Deliver(v)
        PROVE  onReady'[w] \in byReady \/ Overtaken(w)
    <3>1. /\ v = w /\ result[w] = "pending" /\ kind[w] = "eitherReject"
          /\ Verdict(Head(stack).at, kind[w]) = "void"
          /\ onReady' = onReady /\ byReady' = byReady
      BY <1>1, <2>0, <2>2 DEF Deliver, TypeOK, promiseVars
    <3>2. /\ stack # <<>> /\ Head(stack) \in FrameSet /\ w \in Head(stack).batch
          /\ Head(stack) \in Frames(stack)
      BY <2>0, <2>2, <3>1, DeliverShape
    <3>3. Head(stack).at \notin EndCalls
      BY <1>1, <2>0, <3>2, EndingFrames DEF TypeOK
    <3>4. Head(stack).at \in {"ready", "doneSecond"}
      BY <3>1, <3>2, <3>3 DEF Verdict, FrameSet, ReadyCalls, DoneCalls, EndCalls
    <3>5. CASE Head(stack).at = "ready"
      BY <2>0, <3>1, <3>2, <3>5 DEF BatchTold
    <3>6. CASE Head(stack).at = "doneSecond"
      <4>1. onDone[w] \in doneSet
        BY <2>0, <3>2, <3>6 DEF BatchTold
      <4>2. PICK f \in Frames(stack) : f.at \in DoneCalls /\ w \in f.batch
        BY <2>0, <3>1, <4>1 DEF DoneWaiterScheduled, UsesDone
      <4>3. f.at # Head(stack).at
        BY <3>6, <4>2 DEF DoneCalls
      <4> QED
        BY <2>0, <4>2, <4>3, OvertakenBy
    <3> QED
      BY <3>4, <3>5, <3>6
  <2>3. (\E v \in Waiters : (\E k \in Kinds : Wait(v, k)) \/ Deliver(v)) \/ UNCHANGED result
    BY <1>1 DEF Next, vars, waiterVars, Ready, ReadyReturns, Done, DoneGoesOn,
       DoneReturns, Destroy, DestroyGoesOn, DestroyReturns, Reset
  <2> QED
    BY <1>1, <2>1, <2>2, <2>3
<1>2. RaceInv /\ [Next]_vars => [\A w \in Waiters : Resolves(w) => Allowed(w)]_vars
  BY <1>1
<1> QED
  BY <1>2, RaceInit, RaceStep, PTL DEF Spec, VoidMeansReadyFirst

(* A waiter of WaitWithReject for whom Ready() came first is not rejected with
   End: not by a Done() that follows and not by the destructor, unless a Done()
   inside that Ready() overtakes it. *)
THEOREM EndMeansDoneFirstTheorem ==
    ASSUME "reset" \notin Reentrant
    PROVE  Spec => EndMeansDoneFirst
<1> DEFINE Rejects(w) == /\ kind[w] = "eitherReject"
                         /\ result[w] = "pending" /\ result'[w] = "End"
<1>1. ASSUME StateInv, [Next]_vars, NEW w \in Waiters, Rejects(w), onReady[w] \in byReady
      PROVE  Overtaken(w)
  <2>0. TypeOK /\ ReadyWaiterScheduled
    BY <1>1 DEF StateInv
  <2>1. PICK f \in Frames(stack) : f.at \in ReadyCalls /\ w \in f.batch
    BY <1>1, <2>0 DEF ReadyWaiterScheduled, UsesReady, TypeOK
  <2>2. ASSUME NEW v \in Waiters, Deliver(v) PROVE Overtaken(w)
    <3>1. Verdict(Head(stack).at, kind[w]) = "End"
      BY <1>1, <2>0, <2>2 DEF Deliver, TypeOK
    <3>2. f.at # Head(stack).at
      BY <2>1, <3>1 DEF Verdict, ReadyCalls
    <3> QED
      BY <2>0, <2>1, <3>2, OvertakenBy
  <2>3. ASSUME NEW v \in Waiters, NEW k \in Kinds, Wait(v, k) PROVE FALSE
    BY <1>1, <2>0, <2>3 DEF Wait, TypeOK
  <2>4. (\E v \in Waiters : (\E k \in Kinds : Wait(v, k)) \/ Deliver(v)) \/ UNCHANGED result
    BY <1>1 DEF Next, vars, waiterVars, Ready, ReadyReturns, Done, DoneGoesOn,
       DoneReturns, Destroy, DestroyGoesOn, DestroyReturns, Reset
  <2> QED
    BY <1>1, <2>2, <2>3, <2>4
<1>2. StateInv /\ [Next]_vars =>
        [\A w \in Waiters : Rejects(w) => onReady[w] \notin byReady \/ Overtaken(w)]_vars
  BY <1>1
<1> QED
  BY <1>2, StateInit, StateStep, PTL DEF Spec, EndMeansDoneFirst
=============================================================================
