-------------------------- MODULE PromiseChainProofs --------------------------
(***************************************************************************)
(* Proofs about Then, Catch and Finally, for every number of stages, every *)
(* set of forms and every number of threads that attach them.              *)
(***************************************************************************)
EXTENDS PromiseChain, SequenceTheorems, WellFoundedInduction, TLAPS

(* What the branches of Then, Catch and Finally have to agree on: when the
   function is called, and what the stage settles with when it has ended. *)
Due(f, o) ==
    \/ f.op = "then" /\ o.ok
    \/ f.op = "catch" /\ ~o.ok /\ f.matches
    \/ f.op = "finally"

Result(i, f, o) ==
    IF f.throws THEN Exception(i)
    ELSE IF f.op = "finally" THEN o
    ELSE Value(i)

(* A stage is attached to a promise that was there before it, and runs only
   when that one has settled. *)
TreeInv ==
    /\ \A i \in Stages : IF pc[i] = "none" THEN parent[i] = Nobody
                         ELSE parent[i] \in 0 .. i - 1 /\ form[i] \in Forms
    /\ \A i \in Stages :
          pc[i] \in {"calling", "suspended", "settled"} => IsDone(parent[i])

(* What a stage has done, by where it is: its outcome follows from the one of
   the promise it is attached to. *)
Explained(i) ==
    LET o == out[parent[i]] IN
    /\ pc[i] \in {"none", "waiting"} => runs[i] = 0
    /\ pc[i] \in {"calling", "suspended"} => runs[i] = 1 /\ Due(form[i], o)
    /\ pc[i] = "settled" =>
          \/ runs[i] = 1 /\ Due(form[i], o) /\ out[i] = Result(i, form[i], o)
          \/ runs[i] = 0 /\ ~Due(form[i], o) /\ out[i] = o

StageInv ==
    /\ \A i \in Stages : Explained(i)
    /\ IsDone(0) => out[0] \in {Value(0), Exception(0)}

(* s lists, once each, stages that wait for promise p. *)
Waiting(s, p) ==
    /\ \A i \in Range(s) : pc[i] = "waiting" /\ parent[i] = p
    /\ IsInjective(s)

AwaitersInv ==
    \A p \in Promises : Waiting(awaiters[p], p) /\ (IsDone(p) => awaiters[p] = <<>>)

(* The calls that are under way. *)
FrameOK(f) ==
    /\ f.in = "fire" => IsDone(f.of) /\ Waiting(f.batch, f.of)
    /\ f.in = "call" => f.of \in Stages /\ pc[f.of] = "calling"
    /\ f.in = "attach" => f.of \in Stages /\ pc[f.of] # "none"

Same(f, g) == f.in # "attach" /\ f.in = g.in /\ f.of = g.of

Distinct(s) == \A j, k \in 1 .. Len(s) : Same(s[j], s[k]) => j = k

(* A promise calls its callbacks, and a stage its function, in one place. *)
Unique(st) ==
    /\ \A t \in Threads : Distinct(st[t])
    /\ \A t, u \in Threads : t # u =>
          \A f \in Range(st[t]), g \in Range(st[u]) : ~Same(f, g)

StackInv ==
    /\ \A t \in Threads : \A f \in Range(stack[t]) : FrameOK(f)
    /\ Unique(stack)
    /\ \A t \in Promises : ~IsDone(t) => stack[t] = <<>>

(* A stage that waits is where somebody will find it. *)
FoundIn(st, i) ==
    \E t \in Threads : \E f \in Range(st[t]) :
        f.in = "fire" /\ f.of = parent[i] /\ i \in Range(f.batch)

FoundInv ==
    \A i \in Stages : pc[i] = "waiting" =>
        IF IsDone(parent[i]) THEN FoundIn(stack, i)
                             ELSE i \in Range(awaiters[parent[i]])

Inv == TypeOK /\ TreeInv /\ StageInv /\ AwaitersInv /\ StackInv /\ FoundInv

------------------------------------------------------------------------------
(* Facts about the constants, and about sequences. *)

LEMMA Numbers ==
    /\ N \in Nat /\ 0 \in Promises /\ 0 \notin Stages /\ Stages \subseteq Promises
    /\ Promises = Stages \union {0} /\ Nobody \notin Promises
    /\ Promises \subseteq Threads /\ Promises \subseteq Nat
    /\ Users \subseteq Threads /\ \A t \in Threads : t \in Users <=> t \notin Promises
<1>1. N \in Nat /\ N # 0 /\ Users \intersect (0 .. N) = {}
  BY ChainAssumption
<1> QED
  BY <1>1 DEF Promises, Stages, Threads, Nobody

LEMMA OutcomeFacts ==
    /\ \A i \in Promises :
          /\ Value(i) \in [ok : BOOLEAN, by : Promises] /\ Value(i) # Pending
          /\ Exception(i) \in [ok : BOOLEAN, by : Promises] /\ Exception(i) # Pending
          /\ Value(i).ok /\ Value(i).by = i /\ ~Exception(i).ok /\ Exception(i).by = i
    /\ Pending \notin [ok : BOOLEAN, by : Promises]
<1>1. Nobody \notin Promises
  BY Numbers
<1> QED
  BY <1>1 DEF Value, Exception, Pending

LEMMA PushFacts ==
    ASSUME NEW S, NEW s \in Seq(S), NEW e \in S
    PROVE  /\ <<e>> \o s \in Seq(S)
           /\ Range(<<e>> \o s) = {e} \union Range(s)
           /\ Distinct(<<e>> \o s) <=>
                 Distinct(s) /\ \A f \in Range(s) : ~Same(e, f)
<1> DEFINE t == <<e>> \o s
<1>1. <<e>> \in Seq(S) /\ Len(<<e>>) = 1 /\ <<e>>[1] = e /\ Len(s) \in Nat
  OBVIOUS
<1>2. /\ t \in Seq(S) /\ Len(t) = 1 + Len(s)
      /\ \A k \in 1 .. 1 + Len(s) : t[k] = IF k <= 1 THEN <<e>>[k] ELSE s[k - 1]
  BY <1>1, ConcatProperties
<1> HIDE DEF t
<1>3. t[1] = e
  BY <1>1, <1>2
<1>4. \A k \in 1 .. Len(s) : k + 1 \in 1 .. Len(t) /\ t[k + 1] = s[k] /\ k + 1 # 1
  <2> TAKE k \in 1 .. Len(s)
  <2>1. k + 1 \in 1 .. 1 + Len(s) /\ ~(k + 1 <= 1) /\ (k + 1) - 1 = k /\ k + 1 # 1
    BY <1>1
  <2> QED
    BY <1>2, <2>1
<1>5. \A k \in 1 .. Len(t) :
         k # 1 => k - 1 \in 1 .. Len(s) /\ t[k] = s[k - 1] /\ k = (k - 1) + 1
  BY <1>1, <1>2
<1>6. DOMAIN t = 1 .. Len(t) /\ DOMAIN s = 1 .. Len(s) /\ 1 \in 1 .. Len(t)
  BY <1>1, <1>2
<1>7. Range(t) = {e} \union Range(s)
  <2>1. Range(t) \subseteq {e} \union Range(s)
    BY <1>3, <1>5, <1>6 DEF Range
  <2>2. e \in Range(t)
    BY <1>3, <1>6 DEF Range
  <2>3. Range(s) \subseteq Range(t)
    BY <1>4, <1>6 DEF Range
  <2> QED
    BY <2>1, <2>2, <2>3
<1>8. ASSUME Distinct(t) PROVE Distinct(s) /\ \A f \in Range(s) : ~Same(e, f)
  <2>1. Distinct(s)
    <3>1. \A j, k \in 1 .. Len(s) : j + 1 = k + 1 => j = k
      OBVIOUS
    <3> QED
      BY <1>4, <1>8, <3>1 DEF Distinct
  <2>2. \A f \in Range(s) : ~Same(e, f)
    BY <1>3, <1>4, <1>6, <1>8 DEF Distinct, Range
  <2> QED
    BY <2>1, <2>2
<1>9. ASSUME Distinct(s), \A f \in Range(s) : ~Same(e, f) PROVE Distinct(t)
  <2> SUFFICES ASSUME NEW j \in 1 .. Len(t), NEW k \in 1 .. Len(t), Same(t[j], t[k])
               PROVE  j = k
    BY DEF Distinct
  <2>1. \A m \in 1 .. Len(s) : s[m] \in Range(s)
    BY <1>6 DEF Range
  <2>2. CASE j = 1 /\ k # 1
    BY <1>3, <1>5, <1>9, <2>1, <2>2
  <2>3. CASE j # 1 /\ k = 1
    BY <1>3, <1>5, <1>9, <2>1, <2>3 DEF Same
  <2>4. CASE j # 1 /\ k # 1
    BY <1>5, <1>9, <2>4 DEF Distinct
  <2> QED
    BY <2>2, <2>3, <2>4
<1> QED
  BY <1>2, <1>7, <1>8, <1>9 DEF t

LEMMA PopFacts ==
    ASSUME NEW S, NEW s \in Seq(S), s # <<>>
    PROVE  /\ Head(s) \in S /\ Tail(s) \in Seq(S)
           /\ Range(s) = {Head(s)} \union Range(Tail(s))
           /\ Distinct(s) => /\ Distinct(Tail(s))
                             /\ \A f \in Range(Tail(s)) : ~Same(Head(s), f)
<1>1. Head(s) \in S /\ Tail(s) \in Seq(S)
  OBVIOUS
<1>2. s = <<Head(s)>> \o Tail(s)
  <2>1. /\ <<Head(s)>> \in Seq(S) /\ Len(<<Head(s)>>) = 1 /\ <<Head(s)>>[1] = Head(s)
        /\ Len(s) \in Nat /\ Len(s) # 0 /\ Len(Tail(s)) = Len(s) - 1 /\ Head(s) = s[1]
        /\ \A k \in 1 .. Len(s) - 1 : Tail(s)[k] = s[k + 1]
    OBVIOUS
  <2> DEFINE t == <<Head(s)>> \o Tail(s)
  <2>2. /\ t \in Seq(S) /\ Len(t) = 1 + Len(Tail(s))
        /\ \A k \in 1 .. 1 + Len(Tail(s)) :
              t[k] = IF k <= 1 THEN <<Head(s)>>[k] ELSE Tail(s)[k - 1]
    BY <1>1, <2>1, ConcatProperties
  <2> HIDE DEF t
  <2>3. Len(t) = Len(s)
    BY <2>1, <2>2
  <2>4. \A k \in 1 .. Len(s) : t[k] = s[k]
    <3> TAKE k \in 1 .. Len(s)
    <3>1. CASE k = 1
      BY <2>1, <2>2, <3>1
    <3>2. CASE k # 1
      <4>1. ~(k <= 1) /\ k - 1 \in 1 .. Len(s) - 1 /\ (k - 1) + 1 = k
            /\ k \in 1 .. 1 + Len(Tail(s))
        BY <2>1, <3>2
      <4> QED
        BY <2>1, <2>2, <4>1
    <3> QED
      BY <3>1, <3>2
  <2> QED
    BY <2>2, <2>3, <2>4, SeqEqual DEF t
<1> QED
  BY <1>1, <1>2, PushFacts

(* A list of stages from which the first is called, or to which one is added. *)
LEMMA BatchFacts ==
    ASSUME NEW S, NEW s \in Seq(S)
    PROVE  /\ s # <<>> /\ IsInjective(s) =>
                 IsInjective(Tail(s)) /\ Head(s) \notin Range(Tail(s))
           /\ \A x \in S : /\ Append(s, x) \in Seq(S)
                           /\ Range(Append(s, x)) = Range(s) \union {x}
                           /\ IsInjective(s) /\ x \notin Range(s) =>
                                 IsInjective(Append(s, x))
           /\ <<>> \in Seq(S) /\ Range(<<>>) = {} /\ IsInjective(<<>>)
<1>1. ASSUME s # <<>>, IsInjective(s)
      PROVE  IsInjective(Tail(s)) /\ Head(s) \notin Range(Tail(s))
  <2>1. /\ Tail(s) \in Seq(S) /\ Len(Tail(s)) = Len(s) - 1
        /\ \A i \in 1 .. Len(Tail(s)) : Tail(s)[i] = s[i + 1]
        /\ Len(s) \in Nat /\ Len(s) # 0 /\ Head(s) = s[1]
    BY <1>1
  <2>2. DOMAIN Tail(s) = 1 .. Len(Tail(s)) /\ DOMAIN s = 1 .. Len(s)
    BY <2>1
  <2>3. /\ 1 \in 1 .. Len(s)
        /\ \A i \in 1 .. Len(Tail(s)) : i + 1 \in 1 .. Len(s) /\ i + 1 # 1
        /\ \A i, j \in 1 .. Len(Tail(s)) : i + 1 = j + 1 => i = j
    BY <2>1
  <2>4. IsInjective(Tail(s))
    BY <1>1, <2>1, <2>2, <2>3 DEF IsInjective
  <2>5. Head(s) \notin Range(Tail(s))
    BY <1>1, <2>1, <2>2, <2>3 DEF IsInjective, Range
  <2> QED
    BY <2>4, <2>5
<1>2. ASSUME NEW x \in S
      PROVE  /\ Append(s, x) \in Seq(S)
             /\ Range(Append(s, x)) = Range(s) \union {x}
             /\ IsInjective(s) /\ x \notin Range(s) => IsInjective(Append(s, x))
  <2> DEFINE t == Append(s, x)
  <2>1. /\ t \in Seq(S) /\ Len(t) = Len(s) + 1 /\ t[Len(s) + 1] = x
        /\ \A i \in 1 .. Len(s) : t[i] = s[i]
        /\ Len(s) \in Nat
    OBVIOUS
  <2>2. DOMAIN t = 1 .. Len(s) + 1 /\ DOMAIN s = 1 .. Len(s)
    BY <2>1
  <2> HIDE DEF t
  <2>3. /\ \A i \in 1 .. Len(s) + 1 : i \in 1 .. Len(s) \/ i = Len(s) + 1
        /\ \A i \in 1 .. Len(s) : i \in 1 .. Len(s) + 1
        /\ Len(s) + 1 \in 1 .. Len(s) + 1
    BY <2>1
  <2>4. Range(t) \subseteq Range(s) \union {x}
    BY <2>1, <2>2, <2>3 DEF Range
  <2>5. x \in Range(t) /\ Range(s) \subseteq Range(t)
    BY <2>1, <2>2, <2>3 DEF Range
  <2>6. IsInjective(s) /\ x \notin Range(s) => IsInjective(t)
    BY <2>1, <2>2, <2>3 DEF IsInjective, Range
  <2> QED
    BY <2>1, <2>4, <2>5, <2>6 DEF t
<1>3. <<>> \in Seq(S) /\ Range(<<>>) = {} /\ IsInjective(<<>>)
  BY DEF Range, IsInjective
<1> QED
  BY <1>1, <1>2, <1>3

(* A call is added to, or taken from, the stack of one thread. *)
LEMMA UniquePush ==
    ASSUME NEW st \in [Threads -> Seq(Calls)], Unique(st), NEW t \in Threads,
           NEW f \in Calls,
           \A u \in Threads : \A g \in Range(st[u]) : ~Same(f, g)
    PROVE  Unique([st EXCEPT ![t] = <<f>> \o @])
<1> DEFINE new == [st EXCEPT ![t] = <<f>> \o @]
<1>1. \A u \in Threads : u # t => new[u] = st[u]
  OBVIOUS
<1>2. new[t] = <<f>> \o st[t]
  OBVIOUS
<1> HIDE DEF new
<1>3. st[t] \in Seq(Calls)
  OBVIOUS
<1>4. Range(new[t]) = {f} \union Range(st[t]) /\ Distinct(new[t])
  BY <1>2, <1>3, PushFacts DEF Unique
<1>5. \A g : Same(g, f) => Same(f, g)
  BY DEF Same
<1>6. Unique(new)
  BY <1>1, <1>4, <1>5 DEF Unique
<1> QED
  BY <1>6 DEF new

LEMMA UniquePop ==
    ASSUME NEW st \in [Threads -> Seq(Calls)], Unique(st), NEW t \in Threads,
           st[t] # <<>>
    PROVE  LET new == [st EXCEPT ![t] = Tail(@)] IN
           /\ Unique(new)
           /\ \A u \in Threads : \A g \in Range(new[u]) : ~Same(Head(st[t]), g)
           /\ \A u \in Threads : Range(new[u]) \subseteq Range(st[u])
           /\ \A u \in Threads : \A g \in Range(st[u]) :
                 g \in Range(new[u]) \/ (u = t /\ g = Head(st[t]))
<1> DEFINE new == [st EXCEPT ![t] = Tail(@)]
<1>1. \A u \in Threads : u # t => new[u] = st[u]
  OBVIOUS
<1>2. new[t] = Tail(st[t])
  OBVIOUS
<1> HIDE DEF new
<1>3. st[t] \in Seq(Calls) /\ Distinct(st[t])
  BY DEF Unique
<1>4. /\ Range(st[t]) = {Head(st[t])} \union Range(new[t]) /\ Distinct(new[t])
      /\ \A g \in Range(new[t]) : ~Same(Head(st[t]), g)
  BY <1>2, <1>3, PopFacts
<1>5. Unique(new)
  BY <1>1, <1>4 DEF Unique
<1>6. \A u \in Threads : \A g \in Range(new[u]) : ~Same(Head(st[t]), g)
  BY <1>1, <1>4 DEF Unique
<1> QED
  BY <1>1, <1>4, <1>5, <1>6 DEF new

------------------------------------------------------------------------------
(* The types. *)

Outcomes == [ok : BOOLEAN, by : Promises]

LEMMA CallFacts ==
    /\ \A p \in Promises, b \in Seq(Stages) :
          /\ Firing(p, b) \in Calls /\ Firing(p, b).in = "fire"
          /\ Firing(p, b).of = p /\ Firing(p, b).batch = b
    /\ \A i \in Stages, lock \in BOOLEAN :
          /\ Calling(i, lock) \in Calls /\ Calling(i, lock).in = "call"
          /\ Calling(i, lock).of = i /\ Calling(i, lock).batch = <<>>
    /\ \A i \in Stages :
          /\ Attaching(i) \in Calls /\ Attaching(i).in = "attach"
          /\ Attaching(i).of = i /\ Attaching(i).batch = <<>>
<1>1. <<>> \in Seq(Stages)
  OBVIOUS
<1> QED
  BY <1>1, Numbers DEF Calls, Firing, Calling, Attaching

LEMMA TopFacts ==
    ASSUME TypeOK, StackInv, NEW t \in Threads, NEW in, Top(t, in)
    PROVE  /\ stack[t] \in Seq(Calls) /\ stack[t] # <<>>
           /\ Head(stack[t]) \in Calls /\ Head(stack[t]).in = in
           /\ Head(stack[t]).of \in Promises /\ Head(stack[t]).batch \in Seq(Stages)
           /\ FrameOK(Head(stack[t])) /\ Head(stack[t]) \in Range(stack[t])
           /\ Tail(stack[t]) \in Seq(Calls)
<1>1. stack[t] \in Seq(Calls) /\ stack[t] # <<>> /\ Head(stack[t]).in = in
  BY DEF TypeOK, Top, Idle
<1>2. /\ Head(stack[t]) \in Calls /\ Tail(stack[t]) \in Seq(Calls)
      /\ Head(stack[t]) \in Range(stack[t])
  BY <1>1, PopFacts
<1>3. Head(stack[t]).of \in Promises /\ Head(stack[t]).batch \in Seq(Stages)
  BY <1>2 DEF Calls
<1>4. FrameOK(Head(stack[t]))
  BY <1>2 DEF StackInv
<1> QED
  BY <1>1, <1>2, <1>3, <1>4

LEMMA CallTop ==
    ASSUME TypeOK, StackInv, NEW t \in Threads, Top(t, "call")
    PROVE  /\ Head(stack[t]).of \in Stages /\ pc[Head(stack[t]).of] = "calling"
           /\ Tail(stack[t]) \in Seq(Calls)
<1>1. /\ Head(stack[t]).in = "call" /\ FrameOK(Head(stack[t]))
      /\ Tail(stack[t]) \in Seq(Calls)
  BY TopFacts
<1> QED
  BY <1>1 DEF FrameOK

(* The two branches of each operation agree, though they are written apart. *)
LEMMA NowFacts ==
    ASSUME NEW f \in AllForms, NEW o \in Outcomes, NEW void \in BOOLEAN
    PROVE  /\ Now(f, o, void).runs \in BOOLEAN /\ Now(f, o, void).lock \in BOOLEAN
           /\ Now(f, o, void).runs <=> Due(f, o)
           /\ ~Now(f, o, void).runs => Now(f, o, void).out = o
<1>1. /\ f.op \in {"then", "catch", "finally"} /\ f.async \in BOOLEAN
      /\ f.matches \in BOOLEAN /\ o.ok \in BOOLEAN
  BY DEF AllForms, Outcomes
<1>2. \A lock \in BOOLEAN : Run(lock).runs = TRUE /\ Run(lock).lock = lock
  BY DEF Run
<1>3. Pass(o).runs = FALSE /\ Pass(o).lock = FALSE /\ Pass(o).out = o
  BY DEF Pass
<1>0. "then" # "catch" /\ "then" # "finally" /\ "catch" # "finally"
  OBVIOUS
<1>4. CASE f.op = "then"
  <2>1. Now(f, o, void) = ThenNow(f, o, void)
    BY <1>0, <1>4, Zenon DEF Now
  <2>2. (f.async /\ void) \in BOOLEAN
    BY <1>1
  <2>3. Due(f, o) <=> o.ok
    BY <1>4 DEF Due
  <2> QED
    BY <1>1, <1>2, <1>3, <2>1, <2>2, <2>3 DEF ThenNow
<1>5. CASE f.op = "catch"
  <2>1. Now(f, o, void) = CatchNow(f, o)
    BY <1>0, <1>5, Zenon DEF Now
  <2>3. Due(f, o) <=> ~o.ok /\ f.matches
    BY <1>5 DEF Due
  <2> QED
    BY <1>1, <1>2, <1>3, <2>1, <2>3 DEF CatchNow
<1>6. CASE f.op = "finally"
  <2>1. Now(f, o, void) = FinallyNow(f, o, void)
    BY <1>0, <1>6, Zenon DEF Now
  <2>2. (o.ok /\ void) \in BOOLEAN
    BY <1>1
  <2>3. Due(f, o)
    BY <1>6 DEF Due
  <2> QED
    BY <1>2, <2>1, <2>2, <2>3 DEF FinallyNow
<1> QED
  BY <1>1, <1>4, <1>5, <1>6

LEMMA LaterFacts ==
    ASSUME NEW f \in AllForms, NEW o \in Outcomes
    PROVE  /\ Later(f, o).runs \in BOOLEAN /\ Later(f, o).lock \in BOOLEAN
           /\ Later(f, o).runs <=> Due(f, o)
           /\ ~Later(f, o).runs => Later(f, o).out = o
<1>1. /\ f.op \in {"then", "catch", "finally"}
      /\ f.matches \in BOOLEAN /\ o.ok \in BOOLEAN
  BY DEF AllForms, Outcomes
<1>2. Run(FALSE).runs = TRUE /\ Run(FALSE).lock = FALSE
  BY DEF Run
<1>3. Pass(o).runs = FALSE /\ Pass(o).lock = FALSE /\ Pass(o).out = o
  BY DEF Pass
<1>0. "then" # "catch" /\ "then" # "finally" /\ "catch" # "finally"
  OBVIOUS
<1>4. CASE f.op = "then"
  <2>1. Later(f, o) = ThenLater(f, o)
    BY <1>0, <1>4, Zenon DEF Later
  <2>2. Due(f, o) <=> o.ok
    BY <1>4 DEF Due
  <2> QED
    BY <1>1, <1>2, <1>3, <2>1, <2>2 DEF ThenLater
<1>5. CASE f.op = "catch"
  <2>1. Later(f, o) = CatchLater(f, o)
    BY <1>0, <1>5, Zenon DEF Later
  <2>2. Due(f, o) <=> ~o.ok /\ f.matches
    BY <1>5 DEF Due
  <2> QED
    BY <1>1, <1>2, <1>3, <2>1, <2>2 DEF CatchLater
<1>6. CASE f.op = "finally"
  <2>1. Later(f, o) = FinallyLater(f, o)
    BY <1>0, <1>6, Zenon DEF Later
  <2>2. Due(f, o)
    BY <1>6 DEF Due
  <2> QED
    BY <1>2, <2>1, <2>2 DEF FinallyLater
<1> QED
  BY <1>1, <1>4, <1>5, <1>6

LEMMA ResultOfFacts ==
    ASSUME NEW i, NEW f \in AllForms, NEW o, NEW now
    PROVE  ResultOf(i, f, o, now) = Result(i, f, o)
<1>1. f.op \in {"then", "catch", "finally"}
  BY DEF AllForms
<1>0. "then" # "catch" /\ "then" # "finally" /\ "catch" # "finally"
  OBVIOUS
<1>2. CASE f.op = "then"
  <2>1. ResultOf(i, f, o, now)
          = IF now THEN ThenResultNow(i, f) ELSE ThenResultLater(i, f)
    BY <1>0, <1>2, Zenon DEF ResultOf
  <2> QED
    BY <1>0, <1>2, <2>1 DEF ThenResultNow, ThenResultLater, Result
<1>3. CASE f.op = "catch"
  <2>1. ResultOf(i, f, o, now)
          = IF now THEN CatchResultNow(i, f) ELSE CatchResultLater(i, f)
    BY <1>0, <1>3, Zenon DEF ResultOf
  <2> QED
    BY <1>0, <1>3, <2>1 DEF CatchResultNow, CatchResultLater, Result
<1>4. CASE f.op = "finally"
  <2>1. ResultOf(i, f, o, now) = FinallyResult(i, f, o)
    BY <1>0, <1>4, Zenon DEF ResultOf
  <2> QED
    BY <1>4, <2>1 DEF FinallyResult, Result
<1> QED
  BY <1>1, <1>2, <1>3, <1>4

LEMMA ResultHere ==
    ASSUME TreeInv, NEW i \in Stages, pc[i] # "none"
    PROVE  ResultOf(i, form[i], out[parent[i]], i \in eager)
             = Result(i, form[i], out[parent[i]])
<1>1. form[i] \in AllForms
  BY ChainAssumption DEF TreeInv
<1> QED
  BY <1>1, ResultOfFacts

LEMMA ResultFacts ==
    ASSUME NEW i \in Stages, NEW f \in AllForms, NEW o \in Outcomes
    PROVE  Result(i, f, o) \in Outcomes
<1>1. f.throws \in BOOLEAN
  BY DEF AllForms
<1> QED
  BY <1>1, Numbers, OutcomeFacts DEF Result, Outcomes

LEMMA SettleTypes ==
    ASSUME TypeOK, NEW t \in Threads, NEW p \in Promises, NEW o \in Outcomes,
           NEW rest \in Seq(Calls), Settle(t, p, o, rest)
    PROVE  /\ out' \in [Promises -> Outcomes \union {Pending}]
           /\ awaiters' \in [Promises -> Seq(Stages)]
           /\ selfOwned' \in [Promises -> BOOLEAN]
           /\ stack' \in [Threads -> Seq(Calls)]
           /\ out'[p] = o /\ o # Pending /\ \A q \in Promises : q # p => out'[q] = out[q]
<1>1. out \in [Promises -> Outcomes \union {Pending}]
  BY DEF TypeOK, Outcomes
<1>2. o # Pending
  BY OutcomeFacts DEF Outcomes
<1>3. awaiters' \in [Promises -> Seq(Stages)] /\ selfOwned' \in [Promises -> BOOLEAN]
  BY DEF TypeOK, Settle
<1>4. <<Firing(p, awaiters[p])>> \o rest \in Seq(Calls)
  <2>1. Firing(p, awaiters[p]) \in Calls
    BY CallFacts DEF TypeOK
  <2> QED
    BY <2>1, PushFacts
<1>5. stack' \in [Threads -> Seq(Calls)]
  BY <1>4 DEF TypeOK, Settle
<1> QED
  BY <1>1, <1>2, <1>3, <1>5 DEF Settle

LEMMA EnterTypes ==
    ASSUME TypeOK, NEW t \in Threads, NEW i \in Stages, pc[i] # "settled",
           NEW b, b.lock \in BOOLEAN, ~b.runs => b.out \in Outcomes,
           NEW rest \in Seq(Calls), Enter(t, i, b, rest)
    PROVE  /\ out' \in [Promises -> Outcomes \union {Pending}]
           /\ awaiters' \in [Promises -> Seq(Stages)]
           /\ selfOwned' \in [Promises -> BOOLEAN]
           /\ stack' \in [Threads -> Seq(Calls)]
           /\ pc' \in [Stages -> {"none", "waiting", "calling", "suspended", "settled"}]
           /\ runs' \in [Stages -> Nat]
           /\ \A j \in Stages : pc'[j] = "settled" <=> out'[j] # Pending
<1>0. /\ out \in [Promises -> Outcomes \union {Pending}] /\ runs \in [Stages -> Nat]
      /\ pc \in [Stages -> {"none", "waiting", "calling", "suspended", "settled"}]
      /\ \A j \in Stages : pc[j] = "settled" <=> out[j] # Pending
  BY DEF TypeOK, Outcomes, IsDone
<1>1. CASE b.runs
  <2>1. /\ pc' = [pc EXCEPT ![i] = "calling"]
        /\ runs' = [runs EXCEPT ![i] = @ + 1]
        /\ stack' = [stack EXCEPT ![t] = <<Calling(i, b.lock)>> \o rest]
        /\ UNCHANGED <<out, awaiters, selfOwned>>
    BY <1>1 DEF Enter
  <2>2. <<Calling(i, b.lock)>> \o rest \in Seq(Calls)
    BY CallFacts, PushFacts
  <2>3. stack' \in [Threads -> Seq(Calls)]
    BY <2>1, <2>2 DEF TypeOK
  <2>4. runs' \in [Stages -> Nat]
    BY <1>0, <2>1
  <2>5. /\ pc' \in [Stages -> {"none", "waiting", "calling", "suspended", "settled"}]
        /\ \A j \in Stages : pc'[j] = "settled" <=> out'[j] # Pending
    BY <1>0, <2>1
  <2> QED
    BY <1>0, <2>1, <2>3, <2>4, <2>5 DEF TypeOK
<1>2. CASE ~b.runs
  <2>o. PICK o \in Outcomes : o = b.out
    BY <1>2
  <2>1. pc' = [pc EXCEPT ![i] = "settled"] /\ Settle(t, i, o, rest) /\ runs' = runs
    BY <1>2, <2>o DEF Enter
  <2>2. /\ out' \in [Promises -> Outcomes \union {Pending}]
        /\ awaiters' \in [Promises -> Seq(Stages)]
        /\ selfOwned' \in [Promises -> BOOLEAN]
        /\ stack' \in [Threads -> Seq(Calls)]
        /\ out'[i] = o /\ o # Pending /\ \A q \in Promises : q # i => out'[q] = out[q]
    BY <2>1, SettleTypes, Numbers
  <2>3. /\ pc' \in [Stages -> {"none", "waiting", "calling", "suspended", "settled"}]
        /\ \A j \in Stages : pc'[j] = "settled" <=> out'[j] # Pending
    BY <1>0, <2>1, <2>2, Numbers
  <2> QED
    BY <1>0, <2>1, <2>2, <2>3
<1> QED
  BY <1>1, <1>2

LEMMA AttachTypes ==
    ASSUME TypeOK, NEW t \in Threads, NEW i \in Stages, NEW p \in Promises, NEW f \in Forms,
           pc[i] = "none", p < i, Attach(t, i, p, f)
    PROVE  TypeOK'
<1>0. f \in AllForms
  BY ChainAssumption
<1>1. /\ parent' \in [Stages -> Promises \union {Nobody}]
      /\ form' \in [Stages -> AllForms \union {NoForm}]
  BY <1>0 DEF TypeOK, Attach
<1>2. isVoid' \in [Promises -> BOOLEAN]
  <2>1. ReturnsVoid(f, isVoid[p]) \in BOOLEAN
    <3>1. /\ f.op \in {"then", "catch", "finally"} /\ f.void \in BOOLEAN
          /\ isVoid[p] \in BOOLEAN
      BY <1>0 DEF AllForms, TypeOK
    <3>2. (f.void /\ isVoid[p]) \in BOOLEAN
      BY <3>1
    <3> QED
      BY <3>1, <3>2 DEF ReturnsVoid
  <2> QED
    BY <2>1 DEF TypeOK, Attach
<1>3. held' \in [Promises -> BOOLEAN]
  <2>1. (~f.rvalue) \in BOOLEAN
    BY <1>0 DEF AllForms
  <2> QED
    BY <2>1 DEF TypeOK, Attach
<1> DEFINE rest == <<Attaching(i)>> \o stack[t]
<1>4. rest \in Seq(Calls)
  BY CallFacts, PushFacts DEF TypeOK
<1>5. CASE IsDone(p)
  <2> DEFINE b == Now(f, out[p], isVoid[p])
  <2>1. Enter(t, i, b, rest) /\ eager' \subseteq eager \union {i}
    BY <1>5 DEF Attach
  <2>2. out[p] \in Outcomes /\ isVoid[p] \in BOOLEAN
    BY <1>5 DEF TypeOK, Outcomes, IsDone
  <2>3. b.lock \in BOOLEAN /\ (~b.runs => b.out \in Outcomes)
    BY <1>0, <2>2, NowFacts
  <2>5. eager' \subseteq Stages
    BY <2>1 DEF TypeOK
  <2> HIDE DEF b
  <2> HIDE DEF rest
  <2>4. /\ out' \in [Promises -> Outcomes \union {Pending}]
        /\ awaiters' \in [Promises -> Seq(Stages)]
        /\ selfOwned' \in [Promises -> BOOLEAN]
        /\ stack' \in [Threads -> Seq(Calls)]
        /\ pc' \in [Stages -> {"none", "waiting", "calling", "suspended", "settled"}]
        /\ runs' \in [Stages -> Nat]
        /\ \A j \in Stages : pc'[j] = "settled" <=> out'[j] # Pending
    BY <1>4, <2>1, <2>2, <2>3, EnterTypes
  <2> QED
    BY <1>1, <1>2, <1>3, <2>4, <2>5 DEF TypeOK, Outcomes, IsDone
<1>6. CASE ~IsDone(p)
  <2>1. /\ awaiters' = [awaiters EXCEPT ![p] = Append(@, i)]
        /\ pc' = [pc EXCEPT ![i] = "waiting"]
        /\ stack' = [stack EXCEPT ![t] = rest]
        /\ UNCHANGED <<out, selfOwned, runs, eager>>
    BY <1>6 DEF Attach
  <2> HIDE DEF rest
  <2>2. awaiters' \in [Promises -> Seq(Stages)]
    <3>1. Append(awaiters[p], i) \in Seq(Stages)
      BY BatchFacts DEF TypeOK
    <3> QED
      BY <2>1, <3>1 DEF TypeOK
  <2>3. stack' \in [Threads -> Seq(Calls)]
    BY <1>4, <2>1 DEF TypeOK
  <2>4. /\ pc' \in [Stages -> {"none", "waiting", "calling", "suspended", "settled"}]
        /\ \A j \in Stages : pc'[j] = "settled" <=> pc[j] = "settled"
    BY <2>1 DEF TypeOK
  <2> QED
    BY <1>1, <1>2, <1>3, <2>1, <2>2, <2>3, <2>4 DEF TypeOK, IsDone
<1> QED
  BY <1>5, <1>6

(* A stage whose function ends has a promise to settle. *)
LEMMA EndTypes ==
    ASSUME TypeOK, TreeInv, NEW t \in Threads, NEW i \in Stages,
           pc[i] \in {"calling", "suspended"}, NEW rest \in Seq(Calls),
           pc' = [pc EXCEPT ![i] = "settled"],
           Settle(t, i, Result(i, form[i], out[parent[i]]), rest),
           UNCHANGED <<stageVars, held, runs>>, eager' = eager \ {i}
    PROVE  /\ TypeOK'
           /\ Result(i, form[i], out[parent[i]]) \in Outcomes
<1>1. form[i] \in AllForms /\ parent[i] \in Promises
  <2>1. pc[i] # "none" /\ i \in 1 .. N
    BY DEF Stages
  <2>2. form[i] \in Forms /\ parent[i] \in 0 .. i - 1
    BY <2>1 DEF TreeInv
  <2> QED
    BY <2>1, <2>2, ChainAssumption DEF Promises
<1>2. out[parent[i]] \in Outcomes
  BY <1>1 DEF TreeInv, TypeOK, Outcomes, IsDone
<1>3. Result(i, form[i], out[parent[i]]) \in Outcomes
  BY <1>1, <1>2, ResultFacts
<1>o. PICK o \in Outcomes : o = Result(i, form[i], out[parent[i]])
  BY <1>3
<1>4. Settle(t, i, o, rest)
  BY <1>o
<1>5. /\ out' \in [Promises -> Outcomes \union {Pending}]
      /\ awaiters' \in [Promises -> Seq(Stages)]
      /\ selfOwned' \in [Promises -> BOOLEAN]
      /\ stack' \in [Threads -> Seq(Calls)]
      /\ out'[i] = o /\ o # Pending /\ \A q \in Promises : q # i => out'[q] = out[q]
  <2>1. i \in Promises
    BY Numbers
  <2> QED
    BY <1>4, <2>1, SettleTypes
<1>6. /\ pc' \in [Stages -> {"none", "waiting", "calling", "suspended", "settled"}]
      /\ \A j \in Stages : pc'[j] = "settled" <=> out'[j] # Pending
  BY <1>5, Numbers DEF TypeOK, IsDone
<1> QED
  BY <1>3, <1>5, <1>6 DEF TypeOK, Outcomes, stageVars, IsDone

LEMMA TypeStep ==
    ASSUME TypeOK, TreeInv, StackInv, Next
    PROVE  TypeOK'
<1>1. ASSUME NEW o \in {Value(0), Exception(0)}, SettleRoot(o) PROVE TypeOK'
  <2>1. o \in Outcomes
    BY Numbers, OutcomeFacts DEF Outcomes
  <2>2. <<>> \in Seq(Calls)
    OBVIOUS
  <2>3. /\ out' \in [Promises -> Outcomes \union {Pending}]
        /\ awaiters' \in [Promises -> Seq(Stages)]
        /\ selfOwned' \in [Promises -> BOOLEAN]
        /\ stack' \in [Threads -> Seq(Calls)]
        /\ \A q \in Promises : q # 0 => out'[q] = out[q]
    BY <1>1, <2>1, <2>2, SettleTypes, Numbers DEF SettleRoot
  <2>4. pc' = pc /\ UNCHANGED <<stageVars, held, runs, eager>>
    BY <1>1 DEF SettleRoot
  <2>5. \A j \in Stages : pc'[j] = "settled" <=> out'[j] # Pending
    BY <2>3, <2>4, Numbers DEF TypeOK, IsDone
  <2> QED
    BY <2>3, <2>4, <2>5 DEF TypeOK, Outcomes, stageVars, IsDone
<1>2. ASSUME NEW t \in Threads, Attached(t) PROVE TypeOK'
  <2>1. Tail(stack[t]) \in Seq(Calls)
    BY <1>2, TopFacts DEF Attached
  <2>2. stack' \in [Threads -> Seq(Calls)]
    BY <1>2, <2>1 DEF TypeOK, Attached
  <2>3. held' \in [Promises -> BOOLEAN]
    BY <1>2 DEF TypeOK, Attached
  <2>4. selfOwned' \in [Promises -> BOOLEAN]
    <3> DEFINE p == parent[Head(stack[t]).of]
               b == selfOwned[p] \/ (form[Head(stack[t]).of].rvalue /\ ~IsDone(p))
    <3>1. b \in BOOLEAN
      OBVIOUS
    <3>2. selfOwned' = [selfOwned EXCEPT ![p] = b]
      BY <1>2 DEF Attached
    <3> HIDE DEF b, p
    <3> QED
      BY <3>1, <3>2 DEF TypeOK
  <2> QED
    BY <1>2, <2>2, <2>3, <2>4 DEF TypeOK, Attached, stageVars, IsDone
<1>3. ASSUME NEW t \in Threads, Fire(t) PROVE TypeOK'
  <2> DEFINE frame == Head(stack[t])
             i == Head(frame.batch)
             rest == <<Firing(frame.of, Tail(frame.batch))>> \o Tail(stack[t])
  <2>1. /\ frame.of \in Promises /\ frame.batch \in Seq(Stages) /\ frame.batch # <<>>
        /\ FrameOK(frame) /\ frame.in = "fire" /\ Tail(stack[t]) \in Seq(Calls)
    BY <1>3, TopFacts DEF Fire
  <2> DEFINE b == Later(form[i], out[frame.of])
  <2>2. Enter(t, i, b, rest) /\ UNCHANGED <<stageVars, held, eager>>
    BY <1>3 DEF Fire
  <2>3. rest \in Seq(Calls)
    <3>1. Tail(frame.batch) \in Seq(Stages)
      BY <2>1
    <3>2. Firing(frame.of, Tail(frame.batch)) \in Calls
      BY <2>1, <3>1, CallFacts
    <3> QED
      BY <2>1, <3>2, PushFacts
  <2>4. i \in Stages /\ pc[i] = "waiting" /\ IsDone(frame.of)
    <3>1. i \in Stages /\ i \in Range(frame.batch)
      BY <2>1, PopFacts
    <3> QED
      BY <2>1, <3>1 DEF FrameOK, Waiting
  <2>5. out[frame.of] \in Outcomes
    BY <2>1, <2>4 DEF TypeOK, Outcomes, IsDone
  <2>7. form[i] \in AllForms
    BY <2>4, ChainAssumption DEF TreeInv
  <2>8. b.lock \in BOOLEAN /\ (~b.runs => b.out \in Outcomes)
    BY <2>5, <2>7, LaterFacts
  <2> HIDE DEF frame, i, rest, b
  <2>6. /\ out' \in [Promises -> Outcomes \union {Pending}]
        /\ awaiters' \in [Promises -> Seq(Stages)]
        /\ selfOwned' \in [Promises -> BOOLEAN]
        /\ stack' \in [Threads -> Seq(Calls)]
        /\ pc' \in [Stages -> {"none", "waiting", "calling", "suspended", "settled"}]
        /\ runs' \in [Stages -> Nat]
        /\ \A j \in Stages : pc'[j] = "settled" <=> out'[j] # Pending
    BY <2>2, <2>3, <2>4, <2>8, EnterTypes
  <2> QED
    BY <2>2, <2>6 DEF TypeOK, Outcomes, stageVars, IsDone
<1>4. ASSUME NEW t \in Threads, Fired(t) PROVE TypeOK'
  <2>1. Tail(stack[t]) \in Seq(Calls)
    BY <1>4, TopFacts DEF Fired
  <2>2. stack' \in [Threads -> Seq(Calls)]
    BY <1>4, <2>1 DEF TypeOK, Fired
  <2> QED
    BY <1>4, <2>2 DEF TypeOK, Fired, stageVars, promiseVars, IsDone
<1>5. ASSUME NEW t \in Threads, Return(t) PROVE TypeOK'
  <2>1. /\ Head(stack[t]).of \in Stages /\ pc[Head(stack[t]).of] = "calling"
        /\ Tail(stack[t]) \in Seq(Calls)
    BY <1>5, CallTop DEF Return
  <2> DEFINE i == Head(stack[t]).of
  <2>2. /\ pc' = [pc EXCEPT ![i] = "settled"] /\ eager' = eager \ {i}
        /\ Settle(t, i, ResultOf(i, form[i], out[parent[i]], i \in eager), Tail(stack[t]))
        /\ UNCHANGED <<stageVars, held, runs>>
    BY <1>5 DEF Return
  <2> HIDE DEF i
  <2>3. i \in Stages /\ pc[i] = "calling"
    BY <2>1 DEF i
  <2>4. Settle(t, i, Result(i, form[i], out[parent[i]]), Tail(stack[t]))
    BY <2>2, <2>3, ResultHere
  <2> QED
    BY <2>1, <2>2, <2>3, <2>4, EndTypes
<1>6. ASSUME NEW t \in Threads, Suspend(t) PROVE TypeOK'
  <2>1. /\ Head(stack[t]).of \in Stages /\ pc[Head(stack[t]).of] = "calling"
        /\ Tail(stack[t]) \in Seq(Calls)
    BY <1>6, CallTop DEF Suspend
  <2>2. stack' \in [Threads -> Seq(Calls)]
    BY <1>6, <2>1 DEF TypeOK, Suspend
  <2>3. /\ pc' \in [Stages -> {"none", "waiting", "calling", "suspended", "settled"}]
        /\ \A j \in Stages : pc'[j] = "settled" <=> pc[j] = "settled"
    BY <1>6, <2>1 DEF TypeOK, Suspend
  <2> QED
    BY <1>6, <2>2, <2>3 DEF TypeOK, Suspend, stageVars, promiseVars, IsDone
<1>7. ASSUME NEW i \in Stages, Resume(i) PROVE TypeOK'
  <2>1. <<>> \in Seq(Calls)
    OBVIOUS
  <2>2. /\ pc[i] = "suspended" /\ pc' = [pc EXCEPT ![i] = "settled"]
        /\ Settle(i, i, ResultOf(i, form[i], out[parent[i]], i \in eager), <<>>)
        /\ eager' = eager \ {i} /\ UNCHANGED <<stageVars, held, runs>>
    BY <1>7 DEF Resume
  <2>3. Settle(i, i, Result(i, form[i], out[parent[i]]), <<>>)
    BY <2>2, ResultHere
  <2> QED
    BY <2>1, <2>2, <2>3, EndTypes, Numbers
<1>8. ASSUME NEW t \in Threads, NEW i \in Stages, NEW p \in Promises, MayAttach(t, i, p),
             NEW f \in Forms, Attach(t, i, p, f)
      PROVE  TypeOK'
  BY <1>8, AttachTypes DEF MayAttach
<1> QED
  BY <1>1, <1>2, <1>3, <1>4, <1>5, <1>6, <1>7, <1>8 DEF Next, Step

------------------------------------------------------------------------------
(* What an action that moves stage i, or settles promise i, keeps. *)

(* No other stage moves, and no other promise settles. *)
Others(i) ==
    /\ \A j \in Stages : j # i =>
          /\ pc'[j] = pc[j] /\ runs'[j] = runs[j]
          /\ parent'[j] = parent[j] /\ form'[j] = form[j]
    /\ \A q \in Promises : q # i => out'[q] = out[q]

(* The stage itself is in order afterwards. *)
InOrder(i) ==
    /\ i \in Stages =>
          /\ pc[i] # "none" /\ parent[i] \in 0 .. i - 1 /\ form[i] \in Forms
          /\ pc[i] \in {"calling", "suspended", "settled"} => IsDone(parent[i])
          /\ Explained(i)
    /\ i = 0 => out[0] \in {Value(0), Exception(0)}

LEMMA StageStep ==
    ASSUME TypeOK, TreeInv, StageInv, NEW i \in Promises, ~IsDone(i), Others(i), InOrder(i)'
    PROVE  TreeInv' /\ StageInv'
<1>1. \A q \in Promises : IsDone(q) => out'[q] = out[q] /\ IsDone(q)' /\ q # i
  BY DEF Others, IsDone
<1>2. ASSUME NEW j \in Stages, j # i
      PROVE  /\ Explained(j)'
             /\ IF pc'[j] = "none" THEN parent'[j] = Nobody
                ELSE parent'[j] \in 0 .. j - 1 /\ form'[j] \in Forms
             /\ pc'[j] \in {"calling", "suspended", "settled"} => IsDone(parent[j])'
  <2>1. /\ pc'[j] = pc[j] /\ runs'[j] = runs[j] /\ parent'[j] = parent[j]
        /\ form'[j] = form[j] /\ out'[j] = out[j]
    BY <1>2, Numbers DEF Others
  <2>2. IF pc[j] = "none" THEN parent[j] = Nobody
        ELSE parent[j] \in 0 .. j - 1 /\ form[j] \in Forms
    BY DEF TreeInv
  <2>3. CASE pc[j] \in {"none", "waiting"}
    BY <2>1, <2>2, <2>3 DEF StageInv, Explained
  <2>4. CASE pc[j] \in {"calling", "suspended", "settled"}
    <3>1. parent[j] \in Promises
      <4>1. parent[j] \in 0 .. j - 1 /\ j \in 1 .. N
        BY <2>2, <2>4 DEF Stages
      <4> QED
        BY <4>1, Numbers DEF Promises
    <3>2. IsDone(parent[j])
      BY <2>4 DEF TreeInv
    <3>3. out'[parent[j]] = out[parent[j]] /\ IsDone(parent[j])
      BY <1>1, <3>1, <3>2
    <3>4. Explained(j)'
      BY <2>1, <2>4, <3>3 DEF StageInv, Explained
    <3>5. IsDone(parent[j])'
      BY <2>1, <3>3 DEF IsDone
    <3> QED
      BY <2>1, <2>2, <3>4, <3>5
  <2> QED
    BY <2>3, <2>4 DEF TypeOK
<1>3. IsDone(0)' => out'[0] \in {Value(0), Exception(0)}
  <2>1. CASE i = 0
    BY <2>1 DEF InOrder
  <2>2. CASE i # 0
    BY <2>2, Numbers DEF Others, StageInv, IsDone
  <2> QED
    BY <2>1, <2>2
<1> QED
  BY <1>2, <1>3 DEF InOrder, TreeInv, StageInv

(* Lists of waiting stages, and calls, that the stage is not in. *)
LEMMA WaitingKept ==
    ASSUME NEW i \in Promises, Others(i), NEW s \in Seq(Stages), NEW p,
           Waiting(s, p), i \notin Range(s)
    PROVE  (\A j \in Range(s) : pc'[j] = "waiting" /\ parent'[j] = p) /\ IsInjective(s)
<1>1. Range(s) \subseteq Stages
  BY DEF Range
<1> QED
  BY <1>1 DEF Waiting, Others

LEMMA FrameKept ==
    ASSUME TypeOK, NEW i \in Promises, ~IsDone(i), Others(i), InOrder(i)',
           NEW f \in Calls, FrameOK(f),
           f.in = "fire" => i \notin Range(f.batch),
           f.in = "call" => f.of # i
    PROVE  FrameOK(f)'
<1>0. f.of \in Promises /\ f.batch \in Seq(Stages)
  BY DEF Calls
<1>1. CASE f.in = "fire"
  <2>1. IsDone(f.of) /\ Waiting(f.batch, f.of)
    BY <1>1 DEF FrameOK
  <2>a. /\ \A j \in Range(f.batch) : pc'[j] = "waiting" /\ parent'[j] = f.of
        /\ IsInjective(f.batch)
    BY <1>0, <1>1, <2>1, WaitingKept
  <2>2. Waiting(f.batch, f.of)'
    BY <2>a DEF Waiting
  <2>3. IsDone(f.of)'
    BY <1>0, <2>1 DEF Others, IsDone
  <2> QED
    BY <1>1, <2>2, <2>3 DEF FrameOK
<1>2. CASE f.in = "call"
  BY <1>2 DEF FrameOK, Others
<1>3. CASE f.in = "attach"
  BY <1>3 DEF FrameOK, Others, InOrder
<1> QED
  BY <1>1, <1>2, <1>3 DEF Calls

(* Promise i settles, or stage i calls its function, on top of the calls that
   thread t is in after that (st). *)
LEMMA MoveStep ==
    ASSUME TypeOK, TreeInv, StageInv, AwaitersInv, StackInv, FoundInv,
           NEW t \in Threads, NEW i \in Promises, ~IsDone(i), Others(i), InOrder(i)',
           i \in Stages => pc'[i] # "waiting",
           \A q \in Promises : i \notin Range(awaiters[q]),
           NEW f \in Calls, f.of = i,
           \/ /\ f.in = "fire" /\ f.batch = awaiters[i] /\ IsDone(i)'
              /\ awaiters' = [awaiters EXCEPT ![i] = <<>>]
           \/ /\ f.in = "call" /\ i \in Stages /\ pc'[i] = "calling" /\ ~IsDone(i)'
              /\ awaiters' = awaiters,
           NEW st \in [Threads -> Seq(Calls)],
           \A u \in Threads : u # t => st[u] = stack[u],
           Unique(st),
           \A u \in Threads : \A g \in Range(st[u]) : FrameOK(g)' /\ ~Same(f, g),
           \A j \in Stages : j # i /\ FoundIn(stack, j) => FoundIn(st, j),
           stack' = [st EXCEPT ![t] = <<f>> \o @],
           t \in Promises => IsDone(t)'
    PROVE  TreeInv' /\ StageInv' /\ AwaitersInv' /\ StackInv' /\ FoundInv'
<1>1. TreeInv' /\ StageInv'
  BY StageStep
<1>2. /\ \A q \in Promises : IsDone(q) => IsDone(q)' /\ q # i
      /\ \A q \in Promises : q # i => (IsDone(q)' <=> IsDone(q))
  BY DEF Others, IsDone
<1>3. \A q \in Promises : /\ q # i => awaiters'[q] = awaiters[q]
                          /\ awaiters'[i] = IF IsDone(i)' THEN <<>> ELSE awaiters[i]
  BY DEF TypeOK
<1>4. \A q \in Promises :
         /\ awaiters[q] \in Seq(Stages) /\ IsInjective(awaiters[q])
         /\ \A j \in Range(awaiters[q]) : pc'[j] = "waiting" /\ parent'[j] = q
  <2> TAKE q \in Promises
  <2>1. awaiters[q] \in Seq(Stages) /\ Waiting(awaiters[q], q) /\ i \notin Range(awaiters[q])
    BY DEF TypeOK, AwaitersInv
  <2> QED
    BY <2>1, WaitingKept
<1>5. AwaitersInv'
  <2>1. \A q \in Promises : awaiters'[q] = awaiters[q] \/ awaiters'[q] = <<>>
    BY <1>3
  <2>2. Range(<<>>) = {} /\ IsInjective(<<>>)
    BY DEF Range, IsInjective
  <2>3. \A q \in Promises :
           /\ \A j \in Range(awaiters'[q]) : pc'[j] = "waiting" /\ parent'[j] = q
           /\ IsInjective(awaiters'[q])
    BY <1>4, <2>1, <2>2
  <2>4. \A q \in Promises : IsDone(q)' => awaiters'[q] = <<>>
    BY <1>2, <1>3 DEF AwaitersInv
  <2> QED
    BY <2>3, <2>4 DEF AwaitersInv, Waiting
<1>6. /\ \A u \in Threads : u # t => stack'[u] = st[u]
      /\ Range(stack'[t]) = {f} \union Range(st[t])
  <2>1. stack'[t] = <<f>> \o st[t] /\ st[t] \in Seq(Calls)
    OBVIOUS
  <2>2. Range(stack'[t]) = {f} \union Range(st[t])
    BY <2>1, PushFacts
  <2> QED
    BY <2>2
<1>7. StackInv'
  <2>1. FrameOK(f)'
    BY <1>4 DEF FrameOK, Waiting
  <2>2. \A u \in Threads : \A g \in Range(stack'[u]) : FrameOK(g)'
    BY <1>6, <2>1
  <2>3. Unique([st EXCEPT ![t] = <<f>> \o @])
    BY UniquePush
  <2>4. Unique(stack')
    BY <2>3
  <2>5. ASSUME NEW p \in Promises, ~IsDone(p)' PROVE stack'[p] = <<>>
    <3>1. stack[p] = <<>> /\ p # t /\ p \in Threads
      BY <1>2, <2>5, Numbers DEF StackInv
    <3> QED
      BY <1>6, <3>1
  <2> QED
    BY <2>2, <2>4, <2>5 DEF StackInv, Unique
<1>8. FoundInv'
  <2> SUFFICES ASSUME NEW j \in Stages, pc'[j] = "waiting"
               PROVE  IF IsDone(parent[j])' THEN FoundIn(stack, j)'
                      ELSE j \in Range(awaiters'[parent'[j]])
    BY DEF FoundInv
  <2>1. j # i /\ pc[j] = "waiting" /\ parent'[j] = parent[j]
    BY DEF Others
  <2>2. parent[j] \in Promises
    <3>1. parent[j] \in 0 .. j - 1 /\ j \in 1 .. N
      BY <2>1 DEF TreeInv, Stages
    <3> QED
      BY <3>1, Numbers DEF Promises
  <2>3. CASE IsDone(parent[j])
    <3>1. FoundIn(st, j)
      BY <2>1, <2>3 DEF FoundInv
    <3>2. FoundIn(stack, j)'
      BY <1>6, <2>1, <3>1 DEF FoundIn
    <3>3. IsDone(parent[j])'
      BY <1>2, <2>1, <2>2, <2>3 DEF IsDone
    <3> QED
      BY <3>2, <3>3
  <2>4. CASE ~IsDone(parent[j])
    <3>1. j \in Range(awaiters[parent[j]])
      BY <2>1, <2>4 DEF FoundInv
    <3>2. CASE parent[j] # i \/ ~IsDone(i)'
      <4>1. ~IsDone(parent[j])'
        BY <1>2, <2>1, <2>2, <2>4, <3>2 DEF IsDone
      <4> QED
        BY <1>3, <2>1, <2>2, <3>1, <3>2, <4>1
    <3>3. CASE parent[j] = i /\ IsDone(i)'
      <4>1. f.in = "fire" /\ f.of = parent'[j] /\ j \in Range(f.batch)
            /\ f \in Range(stack'[t])
        BY <1>6, <2>1, <3>1, <3>3
      <4>2. FoundIn(stack, j)'
        BY <4>1 DEF FoundIn
      <4>3. IsDone(parent[j])'
        BY <2>1, <3>3 DEF IsDone
      <4> QED
        BY <4>2, <4>3
    <3> QED
      BY <3>2, <3>3
  <2> QED
    BY <2>3, <2>4
<1> QED
  BY <1>1, <1>5, <1>7, <1>8

(* Where a stage that does not wait, or a promise that is pending, is not. *)
LEMMA NotListed ==
    ASSUME TypeOK, AwaitersInv, StackInv, NEW i \in Promises, ~IsDone(i)
    PROVE  /\ (i \in Stages => pc[i] # "waiting") =>
                 /\ \A q \in Promises : i \notin Range(awaiters[q])
                 /\ \A u \in Threads : \A g \in Range(stack[u]) :
                       g.in = "fire" => i \notin Range(g.batch)
           /\ (i \in Stages => pc[i] # "calling") =>
                 \A u \in Threads : \A g \in Range(stack[u]) : g.in = "call" => g.of # i
           /\ \A u \in Threads : \A g \in Range(stack[u]) : g.in = "fire" => g.of # i
           /\ \A u \in Threads : Range(stack[u]) \subseteq Calls
<1>1. \A u \in Threads : Range(stack[u]) \subseteq Calls
  BY DEF TypeOK, Range
<1>2. ASSUME i \in Stages => pc[i] # "waiting"
      PROVE  /\ \A q \in Promises : i \notin Range(awaiters[q])
             /\ \A u \in Threads : \A g \in Range(stack[u]) :
                   g.in = "fire" => i \notin Range(g.batch)
  <2>1. \A q \in Promises : Range(awaiters[q]) \subseteq Stages
    BY DEF TypeOK, Range
  <2>2. \A u \in Threads : \A g \in Range(stack[u]) : Range(g.batch) \subseteq Stages
    BY <1>1 DEF Calls, Range
  <2>3. \A q \in Promises : i \notin Range(awaiters[q])
    BY <1>2, <2>1 DEF AwaitersInv, Waiting
  <2>4. \A u \in Threads : \A g \in Range(stack[u]) :
           g.in = "fire" => i \notin Range(g.batch)
    BY <1>2, <2>2 DEF StackInv, FrameOK, Waiting
  <2> QED
    BY <2>3, <2>4
<1>3. ASSUME i \in Stages => pc[i] # "calling"
      PROVE  \A u \in Threads : \A g \in Range(stack[u]) : g.in = "call" => g.of # i
  BY <1>3 DEF StackInv, FrameOK
<1>4. \A u \in Threads : \A g \in Range(stack[u]) : g.in = "fire" => g.of # i
  BY DEF StackInv, FrameOK
<1> QED
  BY <1>1, <1>2, <1>3, <1>4

(* Thread t returns from a call. *)
LEMMA PopStep ==
    ASSUME TypeOK, TreeInv, AwaitersInv, StackInv, FoundInv,
           NEW t \in Threads, stack[t] # <<>>,
           stack' = [stack EXCEPT ![t] = Tail(@)], UNCHANGED <<out, awaiters>>,
           Head(stack[t]).in = "fire" => Head(stack[t]).batch = <<>>,
           \A q \in Promises : \A j \in Range(awaiters[q]) :
              pc'[j] = "waiting" /\ parent'[j] = q,
           \A u \in Threads : \A g \in Range(stack[u]) :
              ~Same(Head(stack[t]), g) => FrameOK(g)',
           \A j \in Stages : pc'[j] = "waiting" =>
              pc[j] = "waiting" /\ parent'[j] = parent[j]
    PROVE  AwaitersInv' /\ StackInv' /\ FoundInv'
<1>0. \A q : IsDone(q)' <=> IsDone(q)
  BY DEF IsDone
<1>1. AwaitersInv'
  BY <1>0 DEF AwaitersInv, Waiting
<1>2. /\ stack \in [Threads -> Seq(Calls)] /\ Unique(stack)
  BY DEF TypeOK, StackInv
<1>3. /\ Unique(stack')
      /\ \A u \in Threads : \A g \in Range(stack'[u]) : ~Same(Head(stack[t]), g)
      /\ \A u \in Threads : Range(stack'[u]) \subseteq Range(stack[u])
      /\ \A u \in Threads : \A g \in Range(stack[u]) :
            g \in Range(stack'[u]) \/ (u = t /\ g = Head(stack[t]))
  BY <1>2, UniquePop
<1>4. StackInv'
  <2>1. \A u \in Threads : \A g \in Range(stack'[u]) : FrameOK(g)'
    BY <1>3
  <2>2. ASSUME NEW p \in Promises, ~IsDone(p)' PROVE stack'[p] = <<>>
    <3>1. stack[p] = <<>> /\ p # t
      BY <1>0, <2>2 DEF StackInv
    <3> QED
      BY <1>2, <3>1, Numbers
  <2> QED
    BY <1>3, <2>1, <2>2 DEF StackInv, Unique
<1>5. FoundInv'
  <2> SUFFICES ASSUME NEW j \in Stages, pc'[j] = "waiting"
               PROVE  IF IsDone(parent[j])' THEN FoundIn(stack, j)'
                      ELSE j \in Range(awaiters'[parent'[j]])
    BY DEF FoundInv
  <2>1. pc[j] = "waiting" /\ parent'[j] = parent[j]
    OBVIOUS
  <2>2. IsDone(parent[j])' <=> IsDone(parent[j])
    BY <2>1 DEF IsDone
  <2>3. CASE ~IsDone(parent[j])
    BY <2>1, <2>2, <2>3 DEF FoundInv
  <2>4. CASE IsDone(parent[j])
    <3>0. PICK u \in Threads : \E g \in Range(stack[u]) :
             g.in = "fire" /\ g.of = parent[j] /\ j \in Range(g.batch)
      BY <2>1, <2>4 DEF FoundInv, FoundIn
    <3>1. PICK g \in Range(stack[u]) :
             g.in = "fire" /\ g.of = parent[j] /\ j \in Range(g.batch)
      BY <3>0
    <3>2. Range(<<>>) = {}
      BY DEF Range
    <3>3. g \in Range(stack'[u])
      <4>1. g # Head(stack[t])
        BY <3>1, <3>2
      <4> QED
        BY <1>3, <4>1
    <3>4. FoundIn(stack, j)'
      BY <2>1, <3>1, <3>3 DEF FoundIn
    <3> QED
      BY <2>2, <2>4, <3>4
  <2> QED
    BY <2>3, <2>4
<1> QED
  BY <1>1, <1>4, <1>5

------------------------------------------------------------------------------
(* The stacks st, thread t having returned from the calls it is to return
   from: none of them knows promise i, but the one that attaches it. *)
Clear(st, t, i) ==
    /\ st \in [Threads -> Seq(Calls)]
    /\ Unique(st)
    /\ \A u \in Threads : u # t => st[u] = stack[u]
    /\ \A u \in Threads : \A g \in Range(st[u]) :
          /\ g.in # "attach" => g.of # i
          /\ g.in = "fire" => i \notin Range(g.batch)
          /\ FrameOK(g) \/ (g.in = "attach" /\ g.of = i /\ i \in Stages)
    /\ \A j \in Stages : j # i /\ FoundIn(stack, j) => FoundIn(st, j)

LEMMA ClearStep ==
    ASSUME TypeOK, NEW t \in Threads, NEW i \in Promises, ~IsDone(i), Others(i),
           InOrder(i)', NEW st, Clear(st, t, i), NEW f, f.of = i, f.in # "attach"
    PROVE  \A u \in Threads : \A g \in Range(st[u]) : FrameOK(g)' /\ ~Same(f, g)
<1> SUFFICES ASSUME NEW u \in Threads, NEW g \in Range(st[u])
             PROVE  FrameOK(g)' /\ ~Same(f, g)
  OBVIOUS
<1>1. /\ g.in # "attach" => g.of # i
      /\ g.in = "fire" => i \notin Range(g.batch)
      /\ FrameOK(g) \/ (g.in = "attach" /\ g.of = i /\ i \in Stages)
  BY DEF Clear
<1>2. g \in Calls
  BY DEF Clear, Range
<1>3. ~Same(f, g)
  BY <1>1 DEF Same
<1>4. CASE FrameOK(g)
  <2>1. g.in = "call" => g.of # i
    BY <1>1
  <2>2. FrameOK(g)'
    BY <1>1, <1>2, <1>4, <2>1, FrameKept
  <2> QED
    BY <1>3, <2>2
<1>5. CASE g.in = "attach" /\ g.of = i /\ i \in Stages
  BY <1>3, <1>5 DEF FrameOK, InOrder
<1> QED
  BY <1>1, <1>4, <1>5

LEMMA SettleMove ==
    ASSUME TypeOK, TreeInv, StageInv, AwaitersInv, StackInv, FoundInv,
           NEW t \in Threads, NEW i \in Promises, ~IsDone(i), Others(i), InOrder(i)',
           i \in Stages => pc'[i] = "settled",
           \A q \in Promises : i \notin Range(awaiters[q]),
           NEW st, Clear(st, t, i), NEW o \in Outcomes, Settle(t, i, o, st[t]),
           t \in Promises => t = i \/ IsDone(t)
    PROVE  TreeInv' /\ StageInv' /\ AwaitersInv' /\ StackInv' /\ FoundInv'
<1>1. awaiters[i] \in Seq(Stages)
  BY DEF TypeOK
<1>2. PICK f \in Calls : /\ f = Firing(i, awaiters[i]) /\ f.of = i
                         /\ f.in = "fire" /\ f.batch = awaiters[i]
  BY <1>1, CallFacts
<1>3. /\ st \in [Threads -> Seq(Calls)] /\ Unique(st)
      /\ \A u \in Threads : u # t => st[u] = stack[u]
      /\ \A j \in Stages : j # i /\ FoundIn(stack, j) => FoundIn(st, j)
  BY DEF Clear
<1>4. stack' = [st EXCEPT ![t] = <<f>> \o @]
  <2>1. stack \in [Threads -> Seq(Calls)] /\ stack' = [stack EXCEPT ![t] = <<f>> \o st[t]]
    BY <1>2 DEF TypeOK, Settle
  <2> QED
    BY <1>3, <2>1
<1>5. /\ IsDone(i)' /\ awaiters' = [awaiters EXCEPT ![i] = <<>>]
      /\ \A q \in Promises : q # i => out'[q] = out[q]
  <2>1. out'[i] = o /\ o # Pending
    BY OutcomeFacts DEF Settle, TypeOK, Outcomes
  <2> QED
    BY <2>1 DEF Settle, IsDone, TypeOK
<1>6. t \in Promises => IsDone(t)'
  BY <1>5 DEF IsDone
<1>7. \A u \in Threads : \A g \in Range(st[u]) : FrameOK(g)' /\ ~Same(f, g)
  BY <1>2, ClearStep
<1>8. i \in Stages => pc'[i] # "waiting"
  OBVIOUS
<1> QED
  BY <1>2, <1>3, <1>4, <1>5, <1>6, <1>7, <1>8, MoveStep

LEMMA CallMove ==
    ASSUME TypeOK, TreeInv, StageInv, AwaitersInv, StackInv, FoundInv,
           NEW t \in Threads, NEW i \in Stages, ~IsDone(i), Others(i), InOrder(i)',
           pc'[i] = "calling",
           \A q \in Promises : i \notin Range(awaiters[q]),
           NEW st, Clear(st, t, i), NEW lock \in BOOLEAN,
           stack' = [stack EXCEPT ![t] = <<Calling(i, lock)>> \o st[t]],
           UNCHANGED <<out, awaiters>>,
           t \in Promises => IsDone(t)
    PROVE  TreeInv' /\ StageInv' /\ AwaitersInv' /\ StackInv' /\ FoundInv'
<1>2. PICK f \in Calls : f = Calling(i, lock) /\ f.of = i /\ f.in = "call"
  BY CallFacts
<1>3. /\ st \in [Threads -> Seq(Calls)] /\ Unique(st)
      /\ \A u \in Threads : u # t => st[u] = stack[u]
      /\ \A j \in Stages : j # i /\ FoundIn(stack, j) => FoundIn(st, j)
  BY DEF Clear
<1>4. stack' = [st EXCEPT ![t] = <<f>> \o @]
  <2>1. stack \in [Threads -> Seq(Calls)] /\ stack' = [stack EXCEPT ![t] = <<f>> \o st[t]]
    BY <1>2 DEF TypeOK
  <2> QED
    BY <1>3, <2>1
<1>5. ~IsDone(i)' /\ awaiters' = awaiters /\ (t \in Promises => IsDone(t)')
  BY DEF IsDone
<1>6. i \in Promises
  BY Numbers
<1>7. \A u \in Threads : \A g \in Range(st[u]) : FrameOK(g)' /\ ~Same(f, g)
  BY <1>2, <1>6, ClearStep
<1>8. i \in Stages => pc'[i] # "waiting"
  OBVIOUS
<1> QED
  BY <1>2, <1>3, <1>4, <1>5, <1>6, <1>7, <1>8, MoveStep

------------------------------------------------------------------------------
(* One lemma for each action. *)

LEMMA ParentFacts ==
    ASSUME TypeOK, TreeInv, NEW i \in Stages, pc[i] # "none"
    PROVE  /\ parent[i] \in 0 .. i - 1 /\ parent[i] \in Promises /\ parent[i] # i
           /\ form[i] \in Forms /\ form[i] \in AllForms
           /\ IsDone(parent[i]) => out[parent[i]] \in Outcomes
<1>1. parent[i] \in 0 .. i - 1 /\ form[i] \in Forms
  BY DEF TreeInv
<1>2. parent[i] \in Promises /\ parent[i] # i
  <2>1. i \in 1 .. N
    BY DEF Stages
  <2> QED
    BY <1>1, <2>1, Numbers DEF Promises
<1>3. form[i] \in AllForms
  BY <1>1, ChainAssumption
<1>4. IsDone(parent[i]) => out[parent[i]] \in Outcomes
  BY <1>2 DEF TypeOK, IsDone, Outcomes
<1> QED
  BY <1>1, <1>2, <1>3, <1>4

LEMMA RootStep ==
    ASSUME Inv, NEW o \in {Value(0), Exception(0)}, SettleRoot(o)
    PROVE  TreeInv' /\ StageInv' /\ AwaitersInv' /\ StackInv' /\ FoundInv'
<1>1. TypeOK /\ TreeInv /\ StageInv /\ AwaitersInv /\ StackInv /\ FoundInv
  BY DEF Inv
<1>2. /\ ~IsDone(0) /\ Settle(0, 0, o, <<>>)
      /\ pc' = pc /\ runs' = runs /\ parent' = parent /\ form' = form
  BY DEF SettleRoot, stageVars
<1>3. 0 \in Promises /\ 0 \in Threads /\ 0 \notin Stages
  BY Numbers
<1>4. o \in Outcomes
  BY <1>3, OutcomeFacts DEF Outcomes
<1>5. out'[0] = o /\ \A q \in Promises : q # 0 => out'[q] = out[q]
  BY <1>1, <1>2, <1>3 DEF Settle, TypeOK
<1>6. Others(0) /\ InOrder(0)'
  BY <1>2, <1>3, <1>5 DEF Others, InOrder
<1>7. /\ \A q \in Promises : 0 \notin Range(awaiters[q])
      /\ Clear(stack, 0, 0)
  <2>1. /\ \A q \in Promises : 0 \notin Range(awaiters[q])
        /\ \A u \in Threads : \A g \in Range(stack[u]) :
              g.in = "fire" => 0 \notin Range(g.batch)
        /\ \A u \in Threads : \A g \in Range(stack[u]) : g.in = "call" => g.of # 0
        /\ \A u \in Threads : \A g \in Range(stack[u]) : g.in = "fire" => g.of # 0
        /\ \A u \in Threads : Range(stack[u]) \subseteq Calls
    BY <1>1, <1>2, <1>3, NotListed
  <2>2. \A u \in Threads : \A g \in Range(stack[u]) : g.in # "attach" => g.of # 0
    BY <2>1 DEF Calls
  <2> QED
    BY <1>1, <2>1, <2>2 DEF Clear, StackInv, TypeOK
<1>8. stack[0] = <<>>
  BY <1>1, <1>2, <1>3 DEF StackInv
<1>9. Settle(0, 0, o, stack[0])
  BY <1>2, <1>8
<1> QED
  BY <1>1, <1>2, <1>3, <1>4, <1>6, <1>7, <1>9, SettleMove

(* The function of stage i ends. *)
LEMMA EndStep ==
    ASSUME Inv, NEW t \in Threads, NEW i \in Stages, pc[i] \in {"calling", "suspended"},
           pc' = [pc EXCEPT ![i] = "settled"], UNCHANGED <<stageVars, runs>>,
           NEW st, Clear(st, t, i),
           Settle(t, i, Result(i, form[i], out[parent[i]]), st[t]),
           t \in Promises => t = i \/ IsDone(t)
    PROVE  TreeInv' /\ StageInv' /\ AwaitersInv' /\ StackInv' /\ FoundInv'
<1> DEFINE o == Result(i, form[i], out[parent[i]])
<1>1. TypeOK /\ TreeInv /\ StageInv /\ AwaitersInv /\ StackInv /\ FoundInv
  BY DEF Inv
<1>2. i \in Promises /\ ~IsDone(i) /\ pc[i] # "none" /\ pc[i] # "waiting"
  BY <1>1, Numbers DEF TypeOK
<1>3. /\ parent[i] \in 0 .. i - 1 /\ parent[i] \in Promises /\ parent[i] # i
      /\ form[i] \in Forms /\ form[i] \in AllForms
      /\ IsDone(parent[i]) /\ out[parent[i]] \in Outcomes
  <2>1. IsDone(parent[i])
    BY <1>1 DEF TreeInv
  <2> QED
    BY <1>1, <1>2, <2>1, ParentFacts
<1>4. o \in Outcomes
  BY <1>3, ResultFacts
<1>5. /\ out'[i] = o /\ \A q \in Promises : q # i => out'[q] = out[q]
  BY <1>1, <1>2 DEF Settle, TypeOK
<1>6. /\ pc'[i] = "settled" /\ \A j \in Stages : j # i => pc'[j] = pc[j]
      /\ parent' = parent /\ form' = form /\ runs' = runs
  BY <1>1 DEF TypeOK, stageVars
<1>7. Others(i)
  BY <1>5, <1>6 DEF Others
<1>8. out'[parent[i]] = out[parent[i]] /\ IsDone(parent[i])'
  BY <1>3, <1>5, <1>6 DEF IsDone
<1>9. runs[i] = 1 /\ Due(form[i], out[parent[i]])
  BY <1>1 DEF StageInv, Explained
<1>10. Explained(i)'
  BY <1>5, <1>6, <1>8, <1>9 DEF Explained
<1>11. InOrder(i)'
  BY <1>2, <1>3, <1>6, <1>8, <1>10, Numbers DEF InOrder
<1>12. \A q \in Promises : i \notin Range(awaiters[q])
  BY <1>1, <1>2, NotListed
<1> HIDE DEF o
<1>13. Settle(t, i, o, st[t])
  BY DEF o
<1> QED
  BY <1>1, <1>2, <1>4, <1>6, <1>7, <1>11, <1>12, <1>13, SettleMove

LEMMA ResumeStep ==
    ASSUME Inv, NEW i \in Stages, Resume(i)
    PROVE  TreeInv' /\ StageInv' /\ AwaitersInv' /\ StackInv' /\ FoundInv'
<1>1. TypeOK /\ AwaitersInv /\ StackInv
  BY DEF Inv
<1>6. /\ pc[i] = "suspended" /\ pc' = [pc EXCEPT ![i] = "settled"]
      /\ Settle(i, i, ResultOf(i, form[i], out[parent[i]], i \in eager), <<>>)
      /\ UNCHANGED <<stageVars, runs>>
  BY DEF Resume
<1>7. TreeInv /\ pc[i] # "none"
  BY <1>6 DEF Inv
<1>2. /\ pc[i] = "suspended" /\ pc' = [pc EXCEPT ![i] = "settled"]
      /\ Settle(i, i, Result(i, form[i], out[parent[i]]), <<>>)
      /\ UNCHANGED <<stageVars, runs>>
  BY <1>6, <1>7, ResultHere
<1>3. i \in Promises /\ i \in Threads /\ ~IsDone(i)
  BY <1>1, <1>2, Numbers DEF TypeOK
<1>4. stack[i] = <<>>
  BY <1>1, <1>3 DEF StackInv
<1>5. Clear(stack, i, i)
  <2>1. /\ \A u \in Threads : \A g \in Range(stack[u]) :
              g.in = "fire" => i \notin Range(g.batch)
        /\ \A u \in Threads : \A g \in Range(stack[u]) : g.in = "call" => g.of # i
        /\ \A u \in Threads : \A g \in Range(stack[u]) : g.in = "fire" => g.of # i
        /\ \A u \in Threads : Range(stack[u]) \subseteq Calls
    BY <1>1, <1>2, <1>3, NotListed
  <2>2. \A u \in Threads : \A g \in Range(stack[u]) : g.in # "attach" => g.of # i
    BY <2>1 DEF Calls
  <2> QED
    BY <1>1, <2>1, <2>2 DEF Clear, StackInv, TypeOK
<1> QED
  BY <1>2, <1>3, <1>4, <1>5, EndStep

(* A thread that is in a call is a user's, or the one of a settled promise. *)
LEMMA BusyThread ==
    ASSUME StackInv, NEW t \in Threads, stack[t] # <<>>
    PROVE  t \in Promises => IsDone(t)
BY DEF StackInv

LEMMA ReturnStep ==
    ASSUME Inv, NEW t \in Threads, Return(t)
    PROVE  TreeInv' /\ StageInv' /\ AwaitersInv' /\ StackInv' /\ FoundInv'
<1> DEFINE i == Head(stack[t]).of
           st == [stack EXCEPT ![t] = Tail(@)]
<1>1. TypeOK /\ AwaitersInv /\ StackInv
  BY DEF Inv
<1>2. Top(t, "call")
  BY DEF Return
<1>3. i \in Stages /\ pc[i] = "calling" /\ Tail(stack[t]) \in Seq(Calls)
  BY <1>1, <1>2, CallTop
<1>4. /\ stack[t] # <<>> /\ Head(stack[t]).in = "call"
  BY <1>2 DEF Top, Idle
<1>15. /\ pc' = [pc EXCEPT ![i] = "settled"]
       /\ Settle(t, i, ResultOf(i, form[i], out[parent[i]], i \in eager), Tail(stack[t]))
       /\ UNCHANGED <<stageVars, runs>>
  BY DEF Return
<1>16. TreeInv /\ pc[i] # "none"
  BY <1>3 DEF Inv
<1>17. ResultOf(i, form[i], out[parent[i]], i \in eager)
         = Result(i, form[i], out[parent[i]])
  BY <1>3, <1>16, ResultHere
<1>5. /\ pc' = [pc EXCEPT ![i] = "settled"]
      /\ Settle(t, i, Result(i, form[i], out[parent[i]]), Tail(stack[t]))
      /\ UNCHANGED <<stageVars, runs>>
  BY <1>15, <1>17
<1>6. i \in Promises /\ ~IsDone(i)
  BY <1>1, <1>3, Numbers DEF TypeOK
<1>7. stack \in [Threads -> Seq(Calls)] /\ Unique(stack)
  BY <1>1 DEF TypeOK, StackInv
<1>8. /\ Unique(st)
      /\ \A u \in Threads : \A g \in Range(st[u]) : ~Same(Head(stack[t]), g)
      /\ \A u \in Threads : Range(st[u]) \subseteq Range(stack[u])
      /\ \A u \in Threads : \A g \in Range(stack[u]) :
            g \in Range(st[u]) \/ (u = t /\ g = Head(stack[t]))
  BY <1>4, <1>7, UniquePop
<1>9. /\ st \in [Threads -> Seq(Calls)] /\ st[t] = Tail(stack[t])
      /\ \A u \in Threads : u # t => st[u] = stack[u]
  BY <1>3, <1>7
<1> HIDE DEF st
<1>10. \A u \in Threads : \A g \in Range(st[u]) :
          /\ g.in # "attach" => g.of # i
          /\ g.in = "fire" => i \notin Range(g.batch)
          /\ FrameOK(g)
  <2>1. /\ \A u \in Threads : \A g \in Range(stack[u]) :
              g.in = "fire" => i \notin Range(g.batch)
        /\ \A u \in Threads : \A g \in Range(stack[u]) : g.in = "fire" => g.of # i
        /\ \A u \in Threads : Range(stack[u]) \subseteq Calls
    BY <1>1, <1>3, <1>6, NotListed
  <2> TAKE u \in Threads
  <2> TAKE g \in Range(st[u])
  <2>2. g \in Range(stack[u]) /\ ~Same(Head(stack[t]), g)
    BY <1>8
  <2>3. g.in \in {"fire", "call", "attach"}
    BY <2>1, <2>2 DEF Calls
  <2>4. g.in = "call" => g.of # i
    BY <1>4, <2>2 DEF Same
  <2>5. FrameOK(g)
    BY <1>1, <2>2 DEF StackInv
  <2> QED
    BY <2>1, <2>2, <2>3, <2>4, <2>5
<1>11. \A j \in Stages : FoundIn(stack, j) => FoundIn(st, j)
  BY <1>4, <1>8 DEF FoundIn
<1>12. Clear(st, t, i)
  BY <1>8, <1>9, <1>10, <1>11 DEF Clear
<1>13. t \in Promises => IsDone(t)
  BY <1>1, <1>4, BusyThread
<1>14. Settle(t, i, Result(i, form[i], out[parent[i]]), st[t])
  BY <1>5, <1>9
<1> QED
  BY <1>3, <1>5, <1>12, <1>13, <1>14, EndStep

(* Stage i, attached to the settled promise p, enters. *)
LEMMA EnterStep ==
    ASSUME Inv, NEW t \in Threads, NEW i \in Stages, pc[i] \in {"none", "waiting"},
           NEW p \in 0 .. i - 1, p \in Promises, IsDone(p), NEW f \in Forms,
           parent'[i] = p, form'[i] = f,
           \A j \in Stages : j # i => parent'[j] = parent[j] /\ form'[j] = form[j],
           NEW b, b.lock \in BOOLEAN, b.runs <=> Due(f, out[p]),
           ~b.runs => b.out = out[p],
           NEW st, Clear(st, t, i),
           \A q \in Promises : i \notin Range(awaiters[q]),
           Enter(t, i, b, st[t]),
           t \in Promises => IsDone(t)
    PROVE  TreeInv' /\ StageInv' /\ AwaitersInv' /\ StackInv' /\ FoundInv'
<1>1. TypeOK /\ TreeInv /\ StageInv /\ AwaitersInv /\ StackInv /\ FoundInv
  BY DEF Inv
<1>2. i \in Promises /\ ~IsDone(i) /\ p # i /\ runs[i] = 0
  <2>1. i \in Promises /\ ~IsDone(i) /\ p # i
    BY <1>1, Numbers DEF TypeOK
  <2>2. runs[i] = 0
    BY <1>1 DEF StageInv, Explained
  <2> QED
    BY <2>1, <2>2
<1>3. out[p] \in Outcomes
  BY <1>1 DEF TypeOK, IsDone, Outcomes
<1>4. i # 0
  BY Numbers
<1>5. CASE Due(f, out[p])
  <2>1. /\ pc' = [pc EXCEPT ![i] = "calling"]
        /\ runs' = [runs EXCEPT ![i] = @ + 1]
        /\ stack' = [stack EXCEPT ![t] = <<Calling(i, b.lock)>> \o st[t]]
        /\ UNCHANGED <<out, awaiters, selfOwned>>
    BY <1>5 DEF Enter
  <2>2. /\ pc'[i] = "calling" /\ runs'[i] = 1
        /\ \A j \in Stages : j # i => pc'[j] = pc[j] /\ runs'[j] = runs[j]
    BY <1>1, <1>2, <2>1 DEF TypeOK
  <2>3. Others(i)
    BY <2>1, <2>2 DEF Others
  <2>4. Explained(i)'
    BY <1>5, <2>1, <2>2 DEF Explained
  <2>5. InOrder(i)'
    BY <1>4, <2>1, <2>2, <2>4 DEF InOrder, IsDone
  <2> QED
    BY <1>1, <1>2, <2>1, <2>2, <2>3, <2>5, CallMove
<1>6. CASE ~Due(f, out[p])
  <2>1. /\ pc' = [pc EXCEPT ![i] = "settled"] /\ runs' = runs
        /\ Settle(t, i, out[p], st[t])
    BY <1>6 DEF Enter
  <2>2. /\ pc'[i] = "settled" /\ runs'[i] = 0
        /\ \A j \in Stages : j # i => pc'[j] = pc[j] /\ runs'[j] = runs[j]
    BY <1>1, <1>2, <2>1 DEF TypeOK
  <2>3. out'[i] = out[p] /\ \A q \in Promises : q # i => out'[q] = out[q]
    BY <1>1, <1>2, <2>1 DEF Settle, TypeOK
  <2>4. out'[p] = out[p]
    BY <1>2, <2>3
  <2>5. Others(i)
    BY <2>2, <2>3 DEF Others
  <2>6. Explained(i)'
    BY <1>6, <2>2, <2>3, <2>4 DEF Explained
  <2>7. InOrder(i)'
    BY <1>4, <2>2, <2>4, <2>6 DEF InOrder, IsDone
  <2> QED
    BY <1>1, <1>2, <1>3, <2>1, <2>2, <2>5, <2>7, SettleMove
<1> QED
  BY <1>5, <1>6

(* OnResolved calls the next callback: its own call is back on the stack, with
   one callback less. *)
LEMMA FireStep ==
    ASSUME Inv, NEW t \in Threads, Fire(t)
    PROVE  TreeInv' /\ StageInv' /\ AwaitersInv' /\ StackInv' /\ FoundInv'
<1>1. TypeOK /\ TreeInv /\ StageInv /\ AwaitersInv /\ StackInv /\ FoundInv
  BY DEF Inv
<1>2. Top(t, "fire")
  BY DEF Fire
<1>3. PICK frame \in Calls :
         /\ frame = Head(stack[t]) /\ frame.in = "fire" /\ FrameOK(frame)
         /\ frame \in Range(stack[t]) /\ stack[t] # <<>>
         /\ frame.of \in Promises /\ frame.batch \in Seq(Stages)
         /\ Tail(stack[t]) \in Seq(Calls)
  BY <1>1, <1>2, TopFacts
<1>4. frame.batch # <<>>
  BY <1>3 DEF Fire
<1>5. PICK i \in Stages : /\ i = Head(frame.batch) /\ i \in Range(frame.batch)
                          /\ Range(frame.batch) = {i} \union Range(Tail(frame.batch))
                          /\ Tail(frame.batch) \in Seq(Stages)
  BY <1>3, <1>4, PopFacts
<1>6. /\ IsDone(frame.of) /\ pc[i] = "waiting" /\ parent[i] = frame.of
      /\ \A j \in Range(frame.batch) : pc[j] = "waiting" /\ parent[j] = frame.of
      /\ IsInjective(frame.batch)
  BY <1>3, <1>5 DEF FrameOK, Waiting
<1>7. PICK again \in Calls :
         /\ again = Firing(frame.of, Tail(frame.batch)) /\ again.in = "fire"
         /\ again.of = frame.of /\ again.batch = Tail(frame.batch)
  <2>1. \A p \in Promises, b \in Seq(Stages) :
           /\ Firing(p, b) \in Calls /\ Firing(p, b).in = "fire"
           /\ Firing(p, b).of = p /\ Firing(p, b).batch = b
    BY CallFacts
  <2>2. frame.of \in Promises /\ Tail(frame.batch) \in Seq(Stages)
    BY <1>3, <1>5
  <2> QED
    BY <2>1, <2>2
<1>8. /\ Enter(t, i, Later(form[i], out[frame.of]), <<again>> \o Tail(stack[t]))
      /\ UNCHANGED <<stageVars, held>>
  BY <1>3, <1>5, <1>7 DEF Fire
<1>9. /\ parent[i] \in 0 .. i - 1 /\ parent[i] \in Promises /\ form[i] \in Forms
  BY <1>1, <1>6, ParentFacts
<1>10. i \notin Range(again.batch) /\ IsInjective(again.batch)
  BY <1>3, <1>4, <1>5, <1>6, <1>7, BatchFacts
<1>11. FrameOK(again)
  BY <1>5, <1>6, <1>7, <1>10 DEF FrameOK, Waiting
<1>12. stack \in [Threads -> Seq(Calls)] /\ Unique(stack)
  BY <1>1 DEF TypeOK, StackInv
<1> DEFINE pop == [stack EXCEPT ![t] = Tail(@)]
           st == [pop EXCEPT ![t] = <<again>> \o @]
<1>13. /\ Unique(pop)
       /\ \A u \in Threads : \A g \in Range(pop[u]) : ~Same(frame, g)
       /\ \A u \in Threads : Range(pop[u]) \subseteq Range(stack[u])
       /\ \A u \in Threads : \A g \in Range(stack[u]) :
             g \in Range(pop[u]) \/ (u = t /\ g = frame)
  BY <1>3, <1>12, UniquePop
<1>14. /\ pop \in [Threads -> Seq(Calls)] /\ pop[t] = Tail(stack[t])
       /\ \A u \in Threads : u # t => pop[u] = stack[u]
  BY <1>3, <1>12
<1> HIDE DEF pop
<1>15. \A u \in Threads : \A g \in Range(pop[u]) : ~Same(again, g)
  BY <1>3, <1>7, <1>13 DEF Same
<1>16. Unique(st)
  BY <1>13, <1>14, <1>15, UniquePush
<1>17. /\ <<again>> \o pop[t] \in Seq(Calls)
       /\ Range(<<again>> \o pop[t]) = {again} \union Range(pop[t])
  BY <1>14, PushFacts
<1>18. /\ st \in [Threads -> Seq(Calls)]
       /\ st[t] = <<again>> \o Tail(stack[t])
       /\ Range(st[t]) = {again} \union Range(pop[t])
       /\ \A u \in Threads : u # t => st[u] = stack[u] /\ st[u] = pop[u]
  BY <1>14, <1>17
<1> HIDE DEF st
<1>19. i \in Promises /\ ~IsDone(i)
  BY <1>1, <1>6, Numbers DEF TypeOK
<1>20. /\ \A u \in Threads : \A g \in Range(stack[u]) : g.in = "call" => g.of # i
       /\ \A u \in Threads : \A g \in Range(stack[u]) : g.in = "fire" => g.of # i
       /\ \A u \in Threads : Range(stack[u]) \subseteq Calls
  BY <1>1, <1>6, <1>19, NotListed
<1>21. \A u \in Threads : \A g \in Range(pop[u]) :
          /\ g.in # "attach" => g.of # i
          /\ g.in = "fire" => i \notin Range(g.batch)
          /\ FrameOK(g)
  <2> TAKE u \in Threads
  <2> TAKE g \in Range(pop[u])
  <2>1. g \in Range(stack[u]) /\ ~Same(frame, g) /\ g \in Calls
    BY <1>13, <1>20
  <2>2. FrameOK(g)
    BY <1>1, <2>1 DEF StackInv
  <2>3. g.in # "attach" => g.of # i
    BY <1>20, <2>1 DEF Calls
  <2>4. g.in = "fire" => i \notin Range(g.batch)
    BY <1>3, <1>6, <2>1, <2>2 DEF Same, FrameOK, Waiting
  <2> QED
    BY <2>2, <2>3, <2>4
<1>22. again.of # i
  BY <1>6, <1>7, <1>19
<1>23. \A u \in Threads : \A g \in Range(st[u]) :
          /\ g.in # "attach" => g.of # i
          /\ g.in = "fire" => i \notin Range(g.batch)
          /\ FrameOK(g)
  <2> SUFFICES ASSUME NEW u \in Threads, NEW g \in Range(st[u])
               PROVE  /\ g.in # "attach" => g.of # i
                      /\ g.in = "fire" => i \notin Range(g.batch)
                      /\ FrameOK(g)
    OBVIOUS
  <2>1. CASE g = again
    BY <1>10, <1>11, <1>22, <2>1
  <2>2. CASE g # again
    <3>1. g \in Range(pop[u])
      BY <1>18, <2>2
    <3> QED
      BY <1>21, <3>1
  <2> QED
    BY <2>1, <2>2
<1>24. \A j \in Stages : j # i /\ FoundIn(stack, j) => FoundIn(st, j)
  <2> SUFFICES ASSUME NEW j \in Stages, j # i, FoundIn(stack, j) PROVE FoundIn(st, j)
    OBVIOUS
  <2>1. PICK u \in Threads : \E g \in Range(stack[u]) :
           g.in = "fire" /\ g.of = parent[j] /\ j \in Range(g.batch)
    BY DEF FoundIn
  <2>2. PICK g \in Range(stack[u]) :
           g.in = "fire" /\ g.of = parent[j] /\ j \in Range(g.batch)
    BY <2>1
  <2>3. CASE g \in Range(pop[u])
    <3>1. g \in Range(st[u])
      BY <1>18, <2>3
    <3> QED
      BY <2>2, <3>1 DEF FoundIn
  <2>4. CASE u = t /\ g = frame
    <3>1. again \in Range(st[t]) /\ j \in Range(again.batch) /\ again.of = parent[j]
      BY <1>5, <1>7, <1>18, <2>2, <2>4
    <3> QED
      BY <1>7, <3>1 DEF FoundIn
  <2> QED
    BY <1>13, <2>3, <2>4
<1>25. Clear(st, t, i)
  BY <1>16, <1>18, <1>23, <1>24 DEF Clear
<1>26. \A q \in Promises : i \notin Range(awaiters[q])
  <2>1. awaiters[frame.of] = <<>> /\ Range(<<>>) = {}
    BY <1>1, <1>3, <1>6 DEF AwaitersInv, Range
  <2> QED
    BY <1>1, <1>6, <2>1 DEF AwaitersInv, Waiting
<1>27. t \in Promises => IsDone(t)
  BY <1>1, <1>3, BusyThread
<1>28. /\ parent'[i] = frame.of /\ form'[i] = form[i]
       /\ \A j \in Stages : j # i => parent'[j] = parent[j] /\ form'[j] = form[j]
  BY <1>6, <1>8 DEF stageVars
<1> DEFINE b == Later(form[i], out[frame.of])
<1>29. /\ frame.of \in 0 .. i - 1
       /\ Enter(t, i, b, st[t])
  BY <1>6, <1>8, <1>9, <1>18
<1>30. /\ b.lock \in BOOLEAN /\ (b.runs <=> Due(form[i], out[frame.of]))
       /\ ~b.runs => b.out = out[frame.of]
  <2>1. form[i] \in AllForms /\ out[frame.of] \in Outcomes
    BY <1>1, <1>3, <1>6, <1>9, ChainAssumption DEF TypeOK, Outcomes, IsDone
  <2> QED
    BY <2>1, LaterFacts
<1> HIDE DEF b
<1> QED
  BY <1>3, <1>6, <1>9, <1>25, <1>26, <1>27, <1>28, <1>29, <1>30, EnterStep

(* What Attach does before it looks at the promise. *)
LEMMA AttachFacts ==
    ASSUME Inv, NEW t \in Threads, NEW i \in Stages, NEW p \in Promises,
           MayAttach(t, i, p), NEW f \in Forms, Attach(t, i, p, f)
    PROVE  /\ pc[i] = "none" /\ i \in Promises /\ ~IsDone(i) /\ p \in 0 .. i - 1 /\ p # i
           /\ parent'[i] = p /\ form'[i] = f
           /\ \A j \in Stages : j # i => parent'[j] = parent[j] /\ form'[j] = form[j]
           /\ t \in Promises => IsDone(t)
<1>1. TypeOK /\ StackInv
  BY DEF Inv
<1>2. pc[i] = "none" /\ p < i /\ InUserCode(t)
  BY DEF MayAttach
<1>3. i \in Promises /\ ~IsDone(i)
  BY <1>1, <1>2, Numbers DEF TypeOK
<1>4. p \in 0 .. i - 1 /\ p # i
  <2>1. p \in 0 .. N /\ i \in 1 .. N /\ N \in Nat
    BY Numbers DEF Promises, Stages
  <2> QED
    BY <1>2, <2>1
<1>5. parent' = [parent EXCEPT ![i] = p] /\ form' = [form EXCEPT ![i] = f]
  BY DEF Attach
<1>6. t \in Promises => IsDone(t)
  <2>1. CASE t \in Users
    BY <2>1, Numbers
  <2>2. CASE t \notin Users
    <3>1. stack[t] # <<>>
      BY <1>2, <2>2 DEF InUserCode, Top, Idle
    <3> QED
      BY <1>1, <3>1, BusyThread
  <2> QED
    BY <2>1, <2>2
<1> QED
  BY <1>1, <1>2, <1>3, <1>4, <1>5, <1>6 DEF TypeOK

(* The call of Then, Catch or Finally is on the stack. *)
LEMMA AttachClear ==
    ASSUME TypeOK, AwaitersInv, StackInv, NEW t \in Threads, NEW i \in Stages, pc[i] = "none"
    PROVE  LET st == [stack EXCEPT ![t] = <<Attaching(i)>> \o @] IN
           /\ Clear(st, t, i)
           /\ st[t] = <<Attaching(i)>> \o stack[t]
           /\ \A u \in Threads : \A g \in Range(st[u]) :
                 g \in Range(stack[u]) \/ (u = t /\ g = Attaching(i))
           /\ \A u \in Threads : Range(stack[u]) \subseteq Range(st[u])
<1>1. stack \in [Threads -> Seq(Calls)] /\ Unique(stack)
  BY DEF TypeOK, StackInv
<1>2. PICK f \in Calls : f = Attaching(i) /\ f.in = "attach" /\ f.of = i
  BY CallFacts
<1> DEFINE st == [stack EXCEPT ![t] = <<f>> \o @]
<1>3. Unique(st)
  <2>1. \A u \in Threads : \A g \in Range(stack[u]) : ~Same(f, g)
    BY <1>2 DEF Same
  <2> QED
    BY <1>1, <2>1, UniquePush
<1>4. /\ <<f>> \o stack[t] \in Seq(Calls)
      /\ Range(<<f>> \o stack[t]) = {f} \union Range(stack[t])
  BY <1>1, PushFacts
<1>5. /\ st \in [Threads -> Seq(Calls)] /\ st[t] = <<f>> \o stack[t]
      /\ Range(st[t]) = {f} \union Range(stack[t])
      /\ \A u \in Threads : u # t => st[u] = stack[u]
  BY <1>1, <1>4
<1> HIDE DEF st
<1>6. i \in Promises /\ ~IsDone(i)
  BY Numbers DEF TypeOK
<1>7. \A u \in Threads : \A g \in Range(stack[u]) :
         /\ g.in # "attach" => g.of # i
         /\ g.in = "fire" => i \notin Range(g.batch)
         /\ FrameOK(g)
  <2>1. /\ \A u \in Threads : \A g \in Range(stack[u]) :
              g.in = "fire" => i \notin Range(g.batch)
        /\ \A u \in Threads : \A g \in Range(stack[u]) : g.in = "call" => g.of # i
        /\ \A u \in Threads : \A g \in Range(stack[u]) : g.in = "fire" => g.of # i
        /\ \A u \in Threads : Range(stack[u]) \subseteq Calls
    BY <1>6, NotListed
  <2>2. \A u \in Threads : \A g \in Range(stack[u]) : g.in # "attach" => g.of # i
    BY <2>1 DEF Calls
  <2> QED
    BY <2>1, <2>2 DEF StackInv
<1>8. \A u \in Threads : \A g \in Range(st[u]) :
         g \in Range(stack[u]) \/ (u = t /\ g = f)
  BY <1>5
<1>9. \A u \in Threads : Range(stack[u]) \subseteq Range(st[u])
  BY <1>5
<1>10. \A u \in Threads : \A g \in Range(st[u]) :
         /\ g.in # "attach" => g.of # i
         /\ g.in = "fire" => i \notin Range(g.batch)
         /\ FrameOK(g) \/ (g.in = "attach" /\ g.of = i /\ i \in Stages)
  BY <1>2, <1>7, <1>8
<1>11. \A j \in Stages : FoundIn(stack, j) => FoundIn(st, j)
  BY <1>9 DEF FoundIn
<1>12. Clear(st, t, i)
  BY <1>3, <1>5, <1>10, <1>11 DEF Clear
<1> QED
  BY <1>2, <1>5, <1>8, <1>9, <1>12 DEF st

LEMMA AttachDoneStep ==
    ASSUME Inv, NEW t \in Threads, NEW i \in Stages, NEW p \in Promises,
           MayAttach(t, i, p), NEW f \in Forms, Attach(t, i, p, f), IsDone(p)
    PROVE  TreeInv' /\ StageInv' /\ AwaitersInv' /\ StackInv' /\ FoundInv'
<1>1. TypeOK /\ AwaitersInv /\ StackInv
  BY DEF Inv
<1>2. /\ pc[i] = "none" /\ i \in Promises /\ ~IsDone(i) /\ p \in 0 .. i - 1
      /\ parent'[i] = p /\ form'[i] = f
      /\ \A j \in Stages : j # i => parent'[j] = parent[j] /\ form'[j] = form[j]
      /\ t \in Promises => IsDone(t)
  BY AttachFacts
<1>0. PICK b : b = Now(f, out[p], isVoid[p])
  OBVIOUS
<1>3. Enter(t, i, b, <<Attaching(i)>> \o stack[t])
  BY <1>0 DEF Attach
<1>4. /\ b.lock \in BOOLEAN /\ (b.runs <=> Due(f, out[p]))
      /\ ~b.runs => b.out = out[p]
  <2>1. f \in AllForms /\ out[p] \in Outcomes /\ isVoid[p] \in BOOLEAN
    BY <1>1, ChainAssumption DEF TypeOK, Outcomes, IsDone
  <2> QED
    BY <1>0, <2>1, NowFacts
<1>9. PICK st : st = [stack EXCEPT ![t] = <<Attaching(i)>> \o @]
  OBVIOUS
<1>5. Clear(st, t, i) /\ st[t] = <<Attaching(i)>> \o stack[t]
  BY <1>1, <1>2, <1>9, AttachClear
<1>6. \A q \in Promises : i \notin Range(awaiters[q])
  BY <1>1, <1>2, NotListed
<1>7. Enter(t, i, b, st[t])
  BY <1>3, <1>5
<1>8. pc[i] \in {"none", "waiting"}
  BY <1>2
<1> QED
  <2>1. /\ parent'[i] = p /\ form'[i] = f /\ p \in 0 .. i - 1
        /\ \A j \in Stages : j # i => parent'[j] = parent[j] /\ form'[j] = form[j]
        /\ t \in Promises => IsDone(t)
    BY <1>2
  <2>2. Clear(st, t, i)
    BY <1>5
  <2> QED
    BY <1>4, <1>6, <1>7, <1>8, <2>1, <2>2, EnterStep

LEMMA AttachPendingStep ==
    ASSUME Inv, NEW t \in Threads, NEW i \in Stages, NEW p \in Promises,
           MayAttach(t, i, p), NEW f \in Forms, Attach(t, i, p, f), ~IsDone(p)
    PROVE  TreeInv' /\ StageInv' /\ AwaitersInv' /\ StackInv' /\ FoundInv'
<1>1. TypeOK /\ TreeInv /\ StageInv /\ AwaitersInv /\ StackInv /\ FoundInv
  BY DEF Inv
<1>2. /\ pc[i] = "none" /\ i \in Promises /\ ~IsDone(i) /\ p \in 0 .. i - 1
      /\ parent'[i] = p /\ form'[i] = f /\ i # 0
      /\ \A j \in Stages : j # i => parent'[j] = parent[j] /\ form'[j] = form[j]
      /\ t \in Promises => IsDone(t)
  BY AttachFacts, Numbers
<1>3. /\ awaiters' = [awaiters EXCEPT ![p] = Append(@, i)]
      /\ pc' = [pc EXCEPT ![i] = "waiting"] /\ out' = out /\ runs' = runs
      /\ stack' = [stack EXCEPT ![t] = <<Attaching(i)>> \o stack[t]]
  BY DEF Attach
<1>4. pc'[i] = "waiting" /\ \A j \in Stages : j # i => pc'[j] = pc[j]
  BY <1>1, <1>3 DEF TypeOK
<1>5. \A q : IsDone(q)' <=> IsDone(q)
  BY <1>3 DEF IsDone
<1>6. Others(i)
  BY <1>2, <1>3, <1>4 DEF Others
<1>7. Explained(i)'
  <2>1. runs[i] = 0
    BY <1>1, <1>2 DEF StageInv, Explained
  <2> QED
    BY <1>3, <1>4, <2>1 DEF Explained
<1>8. InOrder(i)'
  BY <1>2, <1>4, <1>7 DEF InOrder
<1>9. TreeInv' /\ StageInv'
  BY <1>1, <1>2, <1>6, <1>8, StageStep
<1>10. \A q \in Promises : i \notin Range(awaiters[q])
  BY <1>1, <1>2, NotListed
<1>11. /\ awaiters'[p] = Append(awaiters[p], i)
       /\ \A q \in Promises : q # p => awaiters'[q] = awaiters[q]
  BY <1>1, <1>3 DEF TypeOK
<1>12. /\ Range(awaiters'[p]) = Range(awaiters[p]) \union {i}
       /\ IsInjective(awaiters[p]) => IsInjective(awaiters'[p])
  <2>1. awaiters[p] \in Seq(Stages)
    BY <1>1 DEF TypeOK
  <2> QED
    BY <1>10, <1>11, <2>1, BatchFacts
<1>13. \A q \in Promises :
          /\ \A j \in Range(awaiters[q]) : pc'[j] = "waiting" /\ parent'[j] = q
          /\ IsInjective(awaiters[q])
  <2> TAKE q \in Promises
  <2>1. awaiters[q] \in Seq(Stages) /\ Waiting(awaiters[q], q) /\ i \notin Range(awaiters[q])
    BY <1>1, <1>10 DEF TypeOK, AwaitersInv
  <2> QED
    BY <1>2, <1>6, <2>1, WaitingKept
<1>14. AwaitersInv'
  <2>1. \A q \in Promises :
           /\ \A j \in Range(awaiters'[q]) : pc'[j] = "waiting" /\ parent'[j] = q
           /\ IsInjective(awaiters'[q])
    <3> TAKE q \in Promises
    <3>1. CASE q = p
      <4>1. IsInjective(awaiters'[q])
        BY <1>12, <1>13, <3>1
      <4>2. ASSUME NEW j \in Range(awaiters'[q])
            PROVE  pc'[j] = "waiting" /\ parent'[j] = q
        <5>1. j \in Range(awaiters[q]) \/ j = i
          BY <1>12, <3>1
        <5> QED
          BY <1>2, <1>4, <1>13, <3>1, <5>1
      <4> QED
        BY <4>1, <4>2
    <3>2. CASE q # p
      <4>1. awaiters'[q] = awaiters[q]
        BY <1>11, <3>2
      <4> QED
        BY <1>13, <4>1
    <3> QED
      BY <3>1, <3>2
  <2>2. \A q \in Promises : IsDone(q)' => awaiters'[q] = <<>>
    BY <1>1, <1>5, <1>11 DEF AwaitersInv
  <2> QED
    BY <2>1, <2>2 DEF AwaitersInv, Waiting
<1> DEFINE st == [stack EXCEPT ![t] = <<Attaching(i)>> \o @]
<1>15. /\ Clear(st, t, i)
       /\ \A u \in Threads : \A g \in Range(st[u]) :
             g \in Range(stack[u]) \/ (u = t /\ g = Attaching(i))
       /\ \A u \in Threads : Range(stack[u]) \subseteq Range(st[u])
  BY <1>1, <1>2, AttachClear
<1>16. stack' = st
  BY <1>3
<1> HIDE DEF st
<1>17. StackInv'
  <2>1. PICK c : c.of = i /\ c.in # "attach"
    <3>1. Calling(i, FALSE).of = i /\ Calling(i, FALSE).in # "attach"
      BY DEF Calling
    <3> QED
      BY <3>1
  <2>2. \A u \in Threads : \A g \in Range(st[u]) : FrameOK(g)'
    BY <1>1, <1>2, <1>6, <1>8, <1>15, <2>1, ClearStep
  <2>3. Unique(st)
    BY <1>15 DEF Clear
  <2>4. ASSUME NEW q \in Promises, ~IsDone(q)' PROVE stack'[q] = <<>>
    <3>1. stack[q] = <<>> /\ q # t /\ q \in Threads
      BY <1>1, <1>2, <1>5, <2>4, Numbers DEF StackInv
    <3> QED
      BY <1>15, <1>16, <3>1 DEF Clear
  <2> QED
    BY <1>16, <2>2, <2>3, <2>4 DEF StackInv, Unique
<1>18. FoundInv'
  <2> SUFFICES ASSUME NEW j \in Stages, pc'[j] = "waiting"
               PROVE  IF IsDone(parent[j])' THEN FoundIn(stack, j)'
                      ELSE j \in Range(awaiters'[parent'[j]])
    BY DEF FoundInv
  <2>1. CASE j = i
    <3>1. ~IsDone(parent[j])'
      BY <1>2, <1>3, <2>1 DEF IsDone
    <3> QED
      BY <1>2, <1>12, <2>1, <3>1
  <2>2. CASE j # i
    <3>1. pc[j] = "waiting" /\ parent'[j] = parent[j]
      BY <1>2, <1>4, <2>2
    <3>2. parent[j] \in Promises
      BY <1>1, <3>1, ParentFacts
    <3>3. IsDone(parent[j])' <=> IsDone(parent[j])
      BY <1>3, <3>1 DEF IsDone
    <3>4. CASE IsDone(parent[j])
      <4>1. FoundIn(stack, j)
        BY <1>1, <3>1, <3>4 DEF FoundInv
      <4>2. FoundIn(st, j)
        BY <1>15, <2>2, <4>1 DEF Clear
      <4>3. FoundIn(stack, j)'
        BY <1>16, <3>1, <4>2 DEF FoundIn
      <4> QED
        BY <3>3, <3>4, <4>3
    <3>5. CASE ~IsDone(parent[j])
      <4>1. j \in Range(awaiters[parent[j]])
        BY <1>1, <3>1, <3>5 DEF FoundInv
      <4>2. j \in Range(awaiters'[parent[j]])
        <5>1. CASE parent[j] = p
          <6>1. j \in Range(awaiters[p])
            BY <4>1, <5>1
          <6>2. j \in Range(awaiters'[p])
            BY <1>12, <6>1
          <6> QED
            BY <5>1, <6>2
        <5>2. CASE parent[j] # p
          <6>1. awaiters'[parent[j]] = awaiters[parent[j]]
            BY <1>11, <3>2, <5>2
          <6> QED
            BY <4>1, <6>1
        <5> QED
          BY <5>1, <5>2
      <4>3. j \in Range(awaiters'[parent'[j]])
        BY <3>1, <4>2
      <4> QED
        BY <3>3, <3>5, <4>3
    <3> QED
      BY <3>4, <3>5
  <2> QED
    BY <2>1, <2>2
<1> QED
  BY <1>9, <1>14, <1>17, <1>18

(* A step that moves no stage. *)
LEMMA Steady ==
    ASSUME TreeInv, StageInv, UNCHANGED <<parent, form, out, pc, runs>>
    PROVE  /\ TreeInv' /\ StageInv'
           /\ \A f : FrameOK(f) => FrameOK(f)'
<1>1. TreeInv'
  BY DEF TreeInv, IsDone
<1>2. StageInv'
  BY DEF StageInv, Explained, IsDone
<1>3. \A f : FrameOK(f) => FrameOK(f)'
  BY DEF FrameOK, Waiting, IsDone
<1> QED
  BY <1>1, <1>2, <1>3

LEMMA PopSteady ==
    ASSUME Inv, NEW t \in Threads, stack[t] # <<>>,
           stack' = [stack EXCEPT ![t] = Tail(@)],
           UNCHANGED <<parent, form, out, awaiters, pc, runs>>,
           Head(stack[t]).in = "fire" => Head(stack[t]).batch = <<>>
    PROVE  TreeInv' /\ StageInv' /\ AwaitersInv' /\ StackInv' /\ FoundInv'
<1>1. TypeOK /\ TreeInv /\ StageInv /\ AwaitersInv /\ StackInv /\ FoundInv
  BY DEF Inv
<1>2. TreeInv' /\ StageInv' /\ \A f : FrameOK(f) => FrameOK(f)'
  BY <1>1, Steady
<1>3. \A u \in Threads : \A g \in Range(stack[u]) :
         ~Same(Head(stack[t]), g) => FrameOK(g)'
  BY <1>1, <1>2 DEF StackInv
<1>4. \A q \in Promises : \A j \in Range(awaiters[q]) :
         pc'[j] = "waiting" /\ parent'[j] = q
  BY <1>1 DEF AwaitersInv, Waiting
<1>5. AwaitersInv' /\ StackInv' /\ FoundInv'
  BY <1>1, <1>3, <1>4, PopStep
<1> QED
  BY <1>2, <1>5

LEMMA FiredStep ==
    ASSUME Inv, NEW t \in Threads, Fired(t)
    PROVE  TreeInv' /\ StageInv' /\ AwaitersInv' /\ StackInv' /\ FoundInv'
<1>1. stack[t] # <<>> /\ Head(stack[t]).batch = <<>>
  BY DEF Fired, Top, Idle
<1>2. /\ stack' = [stack EXCEPT ![t] = Tail(@)]
      /\ UNCHANGED <<parent, form, out, awaiters, pc, runs>>
  BY DEF Fired, stageVars, promiseVars
<1> QED
  BY <1>1, <1>2, PopSteady

LEMMA AttachedStep ==
    ASSUME Inv, NEW t \in Threads, Attached(t)
    PROVE  TreeInv' /\ StageInv' /\ AwaitersInv' /\ StackInv' /\ FoundInv'
<1>1. stack[t] # <<>> /\ Head(stack[t]).in # "fire"
  BY DEF Attached, Top, Idle
<1>2. /\ stack' = [stack EXCEPT ![t] = Tail(@)]
      /\ UNCHANGED <<parent, form, out, awaiters, pc, runs>>
  BY DEF Attached, stageVars
<1> QED
  BY <1>1, <1>2, PopSteady

LEMMA SuspendStep ==
    ASSUME Inv, NEW t \in Threads, Suspend(t)
    PROVE  TreeInv' /\ StageInv' /\ AwaitersInv' /\ StackInv' /\ FoundInv'
<1>1. TypeOK /\ TreeInv /\ StageInv /\ AwaitersInv /\ StackInv /\ FoundInv
  BY DEF Inv
<1>2. Top(t, "call")
  BY DEF Suspend
<1>3. PICK i \in Stages : i = Head(stack[t]).of /\ pc[i] = "calling"
  BY <1>1, <1>2, CallTop
<1>4. stack[t] # <<>> /\ Head(stack[t]).in = "call"
  BY <1>2 DEF Top, Idle
<1>5. /\ pc' = [pc EXCEPT ![i] = "suspended"] /\ stack' = [stack EXCEPT ![t] = Tail(@)]
      /\ UNCHANGED <<parent, form, out, awaiters, runs>>
  BY <1>3 DEF Suspend, stageVars, promiseVars
<1>6. pc'[i] = "suspended" /\ \A j \in Stages : j # i => pc'[j] = pc[j]
  BY <1>1, <1>5 DEF TypeOK
<1>7. i \in Promises /\ ~IsDone(i) /\ i # 0
  BY <1>1, <1>3, Numbers DEF TypeOK
<1>8. Others(i)
  BY <1>5, <1>6 DEF Others
<1>9. InOrder(i)'
  <2>1. parent[i] \in 0 .. i - 1 /\ form[i] \in Forms /\ IsDone(parent[i])
    BY <1>1, <1>3 DEF TreeInv
  <2>2. Explained(i)'
    <3>1. runs[i] = 1 /\ Due(form[i], out[parent[i]])
      BY <1>1, <1>3 DEF StageInv, Explained
    <3> QED
      BY <1>5, <1>6, <3>1 DEF Explained
  <2> QED
    BY <1>5, <1>6, <1>7, <2>1, <2>2 DEF InOrder, IsDone
<1>10. TreeInv' /\ StageInv'
  BY <1>1, <1>7, <1>8, <1>9, StageStep
<1>11. /\ \A q \in Promises : i \notin Range(awaiters[q])
       /\ \A u \in Threads : \A g \in Range(stack[u]) :
             g.in = "fire" => i \notin Range(g.batch)
       /\ \A u \in Threads : Range(stack[u]) \subseteq Calls
  BY <1>1, <1>3, <1>7, NotListed
<1>12. \A q \in Promises : \A j \in Range(awaiters[q]) :
          pc'[j] = "waiting" /\ parent'[j] = q
  <2> TAKE q \in Promises
  <2>1. awaiters[q] \in Seq(Stages) /\ Waiting(awaiters[q], q) /\ i \notin Range(awaiters[q])
    BY <1>1, <1>11 DEF TypeOK, AwaitersInv
  <2> QED
    BY <1>7, <1>8, <2>1, WaitingKept
<1>13. \A u \in Threads : \A g \in Range(stack[u]) :
          ~Same(Head(stack[t]), g) => FrameOK(g)'
  <2> SUFFICES ASSUME NEW u \in Threads, NEW g \in Range(stack[u]), ~Same(Head(stack[t]), g)
               PROVE  FrameOK(g)'
    OBVIOUS
  <2>1. g \in Calls /\ FrameOK(g) /\ (g.in = "fire" => i \notin Range(g.batch))
    BY <1>1, <1>11 DEF StackInv
  <2>2. g.in = "call" => g.of # i
    BY <1>3, <1>4 DEF Same
  <2> QED
    BY <1>1, <1>7, <1>8, <1>9, <2>1, <2>2, FrameKept
<1>14. \A j \in Stages : pc'[j] = "waiting" => pc[j] = "waiting" /\ parent'[j] = parent[j]
  BY <1>5, <1>6
<1>15. AwaitersInv' /\ StackInv' /\ FoundInv'
  BY <1>1, <1>4, <1>5, <1>12, <1>13, <1>14, PopStep
<1> QED
  BY <1>10, <1>15

LEMMA InitInv == Init => Inv
<1> SUFFICES ASSUME Init PROVE Inv
  OBVIOUS
<1>1. \A q \in Promises : out[q] = Pending /\ ~IsDone(q) /\ awaiters[q] = <<>>
  BY DEF Init, IsDone
<1>2. /\ \A i \in Stages : pc[i] = "none" /\ parent[i] = Nobody /\ runs[i] = 0
      /\ \A t \in Threads : stack[t] = <<>>
  BY DEF Init
<1>3. <<>> \in Seq(Stages) /\ <<>> \in Seq(Calls) /\ Range(<<>>) = {} /\ IsInjective(<<>>)
  BY DEF Range, IsInjective
<1>4. TypeOK
  <2>1. PICK void \in BOOLEAN : isVoid = [p \in Promises |-> void]
    BY DEF Init
  <2>2. held \in [Promises -> BOOLEAN]
    <3>1. \A p \in Promises : (p = 0) \in BOOLEAN
      OBVIOUS
    <3> QED
      BY <3>1 DEF Init
  <2>3. \A i \in Stages : pc[i] = "settled" <=> IsDone(i)
    BY <1>1, <1>2, Numbers
  <2> QED
    BY <1>3, <2>1, <2>2, <2>3 DEF Init, TypeOK
<1>5. TreeInv /\ FoundInv
  BY <1>2 DEF TreeInv, FoundInv
<1>6. StageInv
  BY <1>1, <1>2, Numbers DEF StageInv, Explained
<1>7. AwaitersInv
  BY <1>1, <1>3 DEF AwaitersInv, Waiting
<1>8. StackInv
  <2>1. \A t \in Promises : stack[t] = <<>>
    BY <1>2, Numbers
  <2>2. \A t \in Threads : Distinct(stack[t])
    BY <1>2 DEF Distinct
  <2>3. Unique(stack)
    BY <1>2, <1>3, <2>2 DEF Unique
  <2> QED
    BY <1>2, <1>3, <2>1, <2>3 DEF StackInv
<1> QED
  BY <1>4, <1>5, <1>6, <1>7, <1>8 DEF Inv

LEMMA InvStep == Inv /\ [Next]_vars => Inv'
<1> SUFFICES ASSUME Inv, [Next]_vars PROVE Inv'
  OBVIOUS
<1>1. TypeOK /\ TreeInv /\ StageInv /\ AwaitersInv /\ StackInv /\ FoundInv
  BY DEF Inv
<1>2. CASE Next
  <2>1. TypeOK'
    BY <1>1, <1>2, TypeStep
  <2>2. TreeInv' /\ StageInv' /\ AwaitersInv' /\ StackInv' /\ FoundInv'
    <3>1. ASSUME NEW t \in Threads, Step(t)
          PROVE  TreeInv' /\ StageInv' /\ AwaitersInv' /\ StackInv' /\ FoundInv'
      BY <3>1, RootStep, AttachedStep, FireStep, FiredStep, ReturnStep, SuspendStep,
         ResumeStep DEF Step
    <3>2. ASSUME NEW t \in Threads, NEW i \in Stages, NEW p \in Promises,
                 MayAttach(t, i, p), NEW f \in Forms, Attach(t, i, p, f)
          PROVE  TreeInv' /\ StageInv' /\ AwaitersInv' /\ StackInv' /\ FoundInv'
      BY <3>2, AttachDoneStep, AttachPendingStep
    <3> QED
      BY <1>2, <3>1, <3>2 DEF Next
  <2> QED
    BY <2>1, <2>2 DEF Inv
<1>3. CASE UNCHANGED vars
  <2>1. UNCHANGED <<parent, form, isVoid, out, awaiters, selfOwned, held, pc, runs, eager,
                    stack>>
    BY <1>3 DEF vars, stageVars, promiseVars
  <2>2. TypeOK'
    BY <1>1, <2>1 DEF TypeOK, IsDone
  <2>3. TreeInv' /\ StageInv' /\ \A f : FrameOK(f) => FrameOK(f)'
    BY <1>1, <2>1, Steady
  <2>4. AwaitersInv'
    BY <1>1, <2>1 DEF AwaitersInv, Waiting, IsDone
  <2>5. StackInv'
    BY <1>1, <2>1, <2>3 DEF StackInv, Unique, IsDone
  <2>6. FoundInv'
    BY <1>1, <2>1 DEF FoundInv, FoundIn, IsDone
  <2> QED
    BY <2>2, <2>3, <2>4, <2>5, <2>6 DEF Inv
<1> QED
  BY <1>2, <1>3

------------------------------------------------------------------------------
(* The invariant: a stage hangs below an older promise, has done what its
   place says, and, as long as it waits, is in one list of awaiters of a
   pending promise or in one batch that an OnResolved is still to call. *)
THEOREM ChainInvariant == Spec => []Inv
BY InitInv, InvStep, PTL DEF Spec

(* The types of the tree of promises, and that a stage is settled exactly
   when its promise has an outcome. *)
THEOREM ChainTypes == Spec => []TypeOK
<1>1. Inv => TypeOK
  BY DEF Inv
<1> QED
  BY <1>1, ChainInvariant, PTL

------------------------------------------------------------------------------
(* The functions that are called. *)

LEMMA DueFacts ==
    ASSUME NEW f \in AllForms, NEW o \in Outcomes
    PROVE  Due(f, o) <=> \/ f.op = "then" /\ o.ok
                         \/ f.op = "catch" /\ ~o.ok /\ f.matches
                         \/ f.op = "finally"
BY DEF Due

(* A stage that has settled, and the promise it is attached to. *)
LEMMA SettledStage ==
    ASSUME TypeOK, TreeInv, StageInv, NEW i \in Stages, IsDone(i)
    PROVE  /\ parent[i] \in 0 .. i - 1 /\ parent[i] \in Promises /\ IsDone(parent[i])
           /\ form[i] \in AllForms /\ out[parent[i]] \in Outcomes
           /\ \/ runs[i] = 1 /\ Due(form[i], out[parent[i]])
                 /\ out[i] = Result(i, form[i], out[parent[i]])
              \/ runs[i] = 0 /\ ~Due(form[i], out[parent[i]]) /\ out[i] = out[parent[i]]
<1>1. pc[i] = "settled"
  BY DEF TypeOK
<1>2. IsDone(parent[i])
  BY <1>1 DEF TreeInv
<1>3. /\ parent[i] \in 0 .. i - 1 /\ parent[i] \in Promises
      /\ form[i] \in AllForms /\ out[parent[i]] \in Outcomes
  BY <1>1, <1>2, ParentFacts
<1> QED
  BY <1>1, <1>2, <1>3 DEF StageInv, Explained

(* CalledOnce: whichever thread settles a promise and however Then, Catch and
   Finally race with it, the function of a stage is called at most once, and
   only a stage that the outcome goes through settles without the call. *)
THEOREM CalledOnceTheorem == Spec => []CalledOnce
<1>1. Inv => CalledOnce
  <2> SUFFICES ASSUME Inv, NEW i \in Stages
               PROVE  /\ runs[i] <= 1
                      /\ pc[i] \in {"none", "waiting"} => runs[i] = 0
                      /\ pc[i] = "settled" /\ runs[i] = 0 => Transparent(i, out[parent[i]])
    BY DEF CalledOnce
  <2>1. TypeOK /\ TreeInv /\ StageInv
    BY DEF Inv
  <2>2. pc[i] \in {"none", "waiting", "calling", "suspended", "settled"}
    BY <2>1 DEF TypeOK
  <2>3. Explained(i)
    BY <2>1 DEF StageInv
  <2>4. runs[i] = 0 \/ runs[i] = 1
    BY <2>2, <2>3 DEF Explained
  <2>5. ASSUME pc[i] = "settled", runs[i] = 0 PROVE Transparent(i, out[parent[i]])
    <3>1. IsDone(i)
      BY <2>1, <2>5 DEF TypeOK
    <3>2. /\ form[i] \in AllForms /\ out[parent[i]] \in Outcomes
          /\ ~Due(form[i], out[parent[i]])
      BY <2>1, <2>5, <3>1, SettledStage
    <3>3. form[i].op \in {"then", "catch", "finally"}
      BY <3>2 DEF AllForms
    <3> QED
      BY <3>2, <3>3, DueFacts DEF Transparent
  <2> QED
    BY <2>3, <2>4, <2>5 DEF Explained
<1> QED
  BY <1>1, ChainInvariant, PTL

(* NoStageLost: a stage that waits is among the awaiters of its promise as
   long as that one is pending, and among the callbacks an OnResolved is still
   to call when it has settled; Attach and Settle cannot both miss it. *)
THEOREM NoStageLostTheorem == Spec => []NoStageLost
<1>1. Inv => NoStageLost
  <2> SUFFICES ASSUME Inv PROVE NoStageLost
    OBVIOUS
  <2>1. \A t \in Threads : Range(stack[t]) \subseteq Frames
    BY DEF Frames, Range
  <2>2. FoundInv /\ AwaitersInv
    BY DEF Inv
  <2>3. ASSUME NEW i \in Stages, pc[i] = "waiting", IsDone(parent[i])
        PROVE  \E f \in Frames : f.of = parent[i] /\ i \in Range(f.batch)
    BY <2>1, <2>2, <2>3 DEF FoundInv, FoundIn
  <2>4. ASSUME NEW i \in Stages, pc[i] = "waiting", ~IsDone(parent[i])
        PROVE  i \in Range(awaiters[parent[i]])
    BY <2>2, <2>4 DEF FoundInv
  <2>5. \A p \in Promises : \A i \in Range(awaiters[p]) : pc[i] = "waiting" /\ parent[i] = p
    BY <2>2 DEF AwaitersInv, Waiting
  <2> QED
    BY <2>3, <2>4, <2>5 DEF NoStageLost
<1> QED
  BY <1>1, ChainInvariant, PTL

------------------------------------------------------------------------------
(* The promises from a stage up to the root. *)

LEMMA LeastNumber ==
    ASSUME NEW S \in SUBSET Nat, S # {}
    PROVE  \E n \in S : \A m \in S : ~(m < n)
<1>1. \E n \in S : \A m \in S : ~(<<m, n>> \in OpToRel(<, Nat))
  BY WFMin, NatLessThanWellFounded
<1> QED
  BY <1>1 DEF OpToRel

(* One step of Lineage, from g, what is known below. *)
Above(q, g) == IF q = 0 \/ parent[q] = Nobody THEN {q} ELSE {q} \union g[parent[q]]

Below == \A q \in Stages : parent[q] = Nobody \/ parent[q] \in 0 .. q - 1

LEMMA LineageExists ==
    ASSUME Below
    PROVE  \A n \in Promises : \E g \in [0 .. n -> SUBSET Promises] :
              \A q \in 0 .. n : g[q] = Above(q, g)
<1> DEFINE Good(n) == \E g \in [0 .. n -> SUBSET Promises] :
                         \A q \in 0 .. n : g[q] = Above(q, g)
<1> SUFFICES ASSUME \E n \in Promises : ~Good(n) PROVE FALSE
  OBVIOUS
<1>1. {n \in Promises : ~Good(n)} \in SUBSET Nat /\ {n \in Promises : ~Good(n)} # {}
  BY Numbers
<1>2. PICK n \in {m \in Promises : ~Good(m)} : \A m \in {k \in Promises : ~Good(k)} : ~(m < n)
  BY <1>1, LeastNumber
<1>3. n \in Promises /\ n \in Nat /\ ~Good(n) /\ n <= N /\ N \in Nat
  BY <1>2, Numbers DEF Promises
<1>4. CASE n = 0
  <2> DEFINE g == [q \in 0 .. 0 |-> {0}]
  <2>1. g \in [0 .. n -> SUBSET Promises]
    BY <1>4, Numbers
  <2>2. \A q \in 0 .. n : g[q] = Above(q, g)
    BY <1>4 DEF Above
  <2> QED
    BY <1>3, <2>1, <2>2
<1>5. CASE n # 0
  <2>1. n - 1 \in Nat /\ n - 1 \in Promises /\ n - 1 < n
    BY <1>3, <1>5 DEF Promises
  <2>2. Good(n - 1)
    BY <1>2, <2>1
  <2>3. PICK h \in [0 .. n - 1 -> SUBSET Promises] : \A q \in 0 .. n - 1 : h[q] = Above(q, h)
    BY <2>2
  <2> DEFINE g == [q \in 0 .. n |-> IF q = n THEN Above(n, h) ELSE h[q]]
  <2>4. \A q \in 0 .. n : /\ q \in Promises /\ (q # n => q \in 0 .. n - 1)
                          /\ q # 0 => q \in Stages
    BY <1>3 DEF Promises, Stages
  <2>5. \A q \in 0 .. n : q # 0 /\ parent[q] # Nobody => parent[q] \in 0 .. n - 1
    <3> SUFFICES ASSUME NEW q \in 0 .. n, q # 0, parent[q] # Nobody
                 PROVE  parent[q] \in 0 .. n - 1
      OBVIOUS
    <3>1. parent[q] \in 0 .. q - 1
      BY <2>4 DEF Below
    <3> QED
      BY <1>3, <3>1
  <2>6. Above(n, h) \in SUBSET Promises
    BY <1>3, <2>3, <2>5 DEF Above
  <2>7. g \in [0 .. n -> SUBSET Promises]
    BY <2>4, <2>6
  <2>8. \A q \in 0 .. n - 1 : g[q] = h[q]
    BY <1>3
  <2>9. g[n] = Above(n, h)
    BY <1>3
  <2> HIDE DEF g
  <2>10. \A q \in 0 .. n : Above(q, g) = Above(q, h)
    BY <2>5, <2>8 DEF Above
  <2>11. \A q \in 0 .. n : g[q] = Above(q, g)
    BY <2>3, <2>4, <2>8, <2>9, <2>10
  <2> QED
    BY <1>3, <2>7, <2>11
<1> QED
  BY <1>4, <1>5

LEMMA LineageStep ==
    ASSUME Below, NEW p \in Promises
    PROVE  Lineage(p) = IF p = 0 \/ parent[p] = Nobody THEN {p}
                        ELSE {p} \union Lineage(parent[p])
<1> DEFINE Up == CHOOSE f : f = [q \in Promises |->
                    IF q = 0 \/ parent[q] = Nobody THEN {q} ELSE {q} \union f[parent[q]]]
<1>1. N \in Promises /\ Promises = 0 .. N
  BY Numbers DEF Promises
<1>2. PICK g \in [0 .. N -> SUBSET Promises] : \A q \in 0 .. N : g[q] = Above(q, g)
  BY <1>1, LineageExists
<1>3. g = [q \in Promises |->
              IF q = 0 \/ parent[q] = Nobody THEN {q} ELSE {q} \union g[parent[q]]]
  BY <1>1, <1>2 DEF Above
<1>4. Up = [q \in Promises |->
              IF q = 0 \/ parent[q] = Nobody THEN {q} ELSE {q} \union Up[parent[q]]]
  BY <1>3, Zenon
<1>5. \A q : Lineage(q) = Up[q]
  BY Zenon DEF Lineage
<1> HIDE DEF Up
<1>6. Up[p] = IF p = 0 \/ parent[p] = Nobody THEN {p} ELSE {p} \union Up[parent[p]]
  BY <1>4
<1> QED
  BY <1>5, <1>6

------------------------------------------------------------------------------
(* Where the outcome of promise p comes from: what OutcomeExplained says of a
   stage, and of the root too. *)
From(p) ==
    LET o == out[p] IN
    /\ o.by \in Lineage(p)
    /\ out[o.by] = o
    /\ o.by \in Stages =>
         /\ runs[o.by] = 1
         /\ o.ok = ~form[o.by].throws
         /\ form[o.by].op = "finally" => ~o.ok
         /\ ~Transparent(o.by, out[parent[o.by]])
    /\ \A k \in Lineage(p) \ Lineage(o.by) : Transparent(k, o)

LEMMA BelowFacts ==
    ASSUME TypeOK, TreeInv
    PROVE  Below
BY DEF TreeInv, Below

(* The outcome of a stage is its own, or it is the one of the promise above
   and the stage is one that it goes through. *)
LEMMA OwnOrPassed ==
    ASSUME TypeOK, TreeInv, StageInv, NEW i \in Stages, IsDone(i)
    PROVE  \/ /\ runs[i] = 1 /\ out[i].by = i
              /\ out[i].ok = ~form[i].throws
              /\ form[i].op = "finally" => ~out[i].ok
              /\ ~Transparent(i, out[parent[i]])
           \/ out[i] = out[parent[i]] /\ Transparent(i, out[parent[i]])
<1> DEFINE o == out[parent[i]]
           f == form[i]
<1>1. /\ f \in AllForms /\ o \in Outcomes
      /\ \/ runs[i] = 1 /\ Due(f, o) /\ out[i] = Result(i, f, o)
         \/ runs[i] = 0 /\ ~Due(f, o) /\ out[i] = o
  BY SettledStage
<1>2. /\ f.op \in {"then", "catch", "finally"} /\ f.throws \in BOOLEAN
      /\ f.matches \in BOOLEAN /\ o.ok \in BOOLEAN
  BY <1>1 DEF AllForms, Outcomes
<1>3. Due(f, o) <=> \/ f.op = "then" /\ o.ok
                    \/ f.op = "catch" /\ ~o.ok /\ f.matches
                    \/ f.op = "finally"
  BY <1>1, DueFacts
<1>4. Transparent(i, o) <=> \/ f.op = "then" /\ ~o.ok
                            \/ f.op = "catch" /\ (o.ok \/ ~f.matches)
                            \/ f.op = "finally" /\ ~f.throws
  BY DEF Transparent
<1>5. Result(i, f, o) = IF f.throws THEN Exception(i)
                        ELSE IF f.op = "finally" THEN o ELSE Value(i)
  BY <1>2 DEF Result
<1>6. /\ Value(i).ok = TRUE /\ Value(i).by = i
      /\ Exception(i).ok = FALSE /\ Exception(i).by = i
  BY DEF Value, Exception
<1> HIDE DEF o, f
<1>7. CASE ~Due(f, o)
  BY <1>1, <1>2, <1>3, <1>4, <1>7 DEF o
<1>8. CASE Due(f, o) /\ f.throws
  <2>1. runs[i] = 1 /\ out[i] = Exception(i) /\ ~Transparent(i, o)
    BY <1>1, <1>2, <1>3, <1>4, <1>5, <1>8
  <2>2. out[i].by = i /\ out[i].ok = ~f.throws /\ ~out[i].ok
    BY <1>2, <1>6, <1>8, <2>1
  <2> QED
    BY <2>1, <2>2 DEF o, f
<1>9. CASE Due(f, o) /\ ~f.throws /\ f.op = "finally"
  BY <1>1, <1>4, <1>5, <1>9 DEF o
<1>10. CASE Due(f, o) /\ ~f.throws /\ f.op # "finally"
  <2>1. runs[i] = 1 /\ out[i] = Value(i) /\ ~Transparent(i, o)
    BY <1>1, <1>2, <1>3, <1>4, <1>5, <1>10
  <2>2. out[i].by = i /\ out[i].ok = ~f.throws
    BY <1>2, <1>6, <1>10, <2>1
  <2> QED
    BY <1>10, <2>1, <2>2 DEF o, f
<1> QED
  BY <1>2, <1>7, <1>8, <1>9, <1>10

LEMMA AllFrom ==
    ASSUME Inv
    PROVE  \A p \in Promises : IsDone(p) => From(p)
<1>1. TypeOK /\ TreeInv /\ StageInv /\ Below
  BY BelowFacts DEF Inv
<1> SUFFICES ASSUME \E p \in Promises : IsDone(p) /\ ~From(p) PROVE FALSE
  OBVIOUS
<1> DEFINE Bad == {p \in Promises : IsDone(p) /\ ~From(p)}
<1>2. Bad \in SUBSET Nat /\ Bad # {}
  BY Numbers
<1>3. PICK p \in Bad : \A m \in Bad : ~(m < p)
  BY <1>2, LeastNumber
<1>4. p \in Promises /\ IsDone(p) /\ ~From(p) /\ p \in Nat
  BY <1>3, Numbers
<1>5. CASE p = 0
  <2>1. out[0].by = 0
    BY <1>1, <1>4, <1>5, OutcomeFacts, Numbers DEF StageInv
  <2>2. Lineage(0) = {0} /\ 0 \notin Stages
    BY <1>1, LineageStep, Numbers
  <2>3. From(0)
    BY <2>1, <2>2 DEF From
  <2> QED
    BY <1>4, <1>5, <2>3
<1>6. CASE p # 0
  <2>1. p \in Stages
    BY <1>4, <1>6, Numbers
  <2>2. PICK q \in Promises : /\ q = parent[p] /\ q \in 0 .. p - 1 /\ IsDone(q)
    BY <1>1, <1>4, <2>1, SettledStage
  <2>3. q < p /\ q # Nobody
    BY <1>4, <2>2, Numbers
  <2>4. From(q)
    BY <1>3, <2>2, <2>3
  <2>5. Lineage(p) = {p} \union Lineage(q)
    BY <1>1, <1>4, <1>6, <2>2, <2>3, LineageStep
  <2>6. CASE /\ runs[p] = 1 /\ out[p].by = p
             /\ out[p].ok = ~form[p].throws
             /\ form[p].op = "finally" => ~out[p].ok
             /\ ~Transparent(p, out[parent[p]])
    <3>1. From(p)
      BY <2>5, <2>6 DEF From
    <3> QED
      BY <1>4, <3>1
  <2>7. CASE out[p] = out[q] /\ Transparent(p, out[q])
    <3>1. out[q].by \in Lineage(p)
      BY <2>4, <2>5 DEF From
    <3>2. \A k \in Lineage(p) \ Lineage(out[q].by) : Transparent(k, out[q])
      BY <2>4, <2>5, <2>7 DEF From
    <3>3. From(p)
      BY <2>4, <2>7, <3>1, <3>2 DEF From
    <3> QED
      BY <1>4, <3>3
  <2> QED
    BY <1>1, <1>4, <2>1, <2>2, <2>6, <2>7, OwnOrPassed
<1> QED
  BY <1>5, <1>6

(* OutcomeExplained: a chain of Then, Catch and Finally means what try, catch
   and finally mean, however deep it is and in whatever mixture of the eager
   and the deferred branches its stages ran: the outcome of a stage is the one
   of the root or of one function above it that had to run and ran, and every
   stage on the way down lets such an outcome through. *)
THEOREM OutcomeExplainedTheorem == Spec => []OutcomeExplained
<1>1. Inv => OutcomeExplained
  <2>1. ASSUME Inv PROVE \A i \in Stages : IsDone(i) => From(i)
    BY <2>1, AllFrom, Numbers
  <2> QED
    BY <2>1 DEF OutcomeExplained, From
<1> QED
  BY <1>1, ChainInvariant, PTL
=============================================================================
