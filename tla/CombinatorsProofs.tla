-------------------------- MODULE CombinatorsProofs --------------------------
(***************************************************************************)
(* Proofs about All and Race, for any number of members, of which some     *)
(* belong to both, and any order in which they settle.                     *)
(***************************************************************************)
EXTENDS Combinators, FiniteSetTheorems, SequenceTheorems, TLAPS

(* The types of the variables that the proofs are about. *)
Types ==
    /\ out \in [Members -> Outcomes]
    /\ \A m \in Members : out[m] = Pending \/ out[m].by = m
    /\ awaiters \in [Members -> Seq({"all", "race"})]
    /\ batch \in [Members -> Seq({"all", "race"})]
    /\ order \in Seq(AllOf)
    /\ pos \in 1 .. Len(order) + 1
    /\ allOut \in Outcomes
    /\ racePc \in {"test", "join", "attach"}
    /\ turn \in 1 .. Len(Contestants) + 1
    /\ claimed \in BOOLEAN
    /\ last \in Chain
    /\ chain \in [Chain -> Outcomes]
    /\ finally \in [Chain -> RaceOf \union {0}]
    /\ carry \in [Threads -> [at : Chain, out : Outcomes]]
    /\ unawait \in [Threads -> RaceOf \union {0}]

(* All has found resolved what it has passed, and its arguments are what it
   awaits. *)
AllInv ==
    /\ \A m \in AllOf : \E k \in 1 .. Len(order) : order[k] = m
    /\ \A j \in 1 .. Len(order) : j < pos => out[order[j]].ok
    /\ AllOutcome

(* Callbacks are called for members that have settled, and Race has put its
   own on contestants only. *)
BatchInv ==
    \A m \in Members :
        /\ batch[m] # <<>> => IsDone(m)
        /\ "race" \in Range(awaiters[m]) \union Range(batch[m]) => m \in RaceOf

(* Whatever is on its way down the chain or has arrived is the outcome of one
   contestant, which has settled. *)
WonBy(w) ==
    /\ claimed => IsDone(w)
    /\ \A t \in Threads : carry[t] # Nothing => claimed /\ carry[t].out = out[w]
    /\ \A k \in Chain : chain[k] # Pending => claimed /\ chain[k] = out[w]

WinnerInv == \E w \in RaceOf : WonBy(w)

(* The chain settles from its head, through one thread at a time, which has
   come to its first pending promise. *)
ChainInv ==
    /\ last < turn
    /\ racePc # "test" => turn <= Len(Contestants)
    /\ \A k \in Chain : chain[k] # Pending => k <= last
    /\ \A j, k \in Chain : j <= k /\ chain[k] # Pending => chain[j] # Pending
    /\ \A k \in Chain : finally[k] # 0 => k < last /\ chain[k] = Pending
    /\ \A t \in Threads : carry[t] # Nothing =>
          /\ carry[t].at <= last
          /\ chain[carry[t].at] = Pending
          /\ \A j \in Chain : j < carry[t].at => chain[j] # Pending
    /\ \A t, u \in Threads : carry[t] # Nothing /\ carry[u] # Nothing => t = u
    /\ \A t \in Threads : unawait[t] # 0 => carry[t] # Nothing

(* The callback of Race on member m has somebody to unregister it. *)
Covered(m) ==
    \/ racePc = "attach" /\ Contestants[turn] = m
    \/ \E k \in Chain : finally[k] = m
    \/ \E t \in Threads : unawait[t] = m

(* Race has come to member m. *)
Met(m) ==
    \E i \in 1 .. Len(Contestants) :
        Contestants[i] = m /\ (i < turn \/ (i = turn /\ racePc = "attach"))

Once(s) == \A i, j \in DOMAIN s : s[i] = "race" /\ s[j] = "race" => i = j

(* A callback that is registered is registered once, by a Race that has come
   to that contestant, and will be unregistered. *)
RegisteredInv ==
    \A m \in Members :
        /\ Once(awaiters[m])
        /\ "race" \in Range(awaiters[m]) => Met(m) /\ Covered(m)

------------------------------------------------------------------------------
(* Facts about the constants and about sequences. *)

LEMMA Arguments ==
    /\ 0 \notin Members /\ RaceOf \subseteq Members /\ 0 \notin RaceOf /\ RaceOf # {}
    /\ Len(Contestants) \in Nat /\ Len(Contestants) > 0
    /\ \A i \in 1 .. Len(Contestants) : Contestants[i] \in RaceOf
    /\ \A i, j \in 1 .. Len(Contestants) : Contestants[i] = Contestants[j] => i = j
    /\ Members \subseteq Threads /\ AllCaller \in Threads /\ RaceCaller \in Threads
<1>1. Contestants \in Seq(Members) /\ Contestants # <<>> /\ IsInjective(Contestants)
  BY CombinatorsAssumption
<1>2. /\ Len(Contestants) \in Nat /\ DOMAIN Contestants = 1 .. Len(Contestants)
      /\ \A i \in 1 .. Len(Contestants) : Contestants[i] \in Members
  BY <1>1
<1>3. Len(Contestants) > 0
  BY <1>1, <1>2
<1>4. /\ RaceOf \subseteq Members
      /\ \A i \in 1 .. Len(Contestants) : Contestants[i] \in RaceOf
  BY <1>2 DEF RaceOf, Range
<1>5. RaceOf # {}
  BY <1>2, <1>3, <1>4
<1>6. 0 \notin Members
  BY CombinatorsAssumption
<1> QED
  BY <1>1, <1>2, <1>3, <1>4, <1>5, <1>6 DEF IsInjective, Threads

LEMMA AppendFacts ==
    ASSUME NEW S, NEW s \in Seq(S), NEW x \in S
    PROVE  /\ Append(s, x) \in Seq(S)
           /\ Range(Append(s, x)) = Range(s) \union {x}
           /\ x # "race" /\ Once(s) => Once(Append(s, x))
           /\ "race" \notin Range(s) => Once(Append(s, x))
<1> DEFINE t == Append(s, x)
<1>1. /\ t \in Seq(S) /\ Len(t) = Len(s) + 1 /\ t[Len(s) + 1] = x
      /\ \A i \in 1 .. Len(s) : t[i] = s[i]
      /\ Len(s) \in Nat
  OBVIOUS
<1>2. DOMAIN t = 1 .. Len(s) + 1 /\ DOMAIN s = 1 .. Len(s)
  BY <1>1
<1> HIDE DEF t
<1>3. \A i \in 1 .. Len(s) + 1 : i \in 1 .. Len(s) \/ i = Len(s) + 1
  BY <1>1
<1>4. Range(t) = Range(s) \union {x}
  <2>1. Range(t) \subseteq Range(s) \union {x}
    BY <1>1, <1>2, <1>3 DEF Range
  <2>2. x \in Range(t)
    <3>1. Len(s) + 1 \in DOMAIN t
      BY <1>1, <1>2
    <3> QED
      BY <1>1, <3>1 DEF Range
  <2>3. Range(s) \subseteq Range(t)
    <3>1. \A i \in 1 .. Len(s) : i \in DOMAIN t
      BY <1>1, <1>2
    <3> QED
      BY <1>1, <1>2, <3>1 DEF Range
  <2> QED
    BY <2>1, <2>2, <2>3
<1>5. x # "race" /\ Once(s) => Once(t)
  BY <1>1, <1>2, <1>3 DEF Once
<1>6. "race" \notin Range(s) => Once(t)
  BY <1>1, <1>2, <1>3 DEF Once, Range
<1> QED
  BY <1>1, <1>4, <1>5, <1>6 DEF t

LEMMA TailFacts ==
    ASSUME NEW S, NEW s \in Seq(S), s # <<>>
    PROVE  /\ Tail(s) \in Seq(S)
           /\ Head(s) \in Range(s)
           /\ Range(Tail(s)) \subseteq Range(s)
<1>1. /\ Tail(s) \in Seq(S) /\ Len(Tail(s)) = Len(s) - 1
      /\ \A i \in 1 .. Len(Tail(s)) : Tail(s)[i] = s[i + 1]
      /\ Len(s) \in Nat /\ Len(s) # 0 /\ Head(s) = s[1]
  OBVIOUS
<1>2. DOMAIN Tail(s) = 1 .. Len(Tail(s)) /\ DOMAIN s = 1 .. Len(s)
  BY <1>1
<1>3. 1 \in 1 .. Len(s) /\ \A i \in 1 .. Len(Tail(s)) : i + 1 \in 1 .. Len(s)
  BY <1>1
<1> QED
  BY <1>1, <1>2, <1>3 DEF Range

LEMMA EmptyFacts ==
    /\ <<>> \in Seq({"all", "race"}) /\ Range(<<>>) = {} /\ Once(<<>>)
BY DEF Range, Once

(* Element by element, what erase leaves. *)
LEMMA RemoveAtFacts ==
    ASSUME NEW S, NEW s \in Seq(S), NEW i \in 1 .. Len(s)
    PROVE  /\ RemoveAt(s, i) \in Seq(S)
           /\ Len(RemoveAt(s, i)) = Len(s) - 1
           /\ \A j \in 1 .. Len(s) - 1 :
                 RemoveAt(s, i)[j] = IF j < i THEN s[j] ELSE s[j + 1]
<1> DEFINE a == SubSeq(s, 1, i - 1)
           b == SubSeq(s, i + 1, Len(s))
<1>1. Len(s) \in Nat /\ i \in Nat /\ i >= 1 /\ i <= Len(s)
  OBVIOUS
<1>2. /\ a \in Seq(S) /\ Len(a) = i - 1
      /\ \A j \in 1 .. i - 1 : a[j] = s[j]
  BY <1>1
<1>3. /\ b \in Seq(S) /\ Len(b) = Len(s) - i
      /\ \A j \in 1 .. Len(s) - i : b[j] = s[j + i]
  BY <1>1
<1> HIDE DEF a, b
<1>4. /\ a \o b \in Seq(S) /\ Len(a \o b) = Len(a) + Len(b)
      /\ \A j \in 1 .. Len(a) + Len(b) :
            (a \o b)[j] = IF j <= Len(a) THEN a[j] ELSE b[j - Len(a)]
  BY <1>2, <1>3, ConcatProperties
<1>5. RemoveAt(s, i) = a \o b
  BY DEF RemoveAt, a, b
<1>6. Len(a) + Len(b) = Len(s) - 1
  BY <1>1, <1>2, <1>3
<1>7. ASSUME NEW j \in 1 .. Len(s) - 1
      PROVE  (a \o b)[j] = IF j < i THEN s[j] ELSE s[j + 1]
  <2>1. CASE j < i
    <3>1. j <= Len(a) /\ j \in 1 .. i - 1
      BY <1>1, <1>2, <2>1
    <3> QED
      BY <1>2, <1>4, <1>6, <2>1, <3>1
  <2>2. CASE ~(j < i)
    <3>1. ~(j <= Len(a)) /\ j - Len(a) \in 1 .. Len(s) - i /\ (j - Len(a)) + i = j + 1
      BY <1>1, <1>2, <2>2
    <3> QED
      BY <1>3, <1>4, <1>6, <2>2, <3>1
  <2> QED
    BY <2>1, <2>2
<1> QED
  BY <1>4, <1>5, <1>6, <1>7

(* UnAwait erases the callback of Race, if it is there. *)
LEMMA RemoveFirstFacts ==
    ASSUME NEW S, NEW s \in Seq(S), Once(s)
    PROVE  /\ RemoveFirst(s, "race") \in Seq(S)
           /\ "race" \notin Range(RemoveFirst(s, "race"))
           /\ Once(RemoveFirst(s, "race"))
<1>0. DOMAIN s = 1 .. Len(s) /\ Len(s) \in Nat
  OBVIOUS
<1>1. CASE \E i \in 1 .. Len(s) : s[i] = "race"
  <2>1. PICK i \in 1 .. Len(s) : s[i] = "race"
    BY <1>1
  <2> DEFINE I == {k \in 1 .. Len(s) : s[k] = "race"}
  <2>2. I = {i}
    BY <1>0, <2>1 DEF Once
  <2>3. Min(I) = i
    BY <2>2, <1>0 DEF Min
  <2>4. SelectInSeq(s, LAMBDA v : v = "race") = Min(I)
    BY <2>2 DEF SelectInSeq
  <2>5. RemoveFirst(s, "race") = RemoveAt(s, i)
    BY <1>1, <2>3, <2>4 DEF RemoveFirst
  <2> DEFINE t == RemoveAt(s, i)
  <2>6. /\ t \in Seq(S) /\ Len(t) = Len(s) - 1
        /\ \A j \in 1 .. Len(s) - 1 : t[j] = IF j < i THEN s[j] ELSE s[j + 1]
    BY RemoveAtFacts
  <2> HIDE DEF t
  <2>7. DOMAIN t = 1 .. Len(s) - 1
    BY <2>6
  <2>8. ASSUME NEW j \in 1 .. Len(s) - 1 PROVE t[j] # "race"
    <3>1. CASE j < i
      <4>1. j \in 1 .. Len(s) /\ j # i
        BY <1>0, <3>1
      <4> QED
        BY <2>2, <2>6, <3>1, <4>1
    <3>2. CASE ~(j < i)
      <4>1. j + 1 \in 1 .. Len(s) /\ j + 1 # i
        BY <1>0, <3>2
      <4> QED
        BY <2>2, <2>6, <3>2, <4>1
    <3> QED
      BY <3>1, <3>2
  <2>9. "race" \notin Range(t) /\ Once(t)
    BY <2>7, <2>8 DEF Range, Once
  <2> QED
    BY <2>5, <2>6, <2>9 DEF t
<1>2. CASE ~\E i \in 1 .. Len(s) : s[i] = "race"
  <2>1. RemoveFirst(s, "race") = s
    BY <1>2 DEF RemoveFirst
  <2> QED
    BY <1>0, <1>2, <2>1 DEF Range
<1> QED
  BY <1>1, <1>2

(* However All orders its awaits, it awaits each of its arguments. *)
LEMMA OrderFacts ==
    ASSUME NEW s \in SetToSeqs(AllOf)
    PROVE  s \in Seq(AllOf) /\ \A m \in AllOf : \E k \in 1 .. Len(s) : s[k] = m
<1> DEFINE n == Cardinality(AllOf)
<1>1. IsFiniteSet(AllOf) /\ n \in Nat
  BY CombinatorsAssumption, FS_CardinalityType
<1> HIDE DEF n
<1>2. s \in [1 .. n -> AllOf] /\ \A i, j \in 1 .. n : i # j => s[i] # s[j]
  BY DEF SetToSeqs, n
<1>3. s \in Seq(AllOf) /\ Len(s) = n
  BY <1>1, <1>2
<1>4. IsFiniteSet(1 .. n) /\ Cardinality(1 .. n) = n
  BY <1>1, FS_Interval
<1>5. ASSUME NEW m \in AllOf, ~\E k \in 1 .. n : s[k] = m
      PROVE  FALSE
  <2>1. s \in [1 .. n -> AllOf \ {m}]
    BY <1>2, <1>5
  <2>2. IsFiniteSet(AllOf \ {m}) /\ Cardinality(AllOf \ {m}) = n - 1
    BY <1>1, <1>5, FS_RemoveElement DEF n
  <2>3. Cardinality(AllOf \ {m}) < Cardinality(1 .. n)
    BY <1>1, <1>4, <2>2
  <2>4. \E x, y \in 1 .. n : x # y /\ s[x] = s[y]
    BY <1>4, <2>1, <2>2, <2>3, FS_PigeonHole
  <2> QED
    BY <1>2, <2>4
<1> QED
  BY <1>3, <1>5

LEMMA PendingFacts ==
    /\ Pending \in Outcomes /\ Pending.ok = FALSE /\ Pending.by = 0
    /\ Nothing \in [at : Chain, out : Outcomes]
    /\ 0 \in Chain /\ Chain \subseteq Nat
    /\ \A m \in Members, ok \in BOOLEAN : [ok |-> ok, by |-> m] \in Outcomes
    /\ \A o \in Outcomes : o # Pending <=> o.ok \/ o.by # 0
    /\ \A k \in Chain, o \in Outcomes :
          /\ [at |-> k, out |-> o] \in [at : Chain, out : Outcomes]
          /\ o # Pending => [at |-> k, out |-> o] # Nothing
<1>1. 0 \in Chain /\ Chain \subseteq Nat
  BY Arguments DEF Chain
<1>2. Pending \in Outcomes /\ Pending.ok = FALSE /\ Pending.by = 0
  BY DEF Pending, Outcomes
<1>3. Nothing \in [at : Chain, out : Outcomes]
  BY <1>1, <1>2 DEF Nothing
<1>4. \A m \in Members, ok \in BOOLEAN : [ok |-> ok, by |-> m] \in Outcomes
  BY DEF Outcomes
<1>5. \A o \in Outcomes : o # Pending <=> o.ok \/ o.by # 0
  BY DEF Outcomes, Pending
<1>6. \A k \in Chain, o \in Outcomes :
          /\ [at |-> k, out |-> o] \in [at : Chain, out : Outcomes]
          /\ o # Pending => [at |-> k, out |-> o] # Nothing
  BY <1>2 DEF Nothing
<1> QED
  BY <1>1, <1>2, <1>3, <1>4, <1>5, <1>6

Inv == Types /\ AllInv /\ BatchInv /\ WinnerInv /\ ChainInv /\ RegisteredInv

LEMMA InitTypes == ASSUME Init PROVE Types
<1>1. order \in Seq(AllOf)
  BY OrderFacts DEF Init
<1>2. Len(order) \in Nat /\ Len(Contestants) \in Nat
  BY <1>1, Arguments
<1>3. pos \in 1 .. Len(order) + 1 /\ turn \in 1 .. Len(Contestants) + 1
  BY <1>2 DEF Init
<1>4. /\ out \in [Members -> Outcomes] /\ allOut \in Outcomes
      /\ \A m \in Members : out[m] = Pending \/ out[m].by = m
  BY PendingFacts DEF Init
<1>5. /\ awaiters \in [Members -> Seq({"all", "race"})]
      /\ batch \in [Members -> Seq({"all", "race"})]
  BY EmptyFacts DEF Init
<1>6. /\ last \in Chain /\ claimed \in BOOLEAN
      /\ racePc \in {"test", "join", "attach"}
  BY PendingFacts DEF Init
<1>7. /\ chain \in [Chain -> Outcomes] /\ finally \in [Chain -> RaceOf \union {0}]
      /\ unawait \in [Threads -> RaceOf \union {0}]
  BY PendingFacts DEF Init
<1>8. carry \in [Threads -> [at : Chain, out : Outcomes]]
  BY PendingFacts DEF Init
<1> QED
  BY <1>1, <1>3, <1>4, <1>5, <1>6, <1>7, <1>8 DEF Types

LEMMA InitInv == ASSUME Init PROVE Inv
<1>1. Types
  BY InitTypes
<1>2. AllInv
  <2>1. pos = 1 /\ allOut = Pending /\ Len(order) \in Nat
    BY <1>1 DEF Init, Types
  <2>2. \A m \in AllOf : \E k \in 1 .. Len(order) : order[k] = m
    BY OrderFacts DEF Init
  <2> QED
    BY <2>1, <2>2 DEF AllInv, AllOutcome
<1>3. BatchInv
  BY EmptyFacts DEF Init, BatchInv
<1>4. WinnerInv
  <2>1. PICK w \in RaceOf : TRUE
    BY Arguments
  <2>2. WonBy(w)
    BY DEF Init, WonBy
  <2> QED
    BY <2>2 DEF WinnerInv
<1>5. ChainInv
  BY DEF Init, ChainInv
<1>6. RegisteredInv
  BY EmptyFacts DEF Init, RegisteredInv
<1> QED
  BY <1>1, <1>2, <1>3, <1>4, <1>5, <1>6 DEF Inv

------------------------------------------------------------------------------
(* The types. *)

LEMMA AwaitTypes ==
    ASSUME Types, NEW m \in Members, NEW who \in {"all", "race"}, Await(m, who)
    PROVE  awaiters' \in [Members -> Seq({"all", "race"})]
<1>1. Append(awaiters[m], who) \in Seq({"all", "race"})
  BY AppendFacts DEF Types
<1> QED
  BY <1>1 DEF Types, Await

LEMMA ClaimTypes ==
    ASSUME Types, NEW t \in Threads, NEW m \in Members, Claim(t, m)
    PROVE  claimed' \in BOOLEAN /\ carry' \in [Threads -> [at : Chain, out : Outcomes]]
<1>1. [at |-> 0, out |-> out[m]] \in [at : Chain, out : Outcomes]
  BY PendingFacts DEF Types
<1> QED
  BY <1>1 DEF Types, Claim

LEMMA AdvanceTypes ==
    ASSUME Types, NEW pc \in {"next", "join", "attach"}, Advance(pc),
           turn <= Len(Contestants)
    PROVE  racePc' \in {"test", "join", "attach"} /\ turn' \in 1 .. Len(Contestants) + 1
BY Arguments DEF Types, Advance

LEMMA TypesStep ==
    ASSUME Types, ChainInv, RegisteredInv, Next
    PROVE  Types'
<1>1. ASSUME NEW m \in Members, Settle(m) PROVE Types'
  <2>1. PICK ok \in BOOLEAN : out' = [out EXCEPT ![m] = [ok |-> ok, by |-> m]]
    BY <1>1 DEF Settle
  <2>2. /\ out' \in [Members -> Outcomes]
        /\ \A n \in Members : out'[n] = Pending \/ out'[n].by = n
    BY <2>1, PendingFacts DEF Types
  <2>3. batch' \in [Members -> Seq({"all", "race"})]
    BY <1>1 DEF Types, Settle
  <2>4. awaiters' \in [Members -> Seq({"all", "race"})]
    BY <1>1, EmptyFacts DEF Types, Settle
  <2>5. UNCHANGED <<allVars, callVars, chainVars>>
    BY <1>1 DEF Settle
  <2> QED
    BY <2>2, <2>3, <2>4, <2>5 DEF Types, allVars, callVars, chainVars
<1>2. ASSUME NEW m \in Members, FireAll(m) PROVE Types'
  <2>1. Tail(batch[m]) \in Seq({"all", "race"})
    BY <1>2, TailFacts DEF Types, FireAll
  <2>2. batch' \in [Members -> Seq({"all", "race"})]
    BY <1>2, <2>1 DEF Types, FireAll
  <2> QED
    BY <1>2, <2>2 DEF Types, FireAll, callVars, chainVars
<1>3. ASSUME NEW m \in Members, FireRace(m) PROVE Types'
  <2>1. Tail(batch[m]) \in Seq({"all", "race"})
    BY <1>3, TailFacts DEF Types, FireRace
  <2>2. batch' \in [Members -> Seq({"all", "race"})]
    BY <1>3, <2>1 DEF Types, FireRace
  <2>3. claimed' \in BOOLEAN /\ carry' \in [Threads -> [at : Chain, out : Outcomes]]
    BY <1>3, ClaimTypes, Arguments DEF FireRace
  <2> QED
    BY <1>3, <2>2, <2>3 DEF Types, FireRace, callVars, allVars
<1>4. CASE AllAwait
  <2>0. /\ Len(order) \in Nat /\ pos <= Len(order) /\ pos \in 1 .. Len(order) + 1
        /\ order[pos] \in AllOf
    BY <1>4 DEF Types, AllAwait
  <2>m. order[pos] \in Members
    BY <2>0, CombinatorsAssumption
  <2>1. CASE Await(order[pos], "all") /\ UNCHANGED <<pos, allOut>>
    <3>1. awaiters' \in [Members -> Seq({"all", "race"})]
      BY <2>m, <2>1, AwaitTypes
    <3> QED
      BY <1>4, <2>1, <3>1 DEF Types, AllAwait, Await, callVars, chainVars
  <2>2. CASE pos' = pos + 1 /\ UNCHANGED <<memberVars, allPc, allOut>>
    <3>1. pos' \in 1 .. Len(order) + 1
      BY <2>0, <2>2
    <3> QED
      BY <1>4, <2>2, <3>1 DEF Types, AllAwait, memberVars, callVars, chainVars
  <2>3. CASE allOut' = out[order[pos]] /\ UNCHANGED <<memberVars, allPc, pos>>
    BY <1>4, <2>m, <2>3 DEF Types, AllAwait, memberVars, callVars, chainVars
  <2> QED
    BY <1>4, <2>1, <2>2, <2>3 DEF AllAwait
<1>5. CASE AllReturn
  <2>1. allOut' \in Outcomes
    BY <1>5 DEF AllReturn, Outcomes
  <2> QED
    BY <1>5, <2>1 DEF Types, AllReturn, memberVars, callVars, chainVars
<1>6. CASE AllClear
  BY <1>6 DEF Types, AllClear, memberVars, callVars, chainVars
<1>7. CASE Test
  <2>1. racePc' \in {"test", "join", "attach"} /\ turn' \in 1 .. Len(Contestants) + 1
    BY <1>7, AdvanceTypes DEF Test, Racing
  <2> QED
    BY <1>7, <2>1 DEF Types, Test, allVars, chainVars
<1>8. CASE Join
  <2>0. turn \in 1 .. Len(Contestants) /\ Contestants[turn] \in Members
    BY <1>8, Arguments DEF Types, Join, Racing
  <2>1. CASE /\ Claim(RaceCaller, Contestants[turn]) /\ Advance("next")
             /\ UNCHANGED memberVars
    <3>1. racePc' \in {"test", "join", "attach"} /\ turn' \in 1 .. Len(Contestants) + 1
      BY <2>0, <2>1, AdvanceTypes
    <3>2. claimed' \in BOOLEAN /\ carry' \in [Threads -> [at : Chain, out : Outcomes]]
      BY <2>0, <2>1, ClaimTypes, Arguments
    <3> QED
      BY <1>8, <2>1, <3>1, <3>2 DEF Types, Join, memberVars, allVars
  <2>2. CASE /\ Await(Contestants[turn], "race") /\ Advance("attach")
             /\ UNCHANGED <<claimed, carry>>
    <3>1. racePc' \in {"test", "join", "attach"} /\ turn' \in 1 .. Len(Contestants) + 1
      BY <2>0, <2>2, AdvanceTypes
    <3>2. awaiters' \in [Members -> Seq({"all", "race"})]
      BY <2>0, <2>2, AwaitTypes
    <3> QED
      BY <1>8, <2>2, <3>1, <3>2 DEF Types, Join, Await, allVars
  <2> QED
    BY <1>8, <2>1, <2>2 DEF Join
<1>9. CASE Attach
  <2>0. turn \in 1 .. Len(Contestants) /\ Contestants[turn] \in RaceOf
    BY <1>9, Arguments DEF Types, Attach, Racing
  <2>1. last + 1 \in Chain
    BY <2>0, Arguments DEF Types, ChainInv, Chain
  <2>2. racePc' \in {"test", "join", "attach"} /\ turn' \in 1 .. Len(Contestants) + 1
    BY <1>9, <2>0, AdvanceTypes DEF Attach
  <2>3. finally' \in [Chain -> RaceOf \union {0}]
    BY <1>9, <2>0 DEF Types, Attach
  <2>4. carry' \in [Threads -> [at : Chain, out : Outcomes]]
    <3>1. [at |-> last + 1, out |-> chain[last]] \in [at : Chain, out : Outcomes]
      BY <2>1, PendingFacts DEF Types
    <3> QED
      BY <1>9, <3>1 DEF Types, Attach
  <2>5. unawait' \in [Threads -> RaceOf \union {0}]
    BY <1>9, <2>0 DEF Types, Attach
  <2> QED
    BY <1>9, <2>1, <2>2, <2>3, <2>4, <2>5 DEF Types, Attach, memberVars, allVars
<1>10. ASSUME NEW t \in Threads, UnAwait(t) PROVE Types'
  <2>1. unawait' \in [Threads -> RaceOf \union {0}]
    BY <1>10 DEF Types, UnAwait
  <2>2. unawait[t] \in Members
    BY <1>10, Arguments DEF Types, UnAwait
  <2>3. RemoveFirst(awaiters[unawait[t]], "race") \in Seq({"all", "race"})
    BY <2>2, RemoveFirstFacts DEF Types, RegisteredInv
  <2>4. awaiters' \in [Members -> Seq({"all", "race"})]
    BY <1>10, <2>2, <2>3 DEF Types, UnAwait
  <2> QED
    BY <1>10, <2>1, <2>4 DEF Types, UnAwait, allVars, callVars
<1>11. ASSUME NEW t \in Threads, SettleChain(t) PROVE Types'
  <2> DEFINE k == carry[t].at
  <2>0. k \in Chain /\ carry[t].out \in Outcomes
    BY DEF Types
  <2>1. /\ chain' = [chain EXCEPT ![k] = carry[t].out]
        /\ unawait' = [unawait EXCEPT ![t] = finally[k]]
        /\ finally' = [finally EXCEPT ![k] = 0]
        /\ carry' = [carry EXCEPT ![t] =
                        IF finally[k] = 0 THEN Nothing ELSE [@ EXCEPT !.at = k + 1]]
    BY <1>11 DEF SettleChain
  <2> HIDE DEF k
  <2>2. chain' \in [Chain -> Outcomes] /\ unawait' \in [Threads -> RaceOf \union {0}]
    BY <2>0, <2>1 DEF Types
  <2>3. finally' \in [Chain -> RaceOf \union {0}]
    BY <2>0, <2>1 DEF Types
  <2>4. finally[k] # 0 => k + 1 \in Chain
    BY <2>0, Arguments DEF Types, ChainInv, Chain
  <2>5. carry' \in [Threads -> [at : Chain, out : Outcomes]]
    <3>1. CASE finally[k] = 0
      BY <2>1, <3>1, PendingFacts DEF Types
    <3>2. CASE finally[k] # 0
      <4>1. [carry[t] EXCEPT !.at = k + 1] \in [at : Chain, out : Outcomes]
        BY <2>4, <3>2 DEF Types
      <4> QED
        BY <2>1, <3>2, <4>1 DEF Types
    <3> QED
      BY <3>1, <3>2
  <2> QED
    BY <1>11, <2>2, <2>3, <2>5 DEF Types, SettleChain, memberVars, allVars, callVars
<1> QED
  BY <1>1, <1>2, <1>3, <1>4, <1>5, <1>6, <1>7, <1>8, <1>9, <1>10, <1>11
    DEF Next, All, Race, Fire, Propagate

------------------------------------------------------------------------------
(* A member that has settled has the outcome for good. *)

LEMMA OutcomeStays ==
    ASSUME Types, Next
    PROVE  \A m \in Members : IsDone(m) => out'[m] = out[m] /\ IsDone(m)'
<1>1. ASSUME NEW n \in Members, Settle(n)
      PROVE  \A m \in Members : IsDone(m) => out'[m] = out[m]
  BY <1>1 DEF Types, Settle, IsDone
<1>2. (\E n \in Members : Settle(n)) \/ out' = out
  BY DEF Next, Fire, FireAll, FireRace, All, AllAwait, AllReturn, AllClear, Await,
         Race, Test, Join, Attach, Propagate, UnAwait, SettleChain, memberVars
<1>3. \A m \in Members : IsDone(m) => out'[m] = out[m]
  BY <1>1, <1>2
<1> QED
  BY <1>3 DEF IsDone

------------------------------------------------------------------------------
(* All. *)

LEMMA AllStep ==
    ASSUME Types, AllInv, Next
    PROVE  AllInv'
<1>0. /\ Len(order) \in Nat /\ \A j \in 1 .. Len(order) : order[j] \in Members
      /\ \A m \in Members : out[m].ok => IsDone(m)
  <2>1. Len(order) \in Nat /\ \A j \in 1 .. Len(order) : order[j] \in AllOf
    BY DEF Types
  <2> QED
    BY <2>1, CombinatorsAssumption, PendingFacts DEF Types, IsDone
<1>1. /\ \A m \in Members : out[m].ok => out'[m].ok
      /\ \A m \in Members : IsDone(m) => out'[m] = out[m] /\ IsDone(m)'
  BY <1>0, OutcomeStays
<1>2. order' = order
  BY DEF Next, Fire, FireAll, FireRace, All, AllAwait, AllReturn, AllClear,
         Race, Test, Join, Attach, Propagate, UnAwait, SettleChain, Settle, allVars
<1>3. CASE pos' = pos /\ allOut' = allOut
  <2>1. \A j \in 1 .. Len(order) : j < pos => out'[order[j]].ok
    BY <1>0, <1>1 DEF AllInv
  <2>2. AllOutcome'
    <3>1. CASE allOut = Pending
      BY <1>3, <3>1 DEF AllOutcome
    <3>2. CASE allOut # Pending /\ allOut.ok
      BY <1>1, <1>3, <3>2, CombinatorsAssumption DEF AllInv, AllOutcome
    <3>3. CASE allOut # Pending /\ ~allOut.ok
      <4>1. PICK k \in 1 .. Len(order) :
               /\ allOut = out[order[k]] /\ IsDone(order[k])
               /\ \A j \in 1 .. k - 1 : out[order[j]].ok
        BY <3>3 DEF AllInv, AllOutcome
      <4>2. order[k] \in Members
        BY <1>0
      <4>3. allOut = out'[order[k]] /\ IsDone(order[k])'
        BY <1>1, <1>2, <4>1, <4>2 DEF IsDone
      <4>4. \A j \in 1 .. k - 1 : out'[order[j]].ok
        BY <1>0, <1>1, <4>1
      <4> QED
        BY <1>2, <1>3, <3>3, <4>3, <4>4 DEF AllOutcome
    <3> QED
      BY <3>1, <3>2, <3>3
  <2> QED
    BY <1>2, <1>3, <2>1, <2>2 DEF AllInv
<1>4. CASE AllAwait
  <2>0. pos \in 1 .. Len(order) /\ allOut = Pending /\ out' = out
    BY <1>0, <1>4 DEF Types, AllAwait, Await, memberVars
  <2>1. CASE pos' = pos + 1 /\ allOut' = allOut /\ out[order[pos]].ok
    <3>1. \A j \in 1 .. Len(order) : j < pos + 1 => j < pos \/ j = pos
      BY <1>0, <2>0
    <3> QED
      BY <1>2, <2>0, <2>1, <3>1 DEF AllInv, AllOutcome
  <2>2. CASE /\ pos' = pos /\ allOut' = out[order[pos]]
             /\ IsDone(order[pos]) /\ ~out[order[pos]].ok
    <3>1. \A j \in 1 .. pos - 1 : out[order[j]].ok
      BY <1>0, <2>0 DEF AllInv
    <3>2. AllOutcome'
      BY <1>2, <2>0, <2>2, <3>1 DEF AllOutcome, IsDone
    <3> QED
      BY <1>2, <2>0, <2>2, <3>2 DEF AllInv
  <2> QED
    BY <1>3, <1>4, <2>1, <2>2 DEF AllAwait
<1>5. CASE AllReturn
  <2>1. pos > Len(order) /\ allOut'.ok /\ out' = out /\ pos' = pos
    BY <1>5 DEF AllReturn, memberVars
  <2>2. \A j \in 1 .. Len(order) : out[order[j]].ok
    BY <1>0, <2>1 DEF Types, AllInv
  <2>3. \A m \in AllOf : out[m].ok
    BY <2>2 DEF AllInv
  <2> QED
    BY <1>2, <2>1, <2>2, <2>3 DEF AllInv, AllOutcome
<1>6. CASE ~AllAwait /\ ~AllReturn
  <2>1. pos' = pos /\ allOut' = allOut
    BY <1>6 DEF Next, Fire, FireAll, FireRace, All, AllClear,
         Race, Test, Join, Attach, Propagate, UnAwait, SettleChain, Settle, allVars
  <2> QED
    BY <1>3, <2>1
<1> QED
  BY <1>4, <1>5, <1>6

------------------------------------------------------------------------------
(* The callbacks. *)

LEMMA BatchStep ==
    ASSUME Types, BatchInv, RegisteredInv, Next
    PROVE  BatchInv'
<1>0. ASSUME NEW m \in Members, NEW who \in {"all", "race"}, Await(m, who),
             who = "race" => m \in RaceOf
      PROVE  BatchInv'
  <2>1. Range(Append(awaiters[m], who)) = Range(awaiters[m]) \union {who}
    BY AppendFacts DEF Types
  <2>2. \A n \in Members :
           awaiters'[n] = IF n = m THEN Append(awaiters[m], who) ELSE awaiters[n]
    BY <1>0 DEF Types, Await
  <2>3. batch' = batch /\ out' = out
    BY <1>0 DEF Await
  <2>4. \A n \in Members : "race" \in Range(awaiters'[n]) =>
           "race" \in Range(awaiters[n]) \/ (n = m /\ who = "race")
    BY <2>1, <2>2
  <2> QED
    BY <1>0, <2>3, <2>4 DEF BatchInv, IsDone
<1>1. ASSUME NEW m \in Members, Settle(m) PROVE BatchInv'
  <2>1. /\ \A n \in Members : n # m => out'[n] = out[n] /\ batch'[n] = batch[n]
                                          /\ awaiters'[n] = awaiters[n]
        /\ batch'[m] = awaiters[m] /\ awaiters'[m] = <<>>
    BY <1>1 DEF Types, Settle
  <2>2. out'[m].by = m /\ out'[m] # Pending
    BY <1>1, Arguments, PendingFacts DEF Types, Settle
  <2> QED
    BY <2>1, <2>2, EmptyFacts DEF BatchInv, IsDone
<1>2. ASSUME NEW m \in Members, FireAll(m) \/ FireRace(m) PROVE BatchInv'
  <2>1. batch[m] # <<>> /\ batch' = [batch EXCEPT ![m] = Tail(@)]
        /\ out' = out /\ awaiters' = awaiters
    BY <1>2 DEF FireAll, FireRace
  <2>2. Range(Tail(batch[m])) \subseteq Range(batch[m])
    BY <2>1, TailFacts DEF Types
  <2>3. \A n \in Members :
           batch'[n] = IF n = m THEN Tail(batch[m]) ELSE batch[n]
    BY <2>1 DEF Types
  <2> QED
    BY <2>1, <2>2, <2>3 DEF BatchInv, IsDone
<1>3. CASE AllAwait
  <2>0. order[pos] \in Members
    <3>1. pos \in 1 .. Len(order)
      BY <1>3 DEF Types, AllAwait
    <3>2. order[pos] \in AllOf
      BY <3>1 DEF Types
    <3> QED
      BY <3>2, CombinatorsAssumption
  <2>1. Await(order[pos], "all") \/ UNCHANGED memberVars
    BY <1>3 DEF AllAwait
  <2> QED
    BY <1>0, <2>0, <2>1 DEF BatchInv, IsDone, memberVars
<1>4. CASE Join
  <2>0. Contestants[turn] \in RaceOf /\ Contestants[turn] \in Members
    BY <1>4, Arguments DEF Types, Join, Racing
  <2>1. Await(Contestants[turn], "race") \/ UNCHANGED memberVars
    BY <1>4 DEF Join
  <2> QED
    BY <1>0, <2>0, <2>1 DEF BatchInv, IsDone, memberVars
<1>5. ASSUME NEW t \in Threads, UnAwait(t) PROVE BatchInv'
  <2>1. unawait[t] \in Members
    BY <1>5, Arguments DEF Types, UnAwait
  <2>2. "race" \notin Range(RemoveFirst(awaiters[unawait[t]], "race"))
    BY <2>1, RemoveFirstFacts DEF Types, RegisteredInv
  <2>3. \A n \in Members : awaiters'[n] = IF n = unawait[t]
                              THEN RemoveFirst(awaiters[n], "race") ELSE awaiters[n]
    BY <1>5, <2>1 DEF Types, UnAwait
  <2> QED
    BY <1>5, <2>2, <2>3 DEF BatchInv, IsDone, UnAwait
<1>6. CASE AllReturn \/ AllClear \/ Test \/ Attach \/ \E t \in Threads : SettleChain(t)
  <2>1. out' = out /\ awaiters' = awaiters /\ batch' = batch
    BY <1>6 DEF AllReturn, AllClear, Test, Attach, SettleChain, memberVars
  <2> QED
    BY <2>1 DEF BatchInv, IsDone
<1> QED
  BY <1>1, <1>2, <1>3, <1>4, <1>5, <1>6 DEF Next, All, Race, Fire, Propagate

------------------------------------------------------------------------------
(* The chain of promises of Race. *)

(* The first of the calls that the contestants make settles the race. *)
LEMMA ClaimWins ==
    ASSUME Types, WinnerInv, NEW t \in Threads, NEW m \in RaceOf, IsDone(m),
           Claim(t, m), out' = out, chain' = chain
    PROVE  WinnerInv'
<1>1. PICK w \in RaceOf : WonBy(w)
  BY DEF WinnerInv
<1>2. CASE claimed
  <2>1. WonBy(w)'
    BY <1>1, <1>2 DEF WonBy, Claim, IsDone
  <2> QED
    BY <2>1 DEF WinnerInv, RaceOf
<1>3. CASE ~claimed
  <2>1. /\ \A u \in Threads : carry[u] = Nothing
        /\ \A k \in Chain : chain[k] = Pending
    BY <1>1, <1>3 DEF WonBy
  <2>2. \A u \in Threads : carry'[u] # Nothing => carry'[u].out = out[m]
    BY <1>3, <2>1 DEF Types, Claim
  <2>3. WonBy(m)'
    BY <2>1, <2>2 DEF WonBy, Claim, IsDone
  <2> QED
    BY <2>3 DEF WinnerInv, RaceOf
<1> QED
  BY <1>2, <1>3

LEMMA WinnerStep ==
    ASSUME Types, BatchInv, WinnerInv, ChainInv, Next
    PROVE  WinnerInv'
<1>0. PICK w \in RaceOf : WonBy(w)
  BY DEF WinnerInv
<1>w. w \in Members /\ (IsDone(w) => out'[w] = out[w] /\ IsDone(w)')
  BY Arguments, OutcomeStays
<1>1. ASSUME UNCHANGED <<claimed, carry, chain>> PROVE WinnerInv'
  <2>1. WonBy(w)'
    <3>1. CASE claimed
      BY <1>0, <1>1, <1>w, <3>1 DEF WonBy
    <3>2. CASE ~claimed
      BY <1>0, <1>1, <3>2 DEF WonBy
    <3> QED
      BY <3>1, <3>2
  <2> QED
    BY <2>1 DEF WinnerInv, RaceOf
<1>2. ASSUME NEW m \in Members, FireRace(m) PROVE WinnerInv'
  <2>1. batch[m] # <<>> /\ "race" \in Range(batch[m])
    BY <1>2, TailFacts DEF Types, FireRace
  <2>2. IsDone(m) /\ m \in RaceOf
    BY <2>1 DEF BatchInv
  <2> QED
    BY <1>2, <2>2, ClaimWins, Arguments DEF FireRace
<1>3. CASE Join
  <2>1. Contestants[turn] \in RaceOf
    BY <1>3, Arguments DEF Types, Join, Racing
  <2>2. \/ UNCHANGED <<claimed, carry, chain>>
        \/ /\ IsDone(Contestants[turn]) /\ Claim(RaceCaller, Contestants[turn])
           /\ out' = out /\ chain' = chain
    BY <1>3 DEF Join, memberVars
  <2> QED
    BY <1>1, <2>1, <2>2, ClaimWins, Arguments
<1>4. CASE Attach
  <2>1. CASE chain[last] = Pending
    <3>1. UNCHANGED <<claimed, carry, chain>>
      BY <1>4, <2>1 DEF Attach
    <3> QED
      BY <1>1, <3>1
  <2>2. CASE chain[last] # Pending
    <3>1. claimed /\ chain[last] = out[w]
      BY <1>0, <2>2 DEF WonBy, Types
    <3>2. carry' = [carry EXCEPT ![RaceCaller] = [at |-> last + 1, out |-> chain[last]]]
          /\ claimed' = claimed /\ chain' = chain
      BY <1>4, <2>2 DEF Attach
    <3>3. \A t \in Threads : carry'[t] # Nothing => carry'[t].out = out[w]
      BY <1>0, <3>1, <3>2 DEF Types, WonBy
    <3>4. WonBy(w)'
      BY <1>0, <1>w, <3>1, <3>2, <3>3 DEF WonBy
    <3> QED
      BY <3>4 DEF WinnerInv, RaceOf
  <2> QED
    BY <2>1, <2>2
<1>5. ASSUME NEW t \in Threads, SettleChain(t) PROVE WinnerInv'
  <2>1. claimed /\ carry[t].out = out[w] /\ claimed' = claimed
    BY <1>0, <1>5 DEF WonBy, SettleChain
  <2>2. \A u \in Threads : carry'[u] # Nothing => carry'[u].out = out[w]
    <3>1. \A u \in Threads : u # t => carry'[u] = carry[u]
      BY <1>5 DEF Types, SettleChain
    <3>2. carry'[t] = Nothing \/ carry'[t].out = carry[t].out
      BY <1>5 DEF Types, SettleChain
    <3> QED
      BY <1>0, <2>1, <3>1, <3>2 DEF WonBy
  <2>3. \A k \in Chain : chain'[k] # Pending => chain'[k] = out[w]
    <3>1. \A k \in Chain : chain'[k] = chain[k] \/ chain'[k] = carry[t].out
      BY <1>5 DEF Types, SettleChain
    <3> QED
      BY <1>0, <2>1, <3>1 DEF WonBy
  <2>4. WonBy(w)'
    BY <1>0, <1>w, <2>1, <2>2, <2>3 DEF WonBy
  <2> QED
    BY <2>4 DEF WinnerInv, RaceOf
<1>6. CASE \/ \E m \in Members : Settle(m) \/ FireAll(m)
           \/ All \/ Test \/ \E t \in Threads : UnAwait(t)
  <2>1. UNCHANGED <<claimed, carry, chain>>
    BY <1>6 DEF Settle, FireAll, All, AllAwait, AllReturn, AllClear, Test, UnAwait, chainVars
  <2> QED
    BY <1>1, <2>1
<1> QED
  BY <1>2, <1>3, <1>4, <1>5, <1>6 DEF Next, Race, Fire, Propagate

(* The race is claimed by a thread that is in no other call of the chain. *)
LEMMA ClaimChain ==
    ASSUME Types, WinnerInv, ChainInv, NEW t \in Threads, NEW m \in Members, Claim(t, m),
           UNCHANGED <<last, chain, finally, unawait>>,
           last < turn', racePc' # "test" => turn' <= Len(Contestants)
    PROVE  ChainInv'
<1>1. CASE claimed
  BY <1>1 DEF ChainInv, Claim
<1>2. CASE ~claimed
  <2>1. /\ \A u \in Threads : carry[u] = Nothing
        /\ \A k \in Chain : chain[k] = Pending
    BY <1>2 DEF WinnerInv, WonBy
  <2>2. \A u \in Threads : unawait[u] = 0
    BY <2>1 DEF ChainInv
  <2>3. /\ \A u \in Threads : u # t => carry'[u] = Nothing
        /\ carry'[t].at = 0
    BY <1>2, <2>1 DEF Types, Claim
  <2>4. 0 \in Chain /\ 0 <= last /\ \A j \in Chain : ~(j < 0)
    BY PendingFacts DEF Types
  <2>5. \A u \in Threads : carry'[u] # Nothing =>
          /\ carry'[u].at <= last
          /\ chain[carry'[u].at] = Pending
          /\ \A j \in Chain : j < carry'[u].at => chain[j] # Pending
    BY <2>1, <2>3, <2>4
  <2> QED
    BY <2>2, <2>3, <2>5 DEF ChainInv
<1> QED
  BY <1>1, <1>2

LEMMA AttachChain ==
    ASSUME Types, ChainInv, Attach
    PROVE  ChainInv'
<1>0. /\ last \in Nat /\ last \in Chain /\ last + 1 \in Chain /\ turn \in Nat
      /\ turn <= Len(Contestants) /\ Chain \subseteq Nat
  BY Arguments, PendingFacts DEF Types, ChainInv, Attach, Racing, Chain
<1>1. last' = last + 1 /\ chain' = chain /\ racePc' = "test" /\ turn' = turn + 1
  BY DEF Attach, Advance
<1>2. CASE chain[last] = Pending
  <2>1. /\ finally' = [finally EXCEPT ![last] = Contestants[turn]]
        /\ carry' = carry /\ unawait' = unawait
    BY <1>2 DEF Attach
  <2>2. \A k \in Chain : finally'[k] # 0 => k < last + 1 /\ chain[k] = Pending
    BY <1>0, <1>2, <2>1 DEF Types, ChainInv
  <2>3. \A k \in Chain : k <= last => k <= last + 1
    BY <1>0
  <2>4. \A t \in Threads : carry[t] # Nothing => carry[t].at <= last + 1
    BY <2>3 DEF Types, ChainInv
  <2>5. last + 1 < turn + 1
    BY <1>0 DEF ChainInv
  <2> QED
    BY <1>1, <2>1, <2>2, <2>3, <2>4, <2>5 DEF ChainInv
<1>3. CASE chain[last] # Pending
  <2>1. /\ carry' = [carry EXCEPT ![RaceCaller] =
                        [at |-> last + 1, out |-> chain[last]]]
        /\ unawait' = [unawait EXCEPT ![RaceCaller] = Contestants[turn]]
        /\ finally' = finally
    BY <1>3 DEF Attach
  <2>2. ASSUME NEW t \in Threads, carry[t] # Nothing PROVE FALSE
    <3>1. carry[t].at \in Chain
      BY DEF Types
    <3>2. carry[t].at <= last /\ chain[carry[t].at] = Pending
      BY <2>2 DEF ChainInv
    <3> QED
      BY <1>0, <1>3, <3>1, <3>2 DEF ChainInv
  <2>3. /\ \A t \in Threads : t # RaceCaller => carry'[t] = Nothing
        /\ carry'[RaceCaller].at = last + 1
    BY <2>1, <2>2, Arguments DEF Types
  <2>4. carry'[RaceCaller] # Nothing
    BY <1>0, <2>3 DEF Nothing
  <2>5. \A t \in Threads : unawait'[t] # 0 => carry'[t] # Nothing
    BY <2>1, <2>2, <2>4 DEF Types, ChainInv
  <2>6. chain[last + 1] = Pending /\ \A j \in Chain : j < last + 1 => chain[j] # Pending
    <3>1. ~(last + 1 <= last) /\ \A j \in Chain : j < last + 1 => j <= last
      BY <1>0
    <3> QED
      BY <1>0, <1>3, <3>1 DEF ChainInv
  <2>7. \A k \in Chain : /\ k <= last => k <= last + 1
                         /\ k < last => k < last + 1
    BY <1>0
  <2>8. last + 1 < turn + 1 /\ last + 1 <= last + 1
    BY <1>0 DEF ChainInv
  <2>9. \A t \in Threads : carry'[t] # Nothing =>
          /\ carry'[t].at <= last + 1
          /\ chain[carry'[t].at] = Pending
          /\ \A j \in Chain : j < carry'[t].at => chain[j] # Pending
    BY <2>3, <2>6, <2>8
  <2> QED
    BY <1>1, <2>1, <2>3, <2>5, <2>7, <2>8, <2>9 DEF ChainInv
<1> QED
  BY <1>2, <1>3

LEMMA SettleChainChain ==
    ASSUME Types, WinnerInv, ChainInv, NEW t \in Threads, SettleChain(t)
    PROVE  ChainInv'
<1> DEFINE k == carry[t].at
<1>0. k \in Chain /\ k \in Nat /\ Chain \subseteq Nat /\ last \in Nat /\ last \in Chain
  BY PendingFacts DEF Types
<1>1. /\ chain' = [chain EXCEPT ![k] = carry[t].out]
      /\ unawait' = [unawait EXCEPT ![t] = finally[k]]
      /\ finally' = [finally EXCEPT ![k] = 0]
      /\ carry' = [carry EXCEPT ![t] =
                      IF finally[k] = 0 THEN Nothing ELSE [@ EXCEPT !.at = k + 1]]
      /\ UNCHANGED <<racePc, turn, last>>
  BY DEF SettleChain, callVars
<1>2. carry[t] # Nothing /\ carry[t].out # Pending
  BY DEF WinnerInv, WonBy, IsDone, SettleChain
<1>3. /\ k <= last /\ chain[k] = Pending
      /\ \A j \in Chain : j < k => chain[j] # Pending
      /\ \A u \in Threads : carry[u] # Nothing => u = t
  BY <1>2 DEF ChainInv
<1> HIDE DEF k
<1>4. chain'[k] # Pending /\ \A j \in Chain : j # k => chain'[j] = chain[j]
  BY <1>0, <1>1, <1>2 DEF Types
<1>5. \A j \in Chain : chain'[j] # Pending => j <= last
  BY <1>3, <1>4 DEF ChainInv
<1>6. \A i, j \in Chain : i <= j /\ chain'[j] # Pending => chain'[i] # Pending
  <2>1. \A i \in Chain : i <= k => i < k \/ i = k
    BY <1>0
  <2> QED
    BY <1>3, <1>4, <2>1 DEF ChainInv
<1>7. \A j \in Chain : finally'[j] # 0 => j < last /\ chain'[j] = Pending
  BY <1>0, <1>1, <1>4 DEF Types, ChainInv
<1>8. \A u \in Threads : u # t => carry'[u] = Nothing /\ unawait'[u] = 0
  BY <1>1, <1>3 DEF Types, ChainInv
<1>9. CASE finally[k] = 0
  <2>1. carry'[t] = Nothing /\ unawait'[t] = 0
    BY <1>1, <1>9 DEF Types
  <2> QED
    BY <1>1, <1>5, <1>6, <1>7, <1>8, <2>1 DEF ChainInv
<1>10. CASE finally[k] # 0
  <2>1. carry'[t].at = k + 1
    BY <1>1, <1>10 DEF Types
  <2>2. carry'[t] # Nothing
    BY <1>0, <2>1 DEF Nothing
  <2>3. k < last
    BY <1>0, <1>10 DEF ChainInv
  <2>4. k + 1 <= last /\ k + 1 \in Chain
    BY <1>0, <2>3, Arguments DEF Types, Chain
  <2>5. chain'[k + 1] = Pending
    <3>1. k <= k + 1 /\ k + 1 # k
      BY <1>0
    <3> QED
      BY <1>0, <1>3, <1>4, <2>4, <3>1 DEF ChainInv
  <2>6. \A j \in Chain : j < k + 1 => chain'[j] # Pending
    <3>1. \A j \in Chain : j < k + 1 => j < k \/ j = k
      BY <1>0
    <3> QED
      BY <1>3, <1>4, <3>1
  <2>7. \A u \in Threads : carry'[u] # Nothing =>
          /\ carry'[u].at <= last
          /\ chain'[carry'[u].at] = Pending
          /\ \A j \in Chain : j < carry'[u].at => chain'[j] # Pending
    BY <1>8, <2>1, <2>4, <2>5, <2>6
  <2> QED
    BY <1>1, <1>5, <1>6, <1>7, <1>8, <2>2, <2>7 DEF ChainInv
<1> QED
  BY <1>9, <1>10

LEMMA ChainStep ==
    ASSUME Types, WinnerInv, ChainInv, Next
    PROVE  ChainInv'
<1>1. ASSUME NEW m \in Members, FireRace(m) PROVE ChainInv'
  <2>1. last < turn' /\ (racePc' # "test" => turn' <= Len(Contestants))
    BY <1>1 DEF FireRace, callVars, ChainInv
  <2> QED
    BY <1>1, <2>1, ClaimChain, Arguments DEF FireRace, callVars
<1>2. ASSUME Advance("next") \/ Advance("join") \/ Advance("attach"),
             turn <= Len(Contestants)
      PROVE  last < turn' /\ (racePc' # "test" => turn' <= Len(Contestants))
  BY <1>2, PendingFacts DEF Advance, ChainInv, Types
<1>3. CASE Test
  <2>1. UNCHANGED <<last, claimed, chain, finally, carry, unawait>>
    BY <1>3 DEF Test, chainVars
  <2>2. last < turn' /\ (racePc' # "test" => turn' <= Len(Contestants))
    BY <1>2, <1>3 DEF Test, Racing
  <2> QED
    BY <2>1, <2>2 DEF ChainInv
<1>4. CASE Join
  <2>0. Contestants[turn] \in Members
    BY <1>4, Arguments DEF Types, Join, Racing
  <2>1. UNCHANGED <<last, chain, finally, unawait>>
    BY <1>4 DEF Join
  <2>2. last < turn' /\ (racePc' # "test" => turn' <= Len(Contestants))
    BY <1>2, <1>4 DEF Join, Racing
  <2>3. Claim(RaceCaller, Contestants[turn]) \/ UNCHANGED carry
    BY <1>4 DEF Join
  <2>4. CASE UNCHANGED carry
    BY <2>1, <2>2, <2>4 DEF ChainInv
  <2> QED
    BY <2>0, <2>1, <2>2, <2>3, <2>4, ClaimChain, Arguments
<1>5. ASSUME NEW t \in Threads, UnAwait(t) PROVE ChainInv'
  <2>1. UNCHANGED <<racePc, turn, last, chain, finally, carry>>
    BY <1>5 DEF UnAwait, callVars
  <2>2. \A u \in Threads : unawait'[u] # 0 => unawait[u] # 0
    BY <1>5 DEF Types, UnAwait
  <2> QED
    BY <2>1, <2>2 DEF ChainInv
<1>6. CASE (\E m \in Members : Settle(m) \/ FireAll(m)) \/ All
  <2>1. UNCHANGED <<callVars, chainVars>>
    BY <1>6 DEF Settle, FireAll, All, AllAwait, AllReturn, AllClear
  <2> QED
    BY <2>1 DEF ChainInv, callVars, chainVars
<1> QED
  BY <1>1, <1>3, <1>4, <1>5, <1>6, AttachChain, SettleChainChain
    DEF Next, Race, Fire, Propagate

------------------------------------------------------------------------------
(* The callbacks that are registered. *)

(* What an action may take off and add to the awaiters, once the coverage of
   the rest is known. *)
LEMMA RegisteredKept ==
    ASSUME RegisteredInv,
           \A m \in Members : awaiters'[m] = awaiters[m] \/
              (Once(awaiters'[m]) /\ "race" \notin Range(awaiters'[m])),
           \A m \in Members : Met(m) => Met(m)',
           \A m \in Members : Covered(m) =>
              Covered(m)' \/ "race" \notin Range(awaiters'[m])
    PROVE  RegisteredInv'
BY DEF RegisteredInv

LEMMA AwaitAllRegistered ==
    ASSUME Types, RegisteredInv, NEW n \in Members, Await(n, "all"),
           UNCHANGED <<callVars, chainVars>>
    PROVE  RegisteredInv'
<1>1. /\ Range(Append(awaiters[n], "all")) = Range(awaiters[n]) \union {"all"}
      /\ Once(awaiters[n]) => Once(Append(awaiters[n], "all"))
  BY AppendFacts DEF Types
<1>2. \A m \in Members :
         awaiters'[m] = IF m = n THEN Append(awaiters[n], "all") ELSE awaiters[m]
  BY DEF Types, Await
<1>3. \A m \in Members : (Met(m) => Met(m)') /\ (Covered(m) => Covered(m)')
  BY DEF Met, Covered, callVars, chainVars
<1> QED
  BY <1>1, <1>2, <1>3 DEF RegisteredInv

LEMMA JoinRegistered ==
    ASSUME Types, RegisteredInv, Join
    PROVE  RegisteredInv'
<1> DEFINE n == Contestants[turn]
<1>0. turn \in 1 .. Len(Contestants) /\ turn \in Nat /\ n \in Members /\ racePc = "join"
  BY Arguments DEF Types, Join, Racing
<1>1. UNCHANGED <<finally, unawait>>
  BY DEF Join
<1>2. \A m \in Members : Covered(m) => Covered(m)'
  BY <1>0, <1>1 DEF Covered
<1>3. CASE Advance("next") /\ UNCHANGED memberVars
  <2>1. turn' = turn + 1
    BY <1>3 DEF Advance
  <2>2. \A i \in 1 .. Len(Contestants) : i < turn => i < turn'
    BY <1>0, <2>1
  <2>3. \A m \in Members : Met(m) => Met(m)'
    BY <1>0, <2>2 DEF Met
  <2> QED
    BY <1>2, <1>3, <2>3, RegisteredKept DEF memberVars
<1>4. CASE Await(n, "race") /\ Advance("attach")
  <2>1. racePc' = "attach" /\ turn' = turn
    BY <1>4 DEF Advance
  <2>2. \A m \in Members : Met(m) => Met(m)'
    BY <1>0, <2>1 DEF Met
  <2>3. "race" \notin Range(awaiters[n])
    <3>1. \A i \in 1 .. Len(Contestants) : Contestants[i] = n => i = turn /\ ~(i < turn)
      BY <1>0, Arguments
    <3>2. ~Met(n)
      BY <1>0, <3>1 DEF Met
    <3> QED
      BY <1>0, <3>2 DEF RegisteredInv
  <2>4. Once(Append(awaiters[n], "race"))
    BY <1>0, <2>3, AppendFacts DEF Types
  <2>5. \A m \in Members :
           awaiters'[m] = IF m = n THEN Append(awaiters[n], "race") ELSE awaiters[m]
    BY <1>0, <1>4 DEF Types, Await
  <2>6. \A m \in Members : m = n => Met(m)' /\ Covered(m)'
    BY <1>0, <2>1 DEF Met, Covered
  <2> QED
    BY <1>2, <2>2, <2>4, <2>5, <2>6 DEF RegisteredInv
<1> QED
  BY <1>3, <1>4 DEF Join

LEMMA AttachRegistered ==
    ASSUME Types, ChainInv, RegisteredInv, Attach
    PROVE  RegisteredInv'
<1>0. turn \in 1 .. Len(Contestants) /\ turn \in Nat /\ last \in Chain /\ last \in Nat
  BY Arguments, PendingFacts DEF Types, Attach, Racing
<1>1. turn' = turn + 1 /\ awaiters' = awaiters
  BY DEF Attach, Advance, memberVars
<1>2. \A m \in Members : Met(m) => Met(m)'
  <2>1. \A i \in 1 .. Len(Contestants) : i < turn => i < turn'
    BY <1>0, <1>1
  <2>2. turn < turn'
    BY <1>0, <1>1
  <2> QED
    BY <2>1, <2>2 DEF Met
<1>3. finally[last] = 0
  BY <1>0 DEF Types, ChainInv
<1>4. unawait[RaceCaller] = 0
  BY Arguments DEF ChainInv, Attach, Racing
<1>5. ASSUME NEW m \in Members, Covered(m) PROVE Covered(m)'
  <2>0. m # 0
    BY Arguments
  <2>1. CASE racePc = "attach" /\ Contestants[turn] = m
    <3>1. finally'[last] = m \/ unawait'[RaceCaller] = m
      BY <1>0, <2>1, Arguments DEF Types, Attach
    <3> QED
      BY <1>0, <3>1, Arguments DEF Covered
  <2>2. CASE \E k \in Chain : finally[k] = m
    <3>1. PICK k \in Chain : finally[k] = m
      BY <2>2
    <3>2. finally'[k] = m
      BY <1>0, <1>3, <2>0, <3>1 DEF Types, Attach
    <3> QED
      BY <3>2 DEF Covered
  <2>3. CASE \E t \in Threads : unawait[t] = m
    <3>1. PICK t \in Threads : unawait[t] = m
      BY <2>3
    <3>2. unawait'[t] = m
      BY <1>4, <2>0, <3>1 DEF Types, Attach
    <3> QED
      BY <3>2 DEF Covered
  <2> QED
    BY <1>5, <2>1, <2>2, <2>3 DEF Covered
<1> QED
  BY <1>1, <1>2, <1>5, RegisteredKept

LEMMA RegisteredStep ==
    ASSUME Types, ChainInv, RegisteredInv, Next
    PROVE  RegisteredInv'
<1>0. ASSUME UNCHANGED <<callVars, finally, unawait>>
      PROVE  \A m \in Members : (Met(m) => Met(m)') /\ (Covered(m) => Covered(m)')
  BY <1>0 DEF Met, Covered, callVars
<1>1. ASSUME NEW n \in Members, Settle(n) PROVE RegisteredInv'
  <2>1. \A m \in Members : awaiters'[m] = IF m = n THEN <<>> ELSE awaiters[m]
    BY <1>1 DEF Types, Settle
  <2>2. UNCHANGED <<callVars, finally, unawait>>
    BY <1>1 DEF Settle, chainVars
  <2> QED
    BY <1>0, <2>1, <2>2, EmptyFacts, RegisteredKept
<1>2. CASE AllAwait
  <2>0. order[pos] \in Members
    <3>1. pos \in 1 .. Len(order)
      BY <1>2 DEF Types, AllAwait
    <3>2. order[pos] \in AllOf
      BY <3>1 DEF Types
    <3> QED
      BY <3>2, CombinatorsAssumption
  <2>1. UNCHANGED <<callVars, chainVars>> /\ UNCHANGED <<callVars, finally, unawait>>
    BY <1>2 DEF AllAwait, chainVars
  <2>2. Await(order[pos], "all") \/ awaiters' = awaiters
    BY <1>2 DEF AllAwait, memberVars
  <2> QED
    BY <1>0, <2>0, <2>1, <2>2, AwaitAllRegistered, RegisteredKept
<1>3. CASE Test
  <2>0. turn \in Nat /\ racePc = "test"
    BY <1>3 DEF Types, Test, Racing
  <2>1. UNCHANGED <<awaiters, finally, unawait>> /\ (turn' = turn \/ turn' = turn + 1)
    BY <1>3 DEF Test, Advance, chainVars
  <2>2. \A i \in 1 .. Len(Contestants) : i < turn => i < turn'
    BY <2>0, <2>1
  <2>3. \A m \in Members : (Met(m) => Met(m)') /\ (Covered(m) => Covered(m)')
    BY <2>0, <2>1, <2>2 DEF Met, Covered
  <2> QED
    BY <2>1, <2>3, RegisteredKept
<1>4. ASSUME NEW t \in Threads, UnAwait(t) PROVE RegisteredInv'
  <2>1. unawait[t] \in Members
    BY <1>4, Arguments DEF Types, UnAwait
  <2>2. /\ "race" \notin Range(RemoveFirst(awaiters[unawait[t]], "race"))
        /\ Once(RemoveFirst(awaiters[unawait[t]], "race"))
    BY <2>1, RemoveFirstFacts DEF Types, RegisteredInv
  <2>3. \A m \in Members : awaiters'[m] = IF m = unawait[t]
           THEN RemoveFirst(awaiters[unawait[t]], "race") ELSE awaiters[m]
    BY <1>4, <2>1 DEF Types, UnAwait
  <2>4. \A m \in Members : Met(m) => Met(m)'
    BY <1>4 DEF UnAwait, callVars, Met
  <2>5. \A u \in Threads : u # t => unawait'[u] = unawait[u]
    BY <1>4 DEF Types, UnAwait
  <2>6. \A m \in Members : Covered(m) => Covered(m)' \/ m = unawait[t]
    BY <1>4, <2>5 DEF UnAwait, callVars, Covered
  <2> QED
    BY <2>2, <2>3, <2>4, <2>6, RegisteredKept
<1>5. ASSUME NEW t \in Threads, SettleChain(t) PROVE RegisteredInv'
  <2> DEFINE k == carry[t].at
  <2>0. k \in Chain
    BY DEF Types
  <2>1. /\ unawait' = [unawait EXCEPT ![t] = finally[k]] /\ unawait[t] = 0
        /\ finally' = [finally EXCEPT ![k] = 0]
        /\ UNCHANGED <<racePc, turn, awaiters>>
    BY <1>5 DEF SettleChain, memberVars, callVars
  <2> HIDE DEF k
  <2>2. \A m \in Members : Met(m) => Met(m)'
    BY <2>1 DEF Met
  <2>3. ASSUME NEW m \in Members, Covered(m) PROVE Covered(m)'
    <3>0. m # 0
      BY Arguments
    <3>1. unawait'[t] = finally[k] /\ \A j \in Chain : j # k => finally'[j] = finally[j]
      BY <2>0, <2>1 DEF Types
    <3>2. \A u \in Threads : unawait[u] = m => unawait'[u] = m
      BY <2>1, <3>0 DEF Types
    <3> QED
      BY <2>1, <2>3, <3>1, <3>2 DEF Covered
  <2> QED
    BY <2>1, <2>2, <2>3, RegisteredKept
<1>6. CASE (\E m \in Members : Fire(m)) \/ AllReturn \/ AllClear
  <2>1. UNCHANGED <<callVars, finally, unawait>> /\ awaiters' = awaiters
    BY <1>6 DEF Fire, FireAll, FireRace, AllReturn, AllClear, memberVars, chainVars
  <2> QED
    BY <1>0, <2>1, RegisteredKept
<1> QED
  BY <1>1, <1>2, <1>3, <1>4, <1>5, <1>6, JoinRegistered, AttachRegistered
    DEF Next, All, Race, Propagate

------------------------------------------------------------------------------
(* The theorems. *)

LEMMA InvStep ==
    ASSUME Inv, [Next]_vars
    PROVE  Inv'
<1>1. CASE Next
  BY <1>1, TypesStep, AllStep, BatchStep, WinnerStep, ChainStep, RegisteredStep DEF Inv
<1>2. CASE UNCHANGED vars
  <2>1. UNCHANGED <<out, awaiters, batch, order, pos, allOut, racePc, turn, claimed,
                    last, chain, finally, carry, unawait>>
    BY <1>2 DEF vars, memberVars, allVars, callVars, chainVars
  <2>2. Types'
    BY <2>1 DEF Inv, Types
  <2>3. AllInv' /\ BatchInv'
    BY <2>1 DEF Inv, AllInv, AllOutcome, BatchInv, IsDone
  <2>4. WinnerInv'
    BY <2>1 DEF Inv, WinnerInv, WonBy, IsDone, RaceOf
  <2>5. ChainInv'
    BY <2>1 DEF Inv, ChainInv
  <2>6. RegisteredInv'
    BY <2>1 DEF Inv, RegisteredInv, Met, Covered
  <2> QED
    BY <2>2, <2>3, <2>4, <2>5, <2>6 DEF Inv
<1> QED
  BY <1>1, <1>2

(* The types, what All has passed, where the callbacks of Race are, that one
   thread at a time settles the chain, from its head and with the outcome of
   one contestant: together they are preserved by every step of the members'
   threads, of All and of Race. *)
THEOREM CombinatorsInvariant == Spec => []Inv
<1>1. Init => Inv
  BY InitInv
<1>2. Inv /\ [Next]_vars => Inv'
  BY InvStep
<1> QED
  BY <1>1, <1>2, PTL DEF Spec

(* All resolves if all its members did, and else has the exception of the
   first rejected member in the order of its awaits: for any number of members
   and any order the compiler evaluates them in. *)
THEOREM AllOutcomeTheorem == Spec => []AllOutcome
<1>1. Inv => AllOutcome
  BY DEF Inv, AllInv
<1> QED
  BY <1>1, CombinatorsInvariant, PTL

(* The promises of the race chain that have settled agree on the outcome of
   one contestant, however many there are and however many settle at once. *)
THEOREM OneWinnerTheorem == Spec => []OneWinner
<1>1. Inv => OneWinner
  BY DEF Inv, WinnerInv, WonBy, ChainInv, OneWinner
<1> QED
  BY <1>1, CombinatorsInvariant, PTL

(* When Race has returned and its promise has settled, no contestant has its
   callback any more, which UnAwait in the Finally of each took off. *)
THEOREM NoLoserRegisteredTheorem == Spec => []NoLoserRegistered
<1>1. ASSUME Inv, turn > Len(Contestants), chain[last] # Pending, NEW m \in RaceOf,
             Contains(awaiters[m], "race")
      PROVE  FALSE
  <2>0. /\ m \in Members /\ m # 0 /\ last \in Chain /\ last \in Nat /\ Chain \subseteq Nat
        /\ turn \in Nat /\ Len(Contestants) \in Nat
    BY <1>1, Arguments, PendingFacts DEF Inv, Types
  <2>1. racePc # "attach"
    BY <1>1, <2>0 DEF Inv, ChainInv
  <2>2. \A k \in Chain : finally[k] = 0
    <3>1. \A k \in Chain : k < last => k <= last
      BY <2>0
    <3> QED
      BY <1>1, <2>0, <3>1 DEF Inv, ChainInv
  <2>3. ASSUME NEW t \in Threads PROVE unawait[t] = 0
    <3>1. carry[t].at \in Chain
      BY <1>1 DEF Inv, Types
    <3>2. carry[t] = Nothing
      BY <1>1, <2>0, <3>1 DEF Inv, ChainInv
    <3> QED
      BY <1>1, <3>2 DEF Inv, ChainInv
  <2>4. ~Covered(m)
    BY <2>0, <2>1, <2>2, <2>3 DEF Covered
  <2>5. "race" \in Range(awaiters[m])
    <3>1. awaiters[m] \in Seq({"all", "race"})
      BY <1>1, <2>0 DEF Inv, Types
    <3> QED
      BY <1>1, <3>1 DEF Contains, Range
  <2> QED
    BY <1>1, <2>0, <2>4, <2>5 DEF Inv, RegisteredInv
<1>2. Inv => NoLoserRegistered
  BY <1>1 DEF NoLoserRegistered
<1> QED
  BY <1>2, CombinatorsInvariant, PTL
=============================================================================
