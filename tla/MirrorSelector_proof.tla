-------------------------- MODULE MirrorSelector_proof --------------------------
(***************************************************************************)
(* Proofs about MirrorSelector, for any mirrors, fetchers, loops, rates    *)
(* and penalties: the recovery goroutine, the range of the weights, and    *)
(* that the loop of Select finds the mirror with the highest score.        *)
(***************************************************************************)
EXTENDS MirrorSelector, SequenceTheorems, FiniteSetTheorems,
        WellFoundedInduction, TLAPS

USE MirrorSelectorAssumption

LoopStates == {"none", "select", "woken", "leaving"}

(* The part of TypeOK that does not depend on what Select returns.         *)
WeightsInRange ==
  /\ effective \in [Mirrors -> Nat]
  /\ \A m \in Mirrors : effective[m] <= BaseWeight[m]

LoopType == loop \in [Loops -> LoopStates]

RateType == rate \in [Loops -> 0..100]

(* Who is charged still owes something.                                    *)
OwedType ==
  /\ owed \in [Fetchers -> Seq(Nat)]
  /\ DOMAIN fetcher = Fetchers
  /\ \A f \in Fetchers : fetcher[f] = "charged" => owed[f] # <<>>

-----------------------------------------------------------------------------
(* The name StartRecovery gives the new goroutine.                         *)
LEMMA StartRecoveryName ==
  ASSUME LoopType, NEW r \in Rates, StartRecovery(r)
  PROVE  \E l \in Loops : /\ loop[l] = "none"
                          /\ loop' = [loop EXCEPT ![l] = "select"]
                          /\ rate' = [rate EXCEPT ![l] = Usable(r)]
<1> DEFINE l == CHOOSE k \in Free : TRUE
<1>1. l \in Free
  BY DEF StartRecovery
<1>2. /\ loop' = [loop EXCEPT ![l] = "select"]
      /\ rate' = [rate EXCEPT ![l] = Usable(r)]
  BY DEF StartRecovery
<1> HIDE DEF l
<1> QED BY <1>1, <1>2 DEF Free

(* The recovery goroutine is started when there is none, and clears        *)
(* recoveryRunning when it ends.                                           *)
LEMMA NextLoop == LoopType /\ OneRecovery /\ [Next]_vars => LoopType' /\ OneRecovery'
<1> SUFFICES ASSUME LoopType, OneRecovery, [Next]_vars
             PROVE  LoopType' /\ OneRecovery'
  OBVIOUS
<1> USE DEF LoopType, LoopStates, OneRecovery
<1>1. CASE UNCHANGED <<loop, recoveryRunning>>
  BY <1>1
<1>2. CASE \E r \in Rates : StartRecovery(r)
  <2> PICK r \in Rates : StartRecovery(r)
    BY <1>2
  <2>1. PICK l \in Loops : loop' = [loop EXCEPT ![l] = "select"]
    BY StartRecoveryName
  <2>2. ~recoveryRunning /\ recoveryRunning' = TRUE
    BY DEF StartRecovery
  <2>3. \A k \in Loops : loop'[k] = IF k = l THEN "select" ELSE "none"
    BY <2>1, <2>2
  <2> QED BY <2>1, <2>2, <2>3
<1>3. ASSUME NEW l \in Loops, Wake(l) \/ Recover(l) \/ LoopStop(l)
      PROVE  LoopType' /\ OneRecovery'
  <2>1. /\ loop[l] # "none" /\ recoveryRunning' = recoveryRunning
        /\ \E to \in LoopStates \ {"none"} : loop' = [loop EXCEPT ![l] = to]
    BY <1>3 DEF Wake, Recover, RecoverTo, LoopStop
  <2>2. loop' \in [Loops -> LoopStates]
    BY <2>1
  <2>3. \A k \in Loops : loop'[k] = "none" <=> loop[k] = "none"
    BY <2>1
  <2> QED BY <2>1, <2>2, <2>3
<1>4. ASSUME NEW l \in Loops, LoopExit(l)
      PROVE  LoopType' /\ OneRecovery'
  <2>1. /\ loop[l] # "none" /\ recoveryRunning' = FALSE
        /\ loop' = [loop EXCEPT ![l] = "none"]
    BY <1>4 DEF LoopExit
  <2>2. \A k \in Loops : loop'[k] = "none"
    BY <2>1
  <2> QED BY <2>1, <2>2
<1>5. CASE UNCHANGED vars
  BY <1>1, <1>5 DEF vars, loopVars
<1>6. ASSUME NEW f \in Fetchers, Fetch(f) PROVE LoopType' /\ OneRecovery'
  BY <1>1, <1>6 DEF Fetch, Select, Begin, Finish, Check, Penalize, Charged,
                    loopVars
<1>7. CASE Stop \/ Tick \/ \E m \in Mirrors : Add(m) \/ Later(m)
  BY <1>1, <1>7 DEF Stop, Tick, Add, Later, loopVars
<1> QED BY <1>2, <1>3, <1>4, <1>5, <1>6, <1>7 DEF Next, RecoverWeights

(* At most one recoverWeights goroutine exists, and recoveryRunning says   *)
(* whether one does.                                                       *)
THEOREM OneRecoveryHolds == Spec => []OneRecovery
<1>1. Init => LoopType /\ OneRecovery
  BY DEF Init, LoopType, LoopStates, OneRecovery
<1> QED BY <1>1, NextLoop, PTL DEF Spec

-----------------------------------------------------------------------------
(* Recovery does not pass the base weight.                                 *)
LEMMA RecoveredInRange ==
  ASSUME NEW base \in Nat, NEW weight \in Nat, weight <= base, NEW r \in 0..100
  PROVE  LET new == weight + (((base - weight) * r + 99) \div 100)
         IN  new \in Nat /\ new <= base
<1> DEFINE gap == base - weight
<1>1. gap \in Nat /\ r \in Nat
  OBVIOUS
<1>2. gap * r \in Nat /\ gap * r <= gap * 100
  BY <1>1
<1> DEFINE g == gap * r
<1> HIDE DEF g
<1>3. ((g + 99) \div 100) \in Nat /\ ((g + 99) \div 100) <= gap
  BY <1>1, <1>2 DEF g
<1> QED BY <1>1, <1>3 DEF g

(* Every step keeps the weights in range, and penalties in a sequence.     *)
LEMMA NextWeights ==
  ASSUME LoopType, WeightsInRange, RateType, OwedType, [Next]_vars
  PROVE  WeightsInRange' /\ RateType' /\ OwedType'
<1> USE DEF WeightsInRange, RateType, OwedType
<1>1. CASE UNCHANGED <<effective, rate, owed, fetcher>>
  BY <1>1
<1>2. CASE \E r \in Rates : StartRecovery(r)
  <2> PICK r \in Rates : StartRecovery(r)
    BY <1>2
  <2>1. PICK l \in Loops : rate' = [rate EXCEPT ![l] = Usable(r)]
    BY StartRecoveryName
  <2>2. Usable(r) \in 0..100
    BY DEF Usable
  <2>3. UNCHANGED <<effective, owed, fetcher>>
    BY Zenon DEF StartRecovery, weightVars, fetchVars
  <2> QED BY <2>1, <2>2, <2>3
<1>3. ASSUME NEW f \in Fetchers, Finish(f) \/ Check(f)
      PROVE  WeightsInRange' /\ RateType' /\ OwedType'
  <2>1. PICK charge \in Seq(Nat) :
          charge # <<>> /\ owed' = [owed EXCEPT ![f] = charge]
    <3>1. \A charge \in Charges : charge \in Seq(Nat) /\ charge # <<>>
      OBVIOUS
    <3>2. <<1>> \in Seq(Nat) /\ <<1>> # <<>>
      OBVIOUS
    <3> QED BY <1>3, <3>1, <3>2 DEF Finish, Check, Charge
  <2> QED BY <1>3, <2>1 DEF Finish, Check, weightVars, loopVars
<1>4. ASSUME NEW f \in Fetchers, Penalize(f)
      PROVE  WeightsInRange' /\ RateType' /\ OwedType'
  <2> DEFINE left == IF Left(f) < 0 THEN 0 ELSE Left(f)
  <2>1. /\ effective' = [effective EXCEPT ![using[f]] = left]
        /\ owed' = [owed EXCEPT ![f] = Tail(@)]
        /\ rate' = rate
        /\ fetcher[f] = "charged"
        /\ fetcher' = IF Len(owed[f]) = 1 THEN [fetcher EXCEPT ![f] = "idle"]
                      ELSE fetcher
    BY <1>4 DEF Penalize, Charged, loopVars
  <2>2. OwedType'
    <3> DEFINE o == owed[f]
    <3>1. o \in Seq(Nat) /\ o # <<>>
      BY <2>1
    <3> HIDE DEF o
    <3>2. Tail(o) \in Seq(Nat) /\ (Len(o) # 1 => Tail(o) # <<>>)
      <4>1. Tail(o) \in Seq(Nat) /\ Len(Tail(o)) = Len(o) - 1 /\ Len(o) \in Nat
        BY <3>1
      <4>2. Len(o) # 1 => Len(Tail(o)) # 0
        BY <4>1
      <4> QED BY <4>1, <4>2, EmptySeq
    <3>3. owed' = [owed EXCEPT ![f] = Tail(o)]
      BY <2>1 DEF o
    <3>4. owed' \in [Fetchers -> Seq(Nat)]
      BY <3>2, <3>3
    <3> QED BY <2>1, <3>2, <3>3, <3>4 DEF o
  <2>3. using[f] \in Mirrors => left \in Nat /\ left <= effective[using[f]]
    <3>1. Head(owed[f]) \in Nat
      BY <2>1
    <3> QED BY <3>1 DEF Left
  <2> HIDE DEF left
  <2>4. effective' \in [Mirrors -> Nat]
    BY <2>1, <2>3
  <2>5. \A m \in Mirrors : effective'[m] <= BaseWeight[m]
    <3>1. \A m \in Mirrors : effective'[m] = IF m = using[f] THEN left ELSE effective[m]
      BY <2>1
    <3>2. ASSUME using[f] \in Mirrors PROVE left <= BaseWeight[using[f]]
      <4>1. /\ left \in Nat /\ left <= effective[using[f]]
            /\ effective[using[f]] \in Nat /\ BaseWeight[using[f]] \in Nat
            /\ effective[using[f]] <= BaseWeight[using[f]]
        BY <2>3, <3>2
      <4> QED BY <4>1
    <3> QED BY <3>1, <3>2
  <2> QED BY <2>1, <2>2, <2>4, <2>5
<1>5. ASSUME NEW l \in Loops, RecoverWeights(l)
      PROVE  WeightsInRange' /\ RateType' /\ OwedType'
  <2>1. CASE Wake(l) \/ LoopStop(l)
    BY <2>1 DEF Wake, LoopStop, weightVars, fetchVars
  <2>2. CASE LoopExit(l)
    BY <2>2 DEF LoopExit, weightVars, fetchVars
  <2>3. CASE Recover(l)
    <3>1. /\ effective' = [m \in Mirrors |->
                IF m \in Known /\ effective[m] < BaseWeight[m]
                THEN Recovered(m, rate[l]) ELSE effective[m]]
          /\ rate' = rate /\ owed' = owed /\ fetcher' = fetcher
      BY <2>3 DEF Recover, RecoverTo, fetchVars
    <3>2. \A m \in Mirrors : effective[m] < BaseWeight[m] =>
            Recovered(m, rate[l]) \in Nat /\ Recovered(m, rate[l]) <= BaseWeight[m]
      BY RecoveredInRange DEF Recovered
    <3>3. effective' \in [Mirrors -> Nat]
      BY <3>1, <3>2
    <3>4. \A m \in Mirrors : effective'[m] <= BaseWeight[m]
      BY <3>1, <3>2
    <3> QED BY <3>1, <3>3, <3>4
  <2> QED BY <1>5, <2>1, <2>2, <2>3 DEF RecoverWeights
<1>6. ASSUME NEW f \in Fetchers, Select(f) \/ Begin(f)
      PROVE  WeightsInRange' /\ RateType' /\ OwedType'
  BY <1>1, <1>6 DEF Select, Begin, weightVars, loopVars
<1>7. CASE Stop \/ Tick \/ \E m \in Mirrors : Add(m) \/ Later(m)
  BY <1>1, <1>7 DEF Stop, Tick, Add, Later, weightVars, fetchVars, loopVars
<1>8. CASE UNCHANGED vars
  BY <1>1, <1>8 DEF vars, weightVars, fetchVars, loopVars
<1> QED BY <1>2, <1>3, <1>4, <1>5, <1>6, <1>7, <1>8 DEF Next, Fetch

LEMMA Ranges ==
  Spec => [](LoopType /\ OneRecovery /\ WeightsInRange /\ RateType /\ OwedType)
<1>1. Init => /\ LoopType /\ OneRecovery
              /\ WeightsInRange /\ RateType /\ OwedType
  BY DEF Init, LoopType, LoopStates, OneRecovery, WeightsInRange, RateType,
         OwedType
<1>2. LoopType /\ WeightsInRange /\ RateType /\ OwedType /\ [Next]_vars =>
        WeightsInRange' /\ RateType' /\ OwedType'
  BY NextWeights
<1> QED BY <1>1, <1>2, NextLoop, PTL DEF Spec

(* No penalty takes a weight below zero, and no recovery above the base    *)
(* weight, in whatever order they come.                                    *)
THEOREM WeightsInRangeHolds == Spec => []WeightsInRange
BY Ranges, PTL

-----------------------------------------------------------------------------
(* Induction over 0..N for a set of numbers, from the least that is not in *)
(* it.                                                                     *)
LEMMA UpTo ==
  ASSUME NEW N \in Nat, NEW P, 0 \in P,
         \A i \in 1..N : i - 1 \in P => i \in P
  PROVE  0..N \subseteq P
<1> DEFINE T == (0..N) \ P
<1> SUFFICES ASSUME T # {} PROVE FALSE
  OBVIOUS
<1>1. T \subseteq Nat
  OBVIOUS
<1>2. PICK n \in T : \A k \in T : ~ (<<k, n>> \in OpToRel(<, Nat))
  BY <1>1, NatLessThanWellFounded, WFMin
<1>3. \A k \in T : ~ (k < n)
  <2> HIDE DEF T
  <2> QED BY <1>1, <1>2 DEF OpToRel
<1>4. n \in 1..N /\ n - 1 \in 0..N /\ n - 1 < n
  OBVIOUS
<1> QED BY <1>3, <1>4

(* A function defined by recursion on 0..N exists.                         *)
Iterates(f, N, S, start, next) ==
  /\ f \in [0..N -> S]
  /\ f[0] = start
  /\ \A i \in 1..N : f[i] = next[i][f[i - 1]]

LEMMA Recursion ==
  ASSUME NEW N \in Nat, NEW S, NEW start \in S, NEW next \in [1..N -> [S -> S]]
  PROVE  \E f : Iterates(f, N, S, start, next)
<1> DEFINE Step(f, n) ==
             f[0] = start /\ \A i \in 1..n : f[i] = next[i][f[i - 1]]
           P == {n \in 0..N : \E f \in [0..n -> S] : Step(f, n)}
<1>1. 0 \in P
  <2> DEFINE f == [i \in 0..0 |-> start]
  <2>1. f \in [0..0 -> S] /\ Step(f, 0)
    OBVIOUS
  <2> HIDE DEF f, Step
  <2> QED BY <2>1
<1>2. ASSUME NEW n \in 1..N, n - 1 \in P
      PROVE  n \in P
  <2>1. PICK f \in [0..(n - 1) -> S] : Step(f, n - 1)
    BY <1>2
  <2> DEFINE g == [i \in 0..n |-> IF i = n THEN next[n][f[n - 1]] ELSE f[i]]
  <2>2. n - 1 \in 0..(n - 1) /\ f[n - 1] \in S
    OBVIOUS
  <2>3. g \in [0..n -> S]
    BY <2>2
  <2>4. Step(g, n)
    <3>1. g[0] = start
      BY <2>1
    <3>2. ASSUME NEW i \in 1..n
          PROVE  g[i] = next[i][g[i - 1]]
      <4>1. CASE i = n
        BY <4>1
      <4>2. CASE i # n
        BY <2>1, <4>2
      <4> QED BY <4>1, <4>2
    <3> QED BY <3>1, <3>2
  <2> HIDE DEF g, Step
  <2> QED BY <2>3, <2>4
<1>3. N \in P
  <2> HIDE DEF P
  <2>1. \A n \in 1..N : n - 1 \in P => n \in P
    BY <1>2
  <2>2. 0..N \subseteq P
    BY <1>1, <2>1, UpTo
  <2> QED BY <2>2
<1> QED BY <1>3 DEF Iterates

-----------------------------------------------------------------------------
(* The counts as a Select may read them.                                   *)
Counts == [Mirrors -> Nat]

Choices == Mirrors \cup {NoMirror}

Beats(m, n, read) ==
  /\ effective[m] > 0
  /\ n = NoMirror \/ ScoresMore(m, read[m], n, read[n])

(* The loop of Select, unfolded.                                           *)
LEMMA WinnersStep ==
  ASSUME mirrors \in Seq(Mirrors), NEW read \in Counts
  PROVE  /\ Winners(read) \in [0..Len(mirrors) -> Choices]
         /\ Winners(read)[0] = NoMirror
         /\ \A i \in 1..Len(mirrors) :
              Winners(read)[i] = IF Beats(mirrors[i], Winners(read)[i - 1], read)
                                 THEN mirrors[i] ELSE Winners(read)[i - 1]
<1> DEFINE N == Len(mirrors)
           next == [i \in 1..N |-> [n \in Choices |->
                      IF Beats(mirrors[i], n, read) THEN mirrors[i] ELSE n]]
           Loop(f) == [i \in 0..N |->
                         IF i = 0 THEN NoMirror
                         ELSE IF Beats(mirrors[i], f[i - 1], read)
                              THEN mirrors[i] ELSE f[i - 1]]
<1>1. N \in Nat /\ \A i \in 1..N : mirrors[i] \in Mirrors
  OBVIOUS
<1>2. next \in [1..N -> [Choices -> Choices]] /\ NoMirror \in Choices
  BY <1>1 DEF Choices
<1>3. PICK f \in [0..N -> Choices] :
        f[0] = NoMirror /\ \A i \in 1..N : f[i] = next[i][f[i - 1]]
  <2> HIDE DEF N, next
  <2>1. \E f : Iterates(f, N, Choices, NoMirror, next)
    BY <1>1, <1>2, Recursion
  <2> QED BY <2>1 DEF Iterates
<1>4. f = Loop(f)
  <2>1. ASSUME NEW i \in 1..N
        PROVE  f[i] = IF Beats(mirrors[i], f[i - 1], read)
                      THEN mirrors[i] ELSE f[i - 1]
    <3>1. f[i - 1] \in Choices /\ f[i] = next[i][f[i - 1]]
      <4> HIDE DEF next, Choices
      <4>1. i - 1 \in 0..N
        BY <1>1
      <4> QED BY <1>3, <4>1
    <3> HIDE DEF Choices
    <3> QED BY <3>1
  <2>2. \A i \in 0..N : f[i] = Loop(f)[i]
    BY <1>1, <1>3, <2>1
  <2>3. f = [i \in 0..N |-> f[i]] /\ Loop(f) = [i \in 0..N |-> Loop(f)[i]]
    OBVIOUS
  <2> HIDE DEF Loop, N
  <2> QED BY <2>2, <2>3
<1>5. Winners(read) = CHOOSE g : g = Loop(g)
  BY DEF Winners, Beats
<1>6. Winners(read) = Loop(Winners(read))
  <2> HIDE DEF Loop
  <2> QED BY <1>4, <1>5
<1> DEFINE W == Winners(read)
<1>7. /\ DOMAIN W = 0..N /\ W[0] = NoMirror
      /\ \A i \in 1..N : W[i] = IF Beats(mirrors[i], W[i - 1], read)
                                THEN mirrors[i] ELSE W[i - 1]
  <2> HIDE DEF W
  <2> SUFFICES W = Loop(W)
    BY <1>1, SMTT(20)
  <2> QED BY <1>6 DEF W
<1>8. \A i \in 0..N : W[i] \in Choices
  <2> DEFINE P == {i \in 0..N : W[i] \in Choices}
  <2>1. 0 \in P
    BY <1>2, <1>7
  <2>2. ASSUME NEW i \in 1..N, i - 1 \in P
        PROVE  i \in P
    <3>1. W[i] \in {mirrors[i], W[i - 1]}
      BY <1>7
    <3> HIDE DEF W
    <3> QED BY <1>1, <2>2, <3>1 DEF Choices
  <2> HIDE DEF P
  <2>3. \A i \in 1..N : i - 1 \in P => i \in P
    BY <2>2
  <2>4. 0..N \subseteq P
    BY <1>1, <2>1, <2>3, UpTo
  <2> QED BY <2>4 DEF P
<1>9. W \in [0..N -> Choices]
  <2>1. W = [i \in 0..N |-> W[i]]
    <3> HIDE DEF W
    <3> SUFFICES W = Loop(W)
      OBVIOUS
    <3> QED BY <1>6 DEF W
  <2> HIDE DEF W
  <2> QED BY <1>8, <2>1
<1> QED BY <1>7, <1>9

-----------------------------------------------------------------------------
(* Comparing quotients without dividing.                                   *)
LEMMA Times ==
  ASSUME NEW x \in Nat, NEW y \in Nat, NEW z \in Nat \ {0}
  PROVE  x * z <= y * z <=> x <= y
<1>1. ASSUME x <= y PROVE x * z <= y * z
  <2>1. PICK d \in Nat : y = x + d
    <3>1. y - x \in Nat /\ y = x + (y - x)
      BY <1>1
    <3> QED BY <3>1
  <2>2. (x + d) * z = x * z + d * z
    OBVIOUS
  <2>3. d * z \in Nat /\ x * z \in Nat
    OBVIOUS
  <2> QED BY <2>1, <2>2, <2>3
<1>2. ASSUME y < x PROVE y * z < x * z
  <2>1. PICK d \in Nat : x = y + 1 + d
    <3>1. x - y - 1 \in Nat /\ x = y + 1 + (x - y - 1)
      BY <1>2
    <3> QED BY <3>1
  <2>2. (y + 1 + d) * z = y * z + z + d * z
    OBVIOUS
  <2>3. d * z \in Nat /\ y * z \in Nat /\ z > 0
    OBVIOUS
  <2> QED BY <2>1, <2>2, <2>3
<1>3. x * z \in Nat /\ y * z \in Nat
  OBVIOUS
<1> QED BY <1>1, <1>2, <1>3

LEMMA Transitive ==
  ASSUME NEW a \in Nat, NEW b \in Nat, NEW c \in Nat,
         NEW la \in Nat \ {0}, NEW lb \in Nat \ {0}, NEW lc \in Nat \ {0},
         a * lb <= b * la, b * lc <= c * lb
  PROVE  a * lc <= c * la
<1>1. /\ a * lb \in Nat /\ b * la \in Nat /\ b * lc \in Nat
      /\ c * lb \in Nat /\ a * lc \in Nat /\ c * la \in Nat
  OBVIOUS
<1>2. (a * lb) * lc <= (b * la) * lc
  BY <1>1, Times
<1>3. (b * lc) * la <= (c * lb) * la
  BY <1>1, Times
<1>4. /\ (b * la) * lc = (b * lc) * la /\ (a * lb) * lc = (a * lc) * lb
      /\ (c * lb) * la = (c * la) * lb
  OBVIOUS
<1>5. (a * lb) * lc \in Nat /\ (b * la) * lc \in Nat /\ (c * lb) * la \in Nat
  BY <1>1
<1>6. (a * lc) * lb <= (c * la) * lb
  BY <1>2, <1>3, <1>4, <1>5
<1> QED BY <1>1, <1>6, Times

ScoreType == effective \in [Mirrors -> Nat] /\ age \in [Mirrors -> Ages]

LEMMA Scores ==
  ASSUME ScoreType, NEW m \in Mirrors
  PROVE  /\ Weighted(m) \in Nat
         /\ effective[m] = 0 => Weighted(m) = 0
<1>1. Boost(age[m]) \in Nat
  BY DEF ScoreType, Ages, Boost
<1> QED BY <1>1 DEF ScoreType, Weighted

LEMMA Loads == \A n \in Nat : Load(n) \in Nat \ {0}
BY DEF Load

(* Among the mirrors Select has looked at, it remembers one with weight    *)
(* that none of the others beats, if there is one with weight.             *)
BestOf(w, i, read) ==
  \/ w = NoMirror /\ \A j \in 1..i : effective[mirrors[j]] = 0
  \/ /\ w \in Mirrors /\ effective[w] > 0
     /\ \E j \in 1..i : w = mirrors[j]
     /\ \A j \in 1..i :
          ~ ScoresMore(mirrors[j], read[mirrors[j]], w, read[w])

LEMMA BestOfStep ==
  ASSUME ScoreType, mirrors \in Seq(Mirrors), NEW read \in Counts,
         NEW i \in 1..Len(mirrors), NEW w, BestOf(w, i - 1, read)
  PROVE  BestOf(IF Beats(mirrors[i], w, read) THEN mirrors[i] ELSE w, i, read)
<1> DEFINE m == mirrors[i]
           NoMore(n, k) == Weighted(n) * Load(read[k]) <= Weighted(k) * Load(read[n])
<1>1. /\ Len(mirrors) \in Nat /\ \A j \in 1..Len(mirrors) : mirrors[j] \in Mirrors
      /\ m \in Mirrors /\ NoMirror \notin Mirrors
  OBVIOUS
<1>2. \A j \in 1..i : j \in 1..(i - 1) \/ j = i
  OBVIOUS
<1>3. \A j \in 1..i : mirrors[j] \in Mirrors
  BY <1>1
<1>4. \A n \in Mirrors : /\ Weighted(n) \in Nat /\ Load(read[n]) \in Nat \ {0}
                         /\ effective[n] \in Nat
  BY Scores, Loads DEF Counts, ScoreType
<1>5. \A n, k \in Mirrors :
        /\ Weighted(n) * Load(read[k]) \in Nat
        /\ ScoresMore(n, read[n], k, read[k]) <=> ~ NoMore(n, k)
  <2> TAKE n, k \in Mirrors
  <2>1. \A x, y \in Nat : (x > y <=> ~ (x <= y))
    OBVIOUS
  <2>2. \A x \in Nat, y \in Nat \ {0} : x * y \in Nat
    OBVIOUS
  <2>3. /\ Weighted(n) * Load(read[k]) \in Nat
        /\ Weighted(k) * Load(read[n]) \in Nat
    BY <1>4, <2>2
  <2> QED BY <2>1, <2>3 DEF ScoresMore
<1>6. ASSUME NEW n \in Mirrors, NEW k \in Mirrors, effective[n] = 0
      PROVE  NoMore(n, k)
  <2>1. Weighted(n) = 0
    BY <1>6, Scores
  <2>2. \A x \in Nat, y \in Nat \ {0} : x * y \in Nat /\ 0 * y = 0
    OBVIOUS
  <2>3. 0 * Load(read[k]) = 0 /\ Weighted(k) * Load(read[n]) \in Nat
    BY <1>4, <2>2
  <2> QED BY <2>1, <2>3
<1>7. ASSUME NEW n \in Mirrors, NEW k \in Mirrors, NEW l \in Mirrors,
             NoMore(n, k), NoMore(k, l)
      PROVE  NoMore(n, l)
  <2>1. /\ Weighted(n) * Load(read[k]) <= Weighted(k) * Load(read[n])
        /\ Weighted(k) * Load(read[l]) <= Weighted(l) * Load(read[k])
    BY <1>7
  <2>2. /\ Weighted(n) \in Nat /\ Weighted(k) \in Nat /\ Weighted(l) \in Nat
        /\ Load(read[n]) \in Nat \ {0} /\ Load(read[k]) \in Nat \ {0}
        /\ Load(read[l]) \in Nat \ {0}
    BY <1>4
  <2> QED BY <2>1, <2>2, Transitive
<1>8. \A n, k \in Mirrors : NoMore(n, n) /\ (~ NoMore(n, k) => NoMore(k, n))
  BY <1>5, SMTT(20)
<1> HIDE DEF NoMore, m
<1>9. CASE w = NoMirror
  <2>1. \A j \in 1..(i - 1) : effective[mirrors[j]] = 0
    BY <1>1, <1>9 DEF BestOf
  <2>2. CASE effective[m] > 0
    <3>1. \A j \in 1..i : NoMore(mirrors[j], m)
      BY <1>1, <1>2, <1>3, <1>6, <1>8, <2>1 DEF m
    <3>2. Beats(m, w, read) /\ \E j \in 1..i : m = mirrors[j]
      BY <1>9, <2>2 DEF Beats, m
    <3>3. \A j \in 1..i :
            ~ ScoresMore(mirrors[j], read[mirrors[j]], m, read[m])
      BY <1>1, <1>3, <1>5, <3>1
    <3>4. BestOf(m, i, read)
      BY <1>1, <2>2, <3>2, <3>3 DEF BestOf
    <3> QED BY <3>2, <3>4 DEF m
  <2>3. CASE effective[m] = 0
    BY <1>1, <1>2, <1>9, <2>1, <2>3 DEF BestOf, Beats, m
  <2>4. effective[m] \in Nat
    BY <1>1, <1>4
  <2> QED BY <2>2, <2>3, <2>4
<1>10. CASE w # NoMirror
  <2>1. /\ w \in Mirrors /\ effective[w] > 0
        /\ \E j \in 1..(i - 1) : w = mirrors[j]
        /\ \A j \in 1..(i - 1) : NoMore(mirrors[j], w)
    <3>1. /\ w \in Mirrors /\ effective[w] > 0
          /\ \E j \in 1..(i - 1) : w = mirrors[j]
          /\ \A j \in 1..(i - 1) :
               ~ ScoresMore(mirrors[j], read[mirrors[j]], w, read[w])
      BY <1>10 DEF BestOf
    <3>2. \A j \in 1..(i - 1) : mirrors[j] \in Mirrors
      BY <1>1
    <3> QED BY <1>5, <3>1, <3>2
  <2>2. CASE Beats(m, w, read)
    <3>1. effective[m] > 0 /\ NoMore(w, m)
      BY <1>1, <1>5, <1>8, <1>10, <2>1, <2>2 DEF Beats
    <3>2. \A j \in 1..i : NoMore(mirrors[j], m)
      BY <1>1, <1>2, <1>3, <1>7, <1>8, <2>1, <3>1 DEF m
    <3>3. \A j \in 1..i :
            ~ ScoresMore(mirrors[j], read[mirrors[j]], m, read[m])
      BY <1>1, <1>3, <1>5, <3>2
    <3>4. \E j \in 1..i : m = mirrors[j]
      BY DEF m
    <3>5. BestOf(m, i, read)
      BY <1>1, <3>1, <3>3, <3>4 DEF BestOf
    <3> QED BY <2>2, <3>5 DEF m
  <2>3. CASE ~ Beats(m, w, read)
    <3>1. NoMore(m, w)
      <4>1. CASE effective[m] = 0
        BY <1>1, <1>6, <2>1, <4>1
      <4>2. CASE effective[m] # 0
        <5>1. effective[m] > 0
          BY <1>1, <1>4, <4>2, SMTT(20)
        <5> QED BY <1>1, <1>5, <2>1, <2>3, <5>1 DEF Beats
      <4> QED BY <4>1, <4>2
    <3>2. \A j \in 1..i : NoMore(mirrors[j], w)
      BY <1>2, <2>1, <3>1 DEF m
    <3>3. \E j \in 1..i : w = mirrors[j]
      BY <2>1
    <3>4. \A j \in 1..i :
            ~ ScoresMore(mirrors[j], read[mirrors[j]], w, read[w])
      BY <1>3, <1>5, <2>1, <3>2
    <3>5. BestOf(w, i, read)
      BY <2>1, <3>3, <3>4 DEF BestOf
    <3> QED BY <2>3, <3>5 DEF m
  <2> QED BY <2>2, <2>3
<1> QED BY <1>9, <1>10

(* What the loop of Select returns.                                        *)
LEMMA BestIsBest ==
  ASSUME ScoreType, mirrors \in Seq(Mirrors), NEW read \in Counts
  PROVE  BestOf(Best(read), Len(mirrors), read)
<1> DEFINE N == Len(mirrors)
           W == Winners(read)
           P == {i \in 0..N : BestOf(W[i], i, read)}
<1>1. N \in Nat
  OBVIOUS
<1>2. /\ W[0] = NoMirror
      /\ \A i \in 1..N : W[i] = IF Beats(mirrors[i], W[i - 1], read)
                                THEN mirrors[i] ELSE W[i - 1]
  BY WinnersStep
<1> HIDE DEF W
<1>3. 0 \in P
  BY <1>1, <1>2 DEF BestOf
<1>4. ASSUME NEW i \in 1..N, i - 1 \in P
      PROVE  i \in P
  <2>1. BestOf(W[i - 1], i - 1, read)
    BY <1>4
  <2>2. BestOf(W[i], i, read)
    BY <1>2, <2>1, BestOfStep
  <2> QED BY <1>1, <2>2
<1>5. \A i \in 1..N : i - 1 \in P => i \in P
  BY <1>4
<1>6. 0..N \subseteq P
  <2> HIDE DEF P
  <2> QED BY <1>1, <1>3, <1>5, UpTo
<1>7. BestOf(W[N], N, read)
  BY <1>1, <1>6
<1> QED BY <1>7 DEF Best, W

-----------------------------------------------------------------------------
(* The rest of TypeOK.                                                     *)
UseType ==
  /\ mirrors \in Seq(Mirrors) /\ IsInjective(mirrors)
  /\ age \in [Mirrors -> Ages]
  /\ inFlight \in [Mirrors -> Nat]
  /\ fetcher \in [Fetchers -> {"idle", "chosen", "loading", "charged"}]
  /\ using \in [Fetchers -> Choices]

FlagType ==
  /\ recoveryRunning \in BOOLEAN
  /\ stopChan \in {"nil", "open", "closed"}
  /\ tick \in BOOLEAN
  /\ stops \in 0..MaxStops
  /\ panicked \in BOOLEAN

LEMMA InitUse == Init => UseType /\ FlagType
<1> SUFFICES ASSUME Init PROVE UseType /\ FlagType
  OBVIOUS
<1>1. mirrors \in Seq(Mirrors) /\ IsInjective(mirrors)
  BY DEF Init, IsInjective
<1>2. UseType
  BY <1>1 DEF Init, UseType, Ages, Choices
<1>3. FlagType
  <2>1. MaxStops \in Nat
    BY MirrorSelectorAssumption
  <2>2. stops \in 0..MaxStops
    BY <2>1 DEF Init
  <2>3. recoveryRunning = FALSE /\ tick = FALSE /\ panicked = FALSE
        /\ stopChan = "nil"
    BY DEF Init
  <2> QED BY <2>2, <2>3, Zenon DEF FlagType
<1> QED BY <1>2, <1>3

(* What Select can read is a count for each mirror.                        *)
LEMMA ReadType ==
  ASSUME NEW read \in Reads
  PROVE  read \in Counts /\ \A m \in Mirrors : read[m] <= MostRead(m)
<1>1. 0..Cardinality(Fetchers) \subseteq Nat
  OBVIOUS
<1> QED BY <1>1 DEF Reads, Counts

LEMMA MostReadType ==
  ASSUME inFlight \in [Mirrors -> Nat], NEW m \in Mirrors
  PROVE  MostRead(m) \in Nat
<1>1. Ended(m) \subseteq Fetchers
  BY DEF Ended
<1>2. Cardinality(Ended(m)) \in Nat
  BY <1>1, MirrorSelectorAssumption, FS_Subset, FS_CardinalityType
<1> QED BY <1>2 DEF MostRead

(* Every step but those of the recovery keeps these types.                 *)
LEMMA SelectType ==
  ASSUME UseType, NEW f \in Fetchers, Select(f)
  PROVE  UseType'
<1>1. PICK read \in Reads : using' = [using EXCEPT ![f] = Best(read)]
  BY DEF Select
<1>2. Best(read) \in Choices
  <2>1. Winners(read) \in [0..Len(mirrors) -> Choices]
    BY ReadType, WinnersStep DEF UseType
  <2>2. Len(mirrors) \in 0..Len(mirrors)
    BY DEF UseType
  <2> QED BY <2>1, <2>2 DEF Best
<1>3. using' \in [Fetchers -> Choices]
  BY <1>1, <1>2 DEF UseType
<1> QED BY <1>3 DEF Select, UseType, weightVars

LEMMA FetchType ==
  ASSUME UseType, NEW f \in Fetchers, Fetch(f)
  PROVE  UseType'
<1>1. CASE Select(f)
  BY <1>1, SelectType
<1>2. CASE Begin(f) \/ Finish(f)
  <2>1. inFlight' \in [Mirrors -> Nat]
    <3>1. ASSUME NEW m, NEW count \in Nat,
                 inFlight' = [inFlight EXCEPT ![m] = count]
          PROVE  inFlight' \in [Mirrors -> Nat]
      BY <3>1 DEF UseType
    <3>2. CASE using[f] \in Mirrors
      <4>1. /\ inFlight[using[f]] + 1 \in Nat
            /\ (IF inFlight[using[f]] > 0 THEN inFlight[using[f]] - 1 ELSE 0) \in Nat
        BY <3>2 DEF UseType
      <4> QED BY <1>2, <3>1, <4>1 DEF Begin, Finish
    <3>3. CASE using[f] \notin Mirrors
      <4>1. inFlight' = inFlight
        BY <1>2, <3>3 DEF Begin, Finish, UseType
      <4> QED BY <4>1 DEF UseType
    <3> QED BY <3>2, <3>3
  <2>2. fetcher' \in [Fetchers -> {"idle", "chosen", "loading", "charged"}]
    BY <1>2 DEF Begin, Finish, UseType
  <2> QED BY <1>2, <2>1, <2>2 DEF Begin, Finish, UseType, weightVars
<1>3. CASE Check(f)
  BY <1>3 DEF Check, UseType, weightVars
<1>4. CASE Penalize(f)
  <2>1. /\ age' \in [Mirrors -> Ages]
        /\ fetcher' \in [Fetchers -> {"idle", "chosen", "loading", "charged"}]
        /\ using' \in [Fetchers -> Choices]
        /\ UNCHANGED <<mirrors, inFlight>>
    <3>1. /\ age' = [age EXCEPT ![using[f]] = "now"]
          /\ \/ /\ fetcher' = [fetcher EXCEPT ![f] = "idle"]
                /\ using' = [using EXCEPT ![f] = NoMirror]
             \/ UNCHANGED <<fetcher, using>>
          /\ UNCHANGED <<mirrors, inFlight>>
      BY <1>4 DEF Penalize, Charged
    <3> QED BY <3>1 DEF UseType, Ages, Choices
  <2> QED BY <2>1 DEF UseType
<1> QED BY <1>1, <1>2, <1>3, <1>4 DEF Fetch

LEMMA AddType ==
  ASSUME UseType, NEW m \in Mirrors, Add(m) \/ Later(m)
  PROVE  UseType'
<1>1. CASE Add(m)
  <2> DEFINE N == Len(mirrors)
  <2>0. mirrors \in Seq(Mirrors)
    BY Zenon DEF UseType
  <2>1. /\ N \in Nat /\ mirrors' = Append(mirrors, m)
        /\ \A i \in 1..N : mirrors[i] # m
    <3>1. N \in Nat
      BY <2>0, LenProperties
    <3>2. mirrors' = Append(mirrors, m) /\ \A i \in 1..N : mirrors[i] # m
      BY <1>1, Zenon DEF Add, Known
    <3> QED BY <3>1, <3>2
  <2>2. /\ mirrors' \in Seq(Mirrors) /\ Len(mirrors') = N + 1
        /\ DOMAIN mirrors' = 1..(N + 1) /\ DOMAIN mirrors = 1..N
        /\ \A i \in 1..N : mirrors'[i] = mirrors[i]
        /\ mirrors'[N + 1] = m
    BY <2>0, <2>1
  <2>3. \A i \in 1..(N + 1) : i \in 1..N \/ i = N + 1
    BY <2>1
  <2> HIDE DEF N
  <2>4. IsInjective(mirrors')
    BY <2>1, <2>2, <2>3 DEF UseType, IsInjective
  <2> QED BY <1>1, <2>2, <2>4 DEF Add, UseType, weightVars, fetchVars
<1>2. CASE Later(m)
  BY <1>2 DEF Later, UseType, Ages, fetchVars
<1> QED BY <1>1, <1>2

LEMMA NextUse == UseType /\ FlagType /\ [Next]_vars => UseType' /\ FlagType'
<1> SUFFICES ASSUME UseType, FlagType, [Next]_vars PROVE UseType' /\ FlagType'
  OBVIOUS
<1>1. UseType'
  <2>1. CASE \/ Stop \/ Tick \/ UNCHANGED vars
             \/ (\E r \in Rates : StartRecovery(r))
             \/ (\E l \in Loops : RecoverWeights(l))
    <3>1. UNCHANGED <<mirrors, age, fetchVars>>
      BY <2>1 DEF Stop, Tick, StartRecovery, RecoverWeights, Wake, Recover,
                  RecoverTo, LoopStop, LoopExit, vars, weightVars
    <3> QED BY <3>1 DEF UseType, fetchVars
  <2> QED BY <2>1, FetchType, AddType DEF Next
<1>2. FlagType'
  <2>1. CASE (\E m \in Mirrors : Add(m) \/ Later(m)) \/ UNCHANGED vars
             \/ \E f \in Fetchers : Fetch(f)
    <3>1. UNCHANGED <<loopVars, stops, panicked>>
      BY <2>1 DEF Add, Later, Fetch, Select, Begin, Finish, Check, Penalize,
                  Charged, vars
    <3> QED BY <3>1 DEF FlagType, loopVars
  <2>2. CASE \E r \in Rates : StartRecovery(r)
    BY <2>2 DEF StartRecovery, FlagType
  <2>3. CASE Stop
    <3>1. panicked' \in BOOLEAN /\ stops' \in 0..MaxStops
      BY <2>3 DEF Stop, FlagType
    <3> QED BY <2>3, <3>1 DEF Stop, FlagType
  <2>4. CASE Tick
    BY <2>4 DEF Tick, FlagType
  <2>5. CASE \E l \in Loops : RecoverWeights(l)
    BY <2>5 DEF RecoverWeights, Wake, Recover, RecoverTo, LoopStop, LoopExit,
                FlagType
  <2> QED BY <2>1, <2>2, <2>3, <2>4, <2>5 DEF Next
<1> QED BY <1>1, <1>2

(* Every variable keeps its type: Select returns a mirror of the selector, *)
(* which holds each mirror once.                                           *)
THEOREM TypeCorrect == Spec => []TypeOK
<1>1. (LoopType /\ WeightsInRange /\ RateType /\ OwedType /\ UseType /\ FlagType)
        => TypeOK
  <2> SUFFICES ASSUME LoopType /\ WeightsInRange /\ RateType /\ OwedType
                      /\ UseType /\ FlagType
               PROVE  TypeOK
    OBVIOUS
  <2>1. /\ effective \in [Mirrors -> Nat]
        /\ \A m \in Mirrors : effective[m] <= BaseWeight[m]
    BY Zenon DEF WeightsInRange
  <2>2. /\ loop \in [Loops -> {"none", "select", "woken", "leaving"}]
        /\ rate \in [Loops -> 0..100]
        /\ owed \in [Fetchers -> Seq(Nat)]
    BY Zenon DEF LoopType, LoopStates, RateType, OwedType
  <2> QED BY <2>1, <2>2, Zenon DEF UseType, FlagType, Choices, TypeOK
<1> QED BY Ranges, InitUse, NextUse, <1>1, PTL DEF Spec

-----------------------------------------------------------------------------
LEMMA Grows ==
  ASSUME NEW a \in Nat, NEW x \in Nat, NEW y \in Nat, x <= y
  PROVE  a * (100 + x) <= a * (100 + y)
<1>1. PICK d \in Nat : y = x + d
  <2>1. y - x \in Nat /\ y = x + (y - x)
    OBVIOUS
  <2> QED BY <2>1
<1>2. a * (100 + (x + d)) = a * (100 + x) + a * d
  OBVIOUS
<1>3. a * d \in Nat /\ a * (100 + x) \in Nat
  OBVIOUS
<1> QED BY <1>1, <1>2, <1>3

(* What the unlocked reads cost: downloads that are counted too few on one *)
(* side and too many on the other.                                         *)
LEMMA SelectBest ==
  ASSUME TypeOK, NEW f \in Fetchers, Select(f)
  PROVE  LET m == using'[f] IN
         /\ m \in Known /\ effective[m] > 0
         /\ \A n \in Known : ~ ScoresMore(n, MostRead(n), m, 0)
<1>1. PICK read \in Reads : /\ Best(read) # NoMirror
                           /\ using' = [using EXCEPT ![f] = Best(read)]
  BY DEF Select
<1> DEFINE m == Best(read)
<1>2. read \in Counts /\ \A n \in Mirrors : read[n] <= MostRead(n)
  BY ReadType
<1>3. ScoreType /\ mirrors \in Seq(Mirrors) /\ using'[f] = m
  BY <1>1 DEF TypeOK, ScoreType
<1>4. BestOf(m, Len(mirrors), read)
  BY <1>2, <1>3, BestIsBest
<1> HIDE DEF m
<1>5. /\ m \in Mirrors /\ effective[m] > 0
      /\ \E j \in 1..Len(mirrors) : m = mirrors[j]
      /\ \A j \in 1..Len(mirrors) :
           ~ ScoresMore(mirrors[j], read[mirrors[j]], m, read[m])
  BY <1>1, <1>4 DEF BestOf, m
<1>6. ASSUME NEW n \in Known
      PROVE  ~ ScoresMore(n, MostRead(n), m, 0)
  <2>1. n \in Mirrors /\ ~ ScoresMore(n, read[n], m, read[m])
    BY <1>3, <1>5 DEF Known
  <2> DEFINE a == Weighted(n)
             b == Weighted(m)
             most == MostRead(n)
  <2>2. /\ read[n] \in Nat /\ read[m] \in Nat /\ most \in Nat
        /\ read[n] <= most
    BY <1>2, <1>5, <2>1, MostReadType DEF TypeOK, Counts
  <2>3. a \in Nat /\ b \in Nat
    BY <1>3, <1>5, <2>1, Scores
  <2> HIDE DEF a, b, most
  <2>4. a * (100 + 0) <= a * (100 + read[m])
    BY <2>2, <2>3, Grows
  <2>5. b * (100 + read[n]) <= b * (100 + most)
    BY <2>2, <2>3, Grows
  <2>6. /\ a * (100 + 0) \in Nat /\ a * (100 + read[m]) \in Nat
        /\ b * (100 + read[n]) \in Nat /\ b * (100 + most) \in Nat
    BY <2>2, <2>3, SMTT(20)
  <2>7. ~ (a * (100 + read[m]) > b * (100 + read[n]))
    BY <2>1 DEF ScoresMore, Load, a, b
  <2>8. ~ (a * (100 + 0) > b * (100 + most))
    BY <2>4, <2>5, <2>6, <2>7
  <2> QED BY <2>8 DEF ScoresMore, Load, a, b, most
<1> QED BY <1>3, <1>5, <1>6 DEF Known

(* Select returns the mirror with the highest score, up to the downloads   *)
(* of other fetchers that begin or end meanwhile, and none without weight. *)
THEOREM SelectsBestHolds == Spec => SelectsBest
<1> DEFINE Best1 ==
      \A f \in Fetchers : fetcher[f] = "idle" /\ fetcher'[f] = "chosen" =>
        LET m == using'[f] IN
        /\ m \in Known /\ effective[m] > 0
        /\ \A n \in Known : ~ ScoresMore(n, MostRead(n), m, 0)
<1>1. TypeOK /\ [Next]_vars => [Best1]_vars
  <2> SUFFICES ASSUME TypeOK, Next, NEW f \in Fetchers,
                      fetcher[f] = "idle", fetcher'[f] = "chosen"
               PROVE  Select(f)
    BY SelectBest
  <2>1. PICK g \in Fetchers : Fetch(g)
    <3>1. fetcher' # fetcher
      OBVIOUS
    <3> QED BY <3>1 DEF Next, Add, Later, StartRecovery, Stop, Tick,
               RecoverWeights, Wake, Recover, RecoverTo, LoopStop, LoopExit,
               fetchVars
  <2>2. Select(g) /\ g = f
    BY <2>1 DEF TypeOK, Fetch, Select, Begin, Finish, Check, Penalize, Charged
  <2> QED BY <2>2
<1> QED BY <1>1, TypeCorrect, PTL DEF Spec, SelectsBest

=============================================================================
