------------------------- MODULE RetentionManager_proof -------------------------
(***************************************************************************)
(* Proofs about RetentionManager, for any number of callers, loops,        *)
(* packages and versions, with and without ticks and failures.  The first  *)
(* part is about the mutex and the loop, the second about what EnforceNow  *)
(* removes, the third about what it leaves.                                *)
(***************************************************************************)
EXTENDS RetentionManager, FiniteSetTheorems, WellFoundedInduction, TLAPS

USE RetentionManagerAssumption

(* The actions of one goroutine, and the three that belong to none.        *)
Step(g) ==
  \/ Acquire(g) \/ Enforce(g)
  \/ g \in Callers /\ \/ SetRetentionCount(g)
                      \/ StartLoop(g) \/ StartIgnored(g)
                      \/ Stop(g) \/ StopIgnored(g)
  \/ g \in Loops /\ \/ LoopTick(g) \/ LoopEnforce(g)
                    \/ LoopStop(g) \/ LoopExit(g)

Other ==
  \/ \E c \in Callers, what \in Calls : Call(c, what)
  \/ Tick
  \/ \E p \in Packages, v \in Versions : Add(p, v)

(* Every step is one of these.                                             *)
LEMMA NextSplits == Next => (\E g \in Goroutines : Step(g)) \/ Other
BY DEF Next, Proceed, Step, Other

-----------------------------------------------------------------------------
(* Who is past Lock holds the mutex.                                       *)
Inside == \A g \in Goroutines : pc[g] \in {"held", "scan", "retain"} => mu = g

(* Who trims a directory has one.                                          *)
Trimming == \A g \in Goroutines : pc[g] = "retain" => current # NoPackage

(* A loop never gets past Lock inside EnforceNow: it holds the mutex.      *)
LoopsWait ==
  \A l \in Loops :
    /\ pc[l] \notin {"scan", "retain"}
    /\ pc[l] = "held" => op[l] \in {"tick", "exit"}
    /\ pc[l] = "lock" => op[l] \in {"tick", "exit", "enforce"}
    /\ At(l, "lock", "enforce") => mu = l

LockInv == TypeOK /\ Inside /\ OneLoop /\ LoopsWait /\ Trimming

(* NewRetentionManager starts no loop and holds no lock.                   *)
LEMMA InitLockInv == Init => LockInv
<1> SUFFICES ASSUME Init PROVE LockInv
  OBVIOUS
<1>1. TypeOK
  <2>1. /\ pc \in [Goroutines -> Locations]
        /\ op \in [Goroutines -> Calls \cup {"none", "tick", "exit"}]
    BY DEF Init, Locations
  <2>2. retentionCount \in Nat \ {0}
    BY DEF Init
  <2>3. adds \in 0..MaxAdds /\ stops \in 0..MaxStops
    BY DEF Init
  <2>4. /\ running \in BOOLEAN /\ ticking \in BOOLEAN /\ tick \in BOOLEAN
        /\ panicked \in BOOLEAN
    BY DEF Init
  <2> QED BY <2>1, <2>2, <2>3, <2>4 DEF Init, TypeOK
<1> QED BY <1>1 DEF Init, LockInv, Inside, OneLoop, Alive,
                    LoopsWait, Trimming, Goroutines, At

(* What EnforceNow does to the lock: it holds it until it returns.         *)
LEMMA EnforceMoves ==
  ASSUME TypeOK, NEW g \in Goroutines, Enforce(g)
  PROVE  /\ pc[g] \in {"scan", "retain"} \/ At(g, "held", "enforce")
         /\ \A h \in Goroutines \ {g} : pc'[h] = pc[h] /\ op'[h] = op[h]
         /\ \/ pc'[g] \in {"scan", "retain"} /\ mu' = mu
            \/ At(g, "idle", "none")' /\ mu' = NoOne
         /\ pc' \in [Goroutines -> Locations]
         /\ op' \in [Goroutines -> Calls \cup {"none", "tick", "exit"}]
         /\ UNCHANGED <<loopVars, adds, stops, panicked, retentionCount>>
<1> USE DEF TypeOK, Goto, Return, At, lockVars, boundVars, Locations, Calls
<1>1. CASE BeginScan(g) \/ ListFails(g)
  BY <1>1 DEF BeginScan, ListFails
<1>2. CASE \E p \in Packages :
             SkipPackage(g, p) \/ CountPackage(g, p) \/ PackageFails(g, p)
  BY <1>2 DEF SkipPackage, CountPackage, PackageFails
<1>3. CASE ListVersions(g) \/ VersionsFail(g)
  BY <1>3 DEF ListVersions, VersionsFail
<1>4. CASE \E v \in Versions : Remove(g, v) \/ RemoveFails(g, v)
  BY <1>4 DEF Remove, RemoveFails
<1>5. CASE Trimmed(g) \/ EndScan(g)
  BY <1>5 DEF Trimmed, EndScan
<1> QED BY <1>1, <1>2, <1>3, <1>4, <1>5 DEF Enforce

(* EnforceNow keeps the types.                                             *)
LEMMA EnforceType ==
  ASSUME TypeOK, Trimming, NEW g \in Goroutines, Enforce(g)
  PROVE  TypeOK'
<1>1. SUFFICES /\ stored' \in [Packages -> SUBSET Versions]
               /\ todo' \in SUBSET Packages
               /\ current' \in Packages \cup {NoPackage}
               /\ victims' \in SUBSET Versions
               /\ dirty' \in SUBSET Packages
               /\ mu' \in Goroutines \cup {NoOne}
  <2>1. retentionCount' = retentionCount /\ UNCHANGED <<adds, stops, panicked>>
        /\ UNCHANGED loopVars
    BY EnforceMoves
  <2> QED BY <2>1, EnforceMoves DEF TypeOK, loopVars
<1> USE DEF TypeOK, Goto, Return, scanVars, fileVars
<1>2. mu' \in Goroutines \cup {NoOne}
  BY EnforceMoves
<1>3. CASE BeginScan(g) \/ ListFails(g)
  BY <1>2, <1>3 DEF BeginScan, ListFails
<1>4. CASE \E p \in Packages :
             SkipPackage(g, p) \/ CountPackage(g, p) \/ PackageFails(g, p)
  BY <1>2, <1>4 DEF SkipPackage, CountPackage, PackageFails, fileVars
<1>5. CASE ListVersions(g)
  <2>1. stored[current] \in SUBSET Versions
    BY <1>5 DEF ListVersions
  <2> QED BY <1>2, <1>5, <2>1 DEF ListVersions, Surplus
<1>6. CASE VersionsFail(g)
  BY <1>2, <1>6 DEF VersionsFail
<1>7. CASE \E v \in Versions : Remove(g, v)
  <2> PICK v \in Versions : Remove(g, v)
    BY <1>7
  <2>1. stored' \in [Packages -> SUBSET Versions]
    <3>1. stored' = [stored EXCEPT ![current] = @ \ {v}]
      BY DEF Remove
    <3> QED BY <3>1
  <2> QED BY <1>2, <2>1 DEF Remove
<1>8. CASE \E v \in Versions : RemoveFails(g, v)
  <2> PICK v \in Versions : RemoveFails(g, v)
    BY <1>8
  <2>1. current \in Packages
    BY DEF RemoveFails, Trimming
  <2> QED BY <1>2, <2>1 DEF RemoveFails
<1>9. CASE Trimmed(g) \/ EndScan(g)
  BY <1>2, <1>9 DEF Trimmed, EndScan
<1> QED BY <1>3, <1>4, <1>5, <1>6, <1>7, <1>8, <1>9 DEF Enforce

(* The name StartLoop gives the new loop.                                  *)
LEMMA StartLoopName ==
  ASSUME TypeOK, NEW c \in Callers, StartLoop(c)
  PROVE  \E l \in Loops :
           /\ pc[l] = "idle" /\ l # c
           /\ pc' = [pc EXCEPT ![c] = "idle", ![l] = "select"]
<1> DEFINE l == CHOOSE l \in Free : TRUE
<1>1. l \in Free
  BY DEF StartLoop
<1>2. pc' = [pc EXCEPT ![c] = "idle", ![l] = "select"]
  BY DEF StartLoop
<1> QED BY <1>1, <1>2 DEF Free

(* A step of a goroutine keeps the invariant of the lock.                  *)
LEMMA StepLock ==
  ASSUME LockInv, NEW g \in Goroutines, Step(g)
  PROVE  LockInv'
<1> USE DEF LockInv, Goroutines
<1>1. CASE Enforce(g)
  <2>1. g \notin Loops
    BY <1>1, EnforceMoves DEF LoopsWait, At
  <2>2. \A l \in Loops : pc'[l] = pc[l] /\ op'[l] = op[l]
    BY <1>1, <2>1, EnforceMoves
  <2>3. TypeOK'
    BY <1>1, EnforceType
  <2>4. Inside'
    BY <1>1, EnforceMoves DEF Inside, At
  <2>5. OneLoop'
    <3>1. running' = running
      BY <1>1, EnforceMoves DEF loopVars
    <3> QED BY <2>2, <3>1, Zenon DEF OneLoop, Alive
  <2>6. LoopsWait'
    <3>1. mu = g
      BY <1>1, EnforceMoves DEF Inside, At
    <3> QED BY <2>1, <2>2, <3>1 DEF LoopsWait, At
  <2>7. Trimming'
    <3>1. \A h \in Goroutines \ {g} : pc[h] # "retain"
      BY <1>1, EnforceMoves DEF Inside, At
    <3>2. pc'[g] = "retain" => current' # NoPackage
      <4> USE <1>1 DEF Enforce, TypeOK, Trimming, Goto, Return, lockVars,
                       scanVars
      <4>1. CASE ListVersions(g)
        BY <4>1 DEF ListVersions
      <4>2. CASE \E v \in Versions : Remove(g, v) \/ RemoveFails(g, v)
        BY <4>2 DEF Remove, RemoveFails
      <4>3. CASE ~ListVersions(g)
                 /\ ~(\E v \in Versions : Remove(g, v) \/ RemoveFails(g, v))
        BY <4>3 DEF BeginScan, ListFails, SkipPackage, CountPackage,
                    PackageFails, VersionsFail, Trimmed, EndScan
      <4> QED BY <4>1, <4>2, <4>3
    <3>3. \A h \in Goroutines \ {g} : pc'[h] = pc[h]
      BY <1>1, EnforceMoves
    <3> QED BY <3>1, <3>2, <3>3 DEF Trimming
  <2> QED BY <2>3, <2>4, <2>5, <2>6, <2>7
<1>2. CASE ~Enforce(g)
  <2> USE DEF Goto, Return, At, lockVars, loopVars, scanVars, fileVars,
              boundVars
  <2>1. TypeOK'
    <3> USE DEF TypeOK, Locations, Calls
    <3>1. CASE Acquire(g)
      BY <3>1 DEF Acquire
    <3>2. CASE g \in Callers /\ SetRetentionCount(g)
      BY <3>2 DEF SetRetentionCount
    <3>3. CASE g \in Callers /\ StartLoop(g)
      <4>1. pc' \in [Goroutines -> Locations]
        BY <3>3, StartLoopName
      <4> QED BY <3>3, <4>1 DEF StartLoop
    <3>4. CASE g \in Callers /\ (StartIgnored(g) \/ Stop(g) \/ StopIgnored(g))
      BY <3>4 DEF StartIgnored, Stop, StopIgnored
    <3>5. CASE /\ g \in Loops
               /\ LoopTick(g) \/ LoopEnforce(g) \/ LoopStop(g) \/ LoopExit(g)
      BY <3>5 DEF LoopTick, LoopEnforce, LoopStop, LoopExit
    <3> QED BY <1>2, <3>1, <3>2, <3>3, <3>4, <3>5 DEF Step
  <2>2. Inside' /\ LoopsWait' /\ Trimming'
    <3> USE DEF Inside, LoopsWait, Trimming, TypeOK
    <3>1. CASE Acquire(g)
      BY <3>1 DEF Acquire
    <3>2. CASE g \in Callers /\ SetRetentionCount(g)
      BY <3>2 DEF SetRetentionCount
    <3>3. CASE g \in Callers /\ StartLoop(g)
      BY <3>3, StartLoopName DEF StartLoop
    <3>4. CASE g \in Callers /\ (StartIgnored(g) \/ Stop(g) \/ StopIgnored(g))
      BY <3>4 DEF StartIgnored, Stop, StopIgnored
    <3>5. CASE g \in Loops /\ (LoopTick(g) \/ LoopEnforce(g))
      BY <3>5 DEF LoopTick, LoopEnforce
    <3>6. CASE g \in Loops /\ (LoopStop(g) \/ LoopExit(g))
      BY <3>6 DEF LoopStop, LoopExit
    <3> QED BY <1>2, <3>1, <3>2, <3>3, <3>4, <3>5, <3>6 DEF Step
  <2>3. OneLoop'
    <3> USE DEF OneLoop, Alive, TypeOK
    <3>1. CASE Acquire(g)
      BY <3>1 DEF Acquire
    <3>2. CASE g \in Callers /\ SetRetentionCount(g)
      BY <3>2 DEF SetRetentionCount
    <3>3. CASE g \in Callers /\ StartLoop(g)
      <4>1. PICK l \in Loops : pc' = [pc EXCEPT ![g] = "idle", ![l] = "select"]
        BY <3>3, StartLoopName
      <4>2. \A k \in Loops : pc[k] = "idle"
        BY <3>3 DEF StartLoop
      <4>3. \A k \in Loops : pc'[k] = IF k = l THEN "select" ELSE "idle"
        BY <3>3, <4>1, <4>2
      <4>4. running' = TRUE
        BY <3>3 DEF StartLoop
      <4> QED BY <4>3, <4>4
    <3>4. CASE g \in Callers /\ (StartIgnored(g) \/ Stop(g) \/ StopIgnored(g))
      BY <3>4 DEF StartIgnored, Stop, StopIgnored
    <3>5. CASE g \in Loops /\ (LoopTick(g) \/ LoopEnforce(g) \/ LoopStop(g))
      BY <3>5 DEF LoopTick, LoopEnforce, LoopStop
    <3>6. CASE g \in Loops /\ LoopExit(g)
      BY <3>6 DEF LoopExit
    <3> QED BY <1>2, <3>1, <3>2, <3>3, <3>4, <3>5, <3>6 DEF Step
  <2> QED BY <2>1, <2>2, <2>3
<1> QED BY <1>1, <1>2

(* So do the other steps.                                                  *)
LEMMA OtherLock ==
  ASSUME LockInv, Other
  PROVE  LockInv'
<1> USE DEF LockInv, Inside, OneLoop, Alive, LoopsWait, Trimming,
            TypeOK, At, lockVars, loopVars, scanVars, Goroutines
<1>1. CASE \E c \in Callers, what \in Calls : Call(c, what)
  <2> PICK c \in Callers, what \in Calls : Call(c, what)
    BY <1>1
  <2> USE DEF Call, Goto, fileVars, Locations
  <2>1. TypeOK'
    OBVIOUS
  <2>2. \A l \in Loops : pc'[l] = pc[l] /\ op'[l] = op[l]
    OBVIOUS
  <2>3. OneLoop'
    BY <2>2
  <2>4. Inside' /\ Trimming'
    OBVIOUS
  <2>5. LoopsWait'
    BY <2>2
  <2> QED BY <2>1, <2>3, <2>4, <2>5
<1>2. CASE Tick
  BY <1>2 DEF Tick, fileVars, boundVars
<1>3. CASE \E p \in Packages, v \in Versions : Add(p, v)
  BY <1>3 DEF Add
<1> QED BY <1>1, <1>2, <1>3 DEF Other

(* The invariant of the lock is inductive.                                 *)
LEMMA NextLock == LockInv /\ [Next]_vars => LockInv'
<1> SUFFICES ASSUME LockInv, [Next]_vars PROVE LockInv'
  OBVIOUS
<1>1. CASE UNCHANGED vars
  BY <1>1 DEF LockInv, Inside, OneLoop, Alive, LoopsWait, Trimming,
              TypeOK, At, vars, lockVars, loopVars, scanVars, fileVars,
              boundVars
<1> QED BY <1>1, NextSplits, StepLock, OtherLock

(* The inductive invariant of the lock and the loop.                       *)
THEOREM LockInvariant == Spec => []LockInv
BY InitLockInv, NextLock, PTL DEF Spec

(* Every variable keeps its type.                                          *)
THEOREM TypeCorrect == Spec => []TypeOK
BY LockInvariant, PTL DEF LockInv

(* At most one enforcementLoop exists, and rm.running says whether.        *)
THEOREM OneLoopHolds == Spec => []OneLoop
BY LockInvariant, PTL DEF LockInv

-----------------------------------------------------------------------------
(* The loop calls EnforceNow with the mutex held, and waits for it.        *)
Hung(l) == At(l, "lock", "enforce") /\ mu = l

LEMMA HungStays ==
  ASSUME LockInv, [Next]_vars, NEW l \in Loops, At(l, "lock", "enforce")
  PROVE  /\ Hung(l) /\ Hung(l)'
         /\ \A g \in Goroutines : pc[g] = "lock" => pc'[g] = "lock"
<1> USE DEF LockInv, Hung, Goroutines
<1>0. Hung(l)
  BY DEF LoopsWait
<1>1. \A g \in Goroutines : pc[g] \notin {"held", "scan", "retain"}
  <2>1. pc[l] = "lock" /\ mu = l
    BY <1>0 DEF At
  <2> QED BY <2>1 DEF Inside
<1>2. CASE UNCHANGED vars
  BY <1>0, <1>2 DEF vars, lockVars, At
<1>3. ASSUME NEW g \in Goroutines, Step(g)
      PROVE  /\ Hung(l)' /\ \A h \in Goroutines : pc[h] = "lock" => pc'[h] = "lock"
  <2>1. mu # NoOne
    BY <1>0
  <2>2. ~ Acquire(g) /\ ~ Enforce(g)
    BY <1>1, <2>1, EnforceMoves DEF Acquire, At
  <2>3. /\ ~ SetRetentionCount(g) /\ ~ StartLoop(g) /\ ~ StartIgnored(g)
        /\ ~ Stop(g) /\ ~ StopIgnored(g)
        /\ ~ LoopEnforce(g) /\ ~ LoopExit(g)
    BY <1>1 DEF SetRetentionCount, StartLoop, StartIgnored, Stop, StopIgnored,
                LoopEnforce, LoopExit, At
  <2>4. LoopTick(g) \/ LoopStop(g)
    BY <1>3, <2>2, <2>3 DEF Step
  <2>5. pc[g] = "select" /\ g # l /\ mu' = mu
        /\ \A h \in Goroutines \ {g} : pc'[h] = pc[h] /\ op'[h] = op[h]
    BY <1>0, <2>4 DEF LoopTick, LoopStop, Goto, At, TypeOK
  <2> QED BY <1>0, <2>5 DEF At
<1>4. CASE Other
  <2>1. CASE Tick \/ \E p \in Packages, v \in Versions : Add(p, v)
    BY <1>0, <2>1 DEF Tick, Add, lockVars, At
  <2>2. ASSUME NEW c \in Callers, NEW what \in Calls, Call(c, what)
        PROVE  /\ Hung(l)'
               /\ \A h \in Goroutines : pc[h] = "lock" => pc'[h] = "lock"
    <3>1. pc[c] = "idle" /\ c # l /\ mu' = mu
          /\ \A h \in Goroutines \ {c} : pc'[h] = pc[h] /\ op'[h] = op[h]
      BY <2>2 DEF Call, Goto, At, TypeOK
    <3> QED BY <1>0, <3>1 DEF At
  <2> QED BY <1>0, <1>4, <2>1, <2>2 DEF Other
<1> QED BY <1>0, <1>2, <1>3, <1>4, NextSplits

(* Why a tick enforces nothing, with any callers, loops and packages: the  *)
(* loop never gets to reading the directories, and once it has called      *)
(* EnforceNow it waits for the mutex it holds, and so does from then on    *)
(* everybody who calls a method.                                           *)
THEOREM TickHangs ==
  Spec => /\ [](\A l \in Loops : pc[l] \notin {"scan", "retain"})
          /\ [][\A l \in Loops : At(l, "lock", "enforce") =>
                  /\ Hung(l)'
                  /\ \A g \in Goroutines : pc[g] = "lock" => pc'[g] = "lock"]_vars
<1>1. LockInv => \A l \in Loops : pc[l] \notin {"scan", "retain"}
  BY DEF LockInv, LoopsWait
<1>2. LockInv /\ [Next]_vars =>
        [\A l \in Loops : At(l, "lock", "enforce") =>
           /\ Hung(l)'
           /\ \A g \in Goroutines : pc[g] = "lock" => pc'[g] = "lock"]_vars
  BY HungStays
<1> QED BY <1>1, <1>2, LockInvariant, PTL DEF Spec

-----------------------------------------------------------------------------
(* What RetainMostRecent spares: of a listing S, the keep greatest.        *)
LEMMA NewerFinite ==
  ASSUME NEW S \in SUBSET Versions, NEW v \in Versions
  PROVE  /\ IsFiniteSet(S) /\ IsFiniteSet(Newer(S, v))
         /\ Cardinality(Newer(S, v)) \in Nat
BY FS_Subset, FS_CardinalityType DEF Newer

(* The older of two versions has more versions above it.                   *)
LEMMA OlderHasMore ==
  ASSUME NEW S \in SUBSET Versions, NEW v \in S, NEW w \in S, v < w
  PROVE  Cardinality(Newer(S, w)) < Cardinality(Newer(S, v))
<1>1. \A u \in S : u \in Int
  OBVIOUS
<1>2. Newer(S, w) \in SUBSET Newer(S, v)
  <2>1. \A u \in S : u > w => u > v
    BY <1>1
  <2> QED BY <2>1 DEF Newer
<1>3. w \in Newer(S, v) /\ w \notin Newer(S, w)
  <2>1. w > v /\ ~(w > w)
    BY <1>1
  <2> QED BY <2>1 DEF Newer
<1>4. /\ Cardinality(Newer(S, w)) <= Cardinality(Newer(S, v))
      /\ Cardinality(Newer(S, w)) # Cardinality(Newer(S, v))
  BY <1>2, <1>3, NewerFinite, FS_Subset
<1> QED BY <1>4, NewerFinite

(* A set of numbers has a smallest one.                                    *)
LEMMA SmallestOf ==
  ASSUME NEW T, T \subseteq Nat, T # {}
  PROVE  \E n \in T : \A m \in T : n <= m
<1>1. PICK n \in T : \A m \in T : ~ (<<m, n>> \in OpToRel(<, Nat))
  BY NatLessThanWellFounded, WFMin
<1>2. \A m \in T : ~(m < n)
  BY <1>1 DEF OpToRel
<1> QED BY <1>2

(* At least keep versions newer than each victim are spared: those newer   *)
(* than the newest victim.                                                 *)
LEMMA SparedNewer ==
  ASSUME NEW S \in SUBSET Versions, NEW keep \in Nat, NEW v \in Surplus(S, keep)
  PROVE  Cardinality(Newer(S, v) \ Surplus(S, keep)) >= keep
<1> DEFINE V == Surplus(S, keep)
           More(w) == Cardinality(Newer(S, w))
           T == {More(w) : w \in V}
<1>1. /\ V \subseteq S /\ v \in V
      /\ \A w \in V : w \in Int /\ w \in Versions /\ More(w) >= keep
  BY DEF Surplus
<1> HIDE DEF V
<1>2. \A w \in V : More(w) \in Nat /\ IsFiniteSet(Newer(S, w))
  BY <1>1, NewerFinite
<1>3. PICK m \in V : \A w \in V : More(m) <= More(w)
  <2> HIDE DEF More
  <2>1. T \subseteq Nat /\ T # {}
    BY <1>1, <1>2
  <2>2. PICK n \in T : \A k \in T : n <= k
    BY <2>1, SmallestOf
  <2> QED BY <2>2
<1>4. \A w \in V : w <= m
  <2> SUFFICES ASSUME NEW w \in V, m < w PROVE FALSE
    BY <1>1
  <2>1. More(w) < More(m)
    BY <1>1, OlderHasMore
  <2> HIDE DEF More
  <2> QED BY <1>2, <1>3, <2>1
<1>5. Newer(S, m) \in SUBSET (Newer(S, v) \ V)
  <2>1. \A w \in S : w > m => w > v /\ w \notin V
    BY <1>1, <1>4
  <2> QED BY <2>1 DEF Newer
<1>6. IsFiniteSet(Newer(S, v) \ V)
  BY <1>1, <1>2, FS_Subset
<1>7. /\ Cardinality(Newer(S, v) \ V) \in Nat
      /\ More(m) <= Cardinality(Newer(S, v) \ V)
  BY <1>5, <1>6, FS_Subset, FS_CardinalityType
<1>8. More(m) \in Nat /\ More(m) >= keep
  BY <1>1, <1>2
<1> HIDE DEF More
<1>9. Cardinality(Newer(S, v) \ V) >= keep
  BY <1>7, <1>8
<1> QED BY <1>9 DEF V

(* While versions are being removed, every one still to be removed has     *)
(* retentionCount newer ones that are not.                                 *)
Spared ==
  \A g \in Goroutines : pc[g] = "retain" =>
    \A v \in victims :
      Cardinality(Newer(stored[current], v) \ victims) >= retentionCount

(* Files that are added, and victims that are not removed, only add.       *)
LEMMA SparedGrows ==
  ASSUME NEW S \in SUBSET Versions, NEW V \in SUBSET Versions,
         NEW U \in SUBSET Versions, NEW W \in SUBSET Versions, S \ V \subseteq U \ W,
         NEW v \in Versions
  PROVE  /\ Cardinality(Newer(S, v) \ V) \in Nat
         /\ Cardinality(Newer(U, v) \ W) \in Nat
         /\ Cardinality(Newer(S, v) \ V) <= Cardinality(Newer(U, v) \ W)
<1>1. Newer(S, v) \ V \in SUBSET (Newer(U, v) \ W)
  BY DEF Newer
<1>2. IsFiniteSet(Newer(U, v) \ W)
  BY NewerFinite, FS_Subset
<1> QED BY <1>1, <1>2, FS_Subset, FS_CardinalityType

(* Steps that remove nothing but victims.                                  *)
LEMMA SparedKept ==
  ASSUME LockInv, Spared, current' = current, retentionCount' = retentionCount,
         \A h \in Goroutines : pc'[h] = "retain" => pc[h] = "retain",
         victims' \subseteq victims, stored' \in [Packages -> SUBSET Versions],
         current \in Packages =>
           stored[current] \ victims \subseteq stored'[current] \ victims'
  PROVE  Spared'
<1> SUFFICES ASSUME NEW g \in Goroutines, pc'[g] = "retain", NEW v \in victims'
             PROVE  Cardinality(Newer(stored'[current], v) \ victims') >= retentionCount
  BY DEF Spared
<1> USE DEF LockInv, TypeOK
<1>1. pc[g] = "retain" /\ v \in victims /\ current \in Packages
  BY DEF Trimming
<1>2. Cardinality(Newer(stored[current], v) \ victims) >= retentionCount
  BY <1>1 DEF Spared
<1> DEFINE S == stored[current]  U == stored'[current]
<1>3. /\ S \in SUBSET Versions /\ U \in SUBSET Versions /\ v \in Versions
      /\ S \ victims \subseteq U \ victims'
      /\ victims \in SUBSET Versions /\ victims' \in SUBSET Versions
  BY <1>1
<1> HIDE DEF S, U
<1>4. /\ Cardinality(Newer(S, v) \ victims) \in Nat
      /\ Cardinality(Newer(U, v) \ victims') \in Nat
      /\ Cardinality(Newer(S, v) \ victims) <= Cardinality(Newer(U, v) \ victims')
  BY <1>3, SparedGrows
<1> QED BY <1>2, <1>4 DEF S, U

(* What a goroutine does leaves each victim dispensable.                   *)
LEMMA StepSpared ==
  ASSUME LockInv, LockInv', Spared, NEW g \in Goroutines, Step(g)
  PROVE  Spared'
<1> USE DEF LockInv
<1>1. ASSUME pc[g] \in {"held", "scan"}, pc'[g] # "retain"
      PROVE  Spared'
  <2>1. \A h \in Goroutines : pc'[h] # "retain"
    <3>1. \A h \in Goroutines \ {g} : pc[h] # "retain"
      BY <1>1 DEF Inside
    <3>2. \A h \in Goroutines : pc'[h] = "retain" => pc[h] = "retain"
      <4> USE DEF TypeOK, Goto, Return, lockVars
      <4>1. CASE Enforce(g)
        BY <1>1, <4>1, EnforceMoves
      <4>2. CASE g \in Callers /\ StartLoop(g)
        BY <1>1, <4>2, StartLoopName DEF Goroutines
      <4> QED BY <1>1, <4>1, <4>2
              DEF Step, Acquire, SetRetentionCount, StartIgnored, Stop,
                  StopIgnored, LoopTick, LoopEnforce, LoopStop, LoopExit
    <3> QED BY <1>1, <3>1, <3>2
  <2> QED BY <2>1 DEF Spared
<1>2. CASE ListVersions(g)
  <2>1. current \in Packages /\ stored[current] \in SUBSET Versions
        /\ retentionCount \in Nat
    BY <1>2 DEF ListVersions, TypeOK
  <2>2. \A v \in Surplus(stored[current], retentionCount) :
          Cardinality(Newer(stored[current], v)
                        \ Surplus(stored[current], retentionCount)) >= retentionCount
    BY <2>1, SparedNewer
  <2>3. /\ victims' = Surplus(stored[current], retentionCount)
        /\ UNCHANGED <<stored, current, retentionCount>>
    BY <1>2 DEF ListVersions
  <2> QED BY <2>2, <2>3 DEF Spared
<1>3. CASE \E v \in Versions : Remove(g, v)
  <2> PICK v \in Versions : Remove(g, v)
    BY <1>3
  <2>1. /\ v \in victims /\ victims' = victims \ {v}
        /\ UNCHANGED <<pc, current, retentionCount>>
    BY DEF Remove, NextVictim, lockVars
  <2>2. current \in Packages => stored'[current] = stored[current] \ {v}
    BY DEF Remove, TypeOK
  <2> QED BY <2>1, <2>2, SparedKept DEF TypeOK
<1>4. CASE \E v \in Versions : RemoveFails(g, v)
  <2>1. /\ victims' \subseteq victims
        /\ UNCHANGED <<pc, current, retentionCount, stored>>
    BY <1>4 DEF RemoveFails, lockVars
  <2> QED BY <2>1, SparedKept DEF TypeOK
<1>5. CASE Trimmed(g)
  <2>1. pc[g] = "retain" /\ pc'[g] # "retain" /\ \A h \in Goroutines \ {g} : pc'[h] = pc[h]
    BY <1>5 DEF Trimmed, Goto, TypeOK
  <2>2. \A h \in Goroutines \ {g} : pc[h] # "retain"
    BY <2>1 DEF Inside
  <2> QED BY <2>1, <2>2 DEF Spared
<1>6. CASE Enforce(g)
  <2>1. ASSUME pc[g] \in {"held", "scan"} /\ pc'[g] # "retain" PROVE Spared'
    BY <1>1, <2>1
  <2>2. CASE BeginScan(g) \/ ListFails(g) \/ EndScan(g) \/ VersionsFail(g)
    BY <2>1, <2>2 DEF BeginScan, ListFails, EndScan, VersionsFail, Goto,
                      Return, At, TypeOK, lockVars
  <2>3. CASE \E p \in Packages :
               SkipPackage(g, p) \/ CountPackage(g, p) \/ PackageFails(g, p)
    BY <2>1, <2>3 DEF SkipPackage, CountPackage, PackageFails, lockVars
  <2> QED BY <1>2, <1>3, <1>4, <1>5, <1>6, <2>2, <2>3 DEF Enforce
<1>7. CASE g \in Callers /\ SetRetentionCount(g)
  BY <1>1, <1>7 DEF SetRetentionCount, Return, Goto, At, TypeOK
<1>8. CASE g \in Callers /\ StartLoop(g)
  BY <1>1, <1>8, StartLoopName DEF StartLoop, At, TypeOK, Goroutines
<1>9. CASE /\ ~Enforce(g) /\ ~(g \in Callers /\ SetRetentionCount(g))
           /\ ~(g \in Callers /\ StartLoop(g))
  <2>1. /\ \A h \in Goroutines : pc'[h] = "retain" => pc[h] = "retain"
        /\ UNCHANGED <<current, victims, stored, retentionCount>>
    BY <1>9 DEF Step, Acquire, StartIgnored, Stop, StopIgnored, LoopTick,
                LoopEnforce, LoopStop, LoopExit, Return, Goto, TypeOK,
                scanVars, fileVars
  <2> QED BY <2>1, SparedKept DEF TypeOK
<1> QED BY <1>6, <1>7, <1>8, <1>9

(* Files that are added meanwhile do not change that.                      *)
LEMMA OtherSpared ==
  ASSUME LockInv, LockInv', Spared, Other
  PROVE  Spared'
<1>1. /\ \A h \in Goroutines : pc'[h] = "retain" => pc[h] = "retain"
      /\ UNCHANGED <<current, victims, retentionCount>>
      /\ \A p \in Packages : stored[p] \subseteq stored'[p]
  BY DEF Other, Call, Tick, Add, Goto, TypeOK, LockInv, lockVars, scanVars,
         fileVars
<1> QED BY <1>1, SparedKept DEF LockInv, TypeOK

(* Spared is inductive, given the invariant of the lock.                   *)
LEMMA NextSpared == LockInv /\ LockInv' /\ Spared /\ [Next]_vars => Spared'
<1>1. UNCHANGED vars /\ Spared => Spared'
  BY DEF Spared, vars, lockVars, scanVars, fileVars
<1> QED BY <1>1, NextSplits, StepSpared, OtherSpared

(* Only Remove makes a version go, and Remove takes a victim.              *)
LEMMA NextKeeps ==
  ASSUME LockInv, Spared, [Next]_vars,
         NEW p \in Packages, NEW v \in stored[p] \ stored'[p]
  PROVE  Cardinality(Newer(stored[p], v)) >= retentionCount
<1> USE DEF LockInv, TypeOK
<1>1. PICK g \in Goroutines, w \in Versions : Remove(g, w)
  <2>1. ~Other /\ stored' # stored
    BY DEF Other, Call, Tick, Add, fileVars
  <2>2. PICK g \in Goroutines : Step(g)
    BY <2>1, NextSplits DEF vars, fileVars
  <2>3. Enforce(g)
    BY <2>1, <2>2 DEF Step, Acquire, SetRetentionCount, StartLoop,
         StartIgnored, Stop, StopIgnored, LoopTick, LoopEnforce, LoopStop,
         LoopExit, fileVars
  <2> QED BY <2>1, <2>3 DEF Enforce, BeginScan, ListFails, SkipPackage,
            CountPackage, PackageFails, ListVersions, VersionsFail,
            RemoveFails, Trimmed, EndScan, fileVars
<1>2. pc[g] = "retain" /\ w \in victims /\ current \in Packages
  BY <1>1 DEF Remove, NextVictim, Trimming
<1>3. p = current /\ v = w
  BY <1>1, <1>2 DEF Remove
<1>4. Cardinality(Newer(stored[p], v) \ victims) >= retentionCount
  BY <1>2, <1>3 DEF Spared
<1>5. stored[p] \in SUBSET Versions /\ v \in Versions
  OBVIOUS
<1>6. /\ Cardinality(Newer(stored[p], v) \ victims) \in Nat
      /\ Cardinality(Newer(stored[p], v)) \in Nat
      /\ Cardinality(Newer(stored[p], v) \ victims) <= Cardinality(Newer(stored[p], v))
  <2>1. Newer(stored[p], v) \ victims \in SUBSET Newer(stored[p], v)
    OBVIOUS
  <2> QED BY <1>5, <2>1, NewerFinite, FS_Subset, FS_CardinalityType
<1> QED BY <1>4, <1>6

(* EnforceNow only removes a version while retentionCount newer ones of    *)
(* its package are there, whatever is added and fails meanwhile.           *)
THEOREM NewestKeptHolds == Spec => NewestKept
<1>1. Init => Spared
  BY DEF Init, Spared
<1>2. LockInv /\ Spared /\ [Next]_vars =>
        [\A p \in Packages : \A v \in stored[p] \ stored'[p] :
           Cardinality(Newer(stored[p], v)) >= retentionCount]_vars
  BY NextKeeps
<1>3. LockInv /\ LockInv' /\ Spared /\ [Next]_vars => Spared'
  BY NextSpared
<1> QED BY <1>1, <1>2, <1>3, LockInvariant, PTL DEF Spec, NewestKept

-----------------------------------------------------------------------------
(* No more than keep versions are spared: all are among the oldest of them *)
(* and the versions newer than that one.                                   *)
LEMMA SparedFew ==
  ASSUME NEW S \in SUBSET Versions, NEW keep \in Nat
  PROVE  Cardinality(S \ Surplus(S, keep)) <= keep
<1> DEFINE K == S \ Surplus(S, keep)
           More(w) == Cardinality(Newer(S, w))
           T == {keep - More(w) : w \in K}
<1>1. \A w \in K : w \in S /\ w \in Int /\ More(w) \in Nat /\ More(w) < keep
  BY NewerFinite DEF Surplus
<1>2. K \subseteq S /\ IsFiniteSet(K) /\ IsFiniteSet(S)
  <2>1. K \in SUBSET S
    OBVIOUS
  <2> QED BY <2>1, FS_Subset
<1> HIDE DEF K
<1>3. CASE K = {}
  BY <1>3, FS_EmptySet DEF K
<1>4. CASE K # {}
  <2>1. PICK m \in K : \A w \in K : More(w) <= More(m)
    <3> HIDE DEF More
    <3>1. T \subseteq Nat /\ T # {}
      BY <1>1, <1>4
    <3>2. PICK n \in T : \A k \in T : n <= k
      BY <3>1, SmallestOf
    <3>3. PICK m \in K : n = keep - More(m)
      BY <3>2
    <3>4. \A w \in K : keep - More(m) <= keep - More(w)
      BY <3>2, <3>3
    <3> QED BY <1>1, <3>4
  <2>2. \A w \in K : m <= w
    <3> SUFFICES ASSUME NEW w \in K, w < m PROVE FALSE
      BY <1>1
    <3>1. More(m) < More(w)
      BY <1>1, OlderHasMore
    <3> HIDE DEF More
    <3> QED BY <1>1, <2>1, <3>1
  <2>3. K \in SUBSET (Newer(S, m) \cup {m})
    <3>1. \A w \in K : w \in S /\ (w > m \/ w = m)
      BY <1>1, <2>2
    <3> QED BY <3>1 DEF Newer
  <2>4. /\ IsFiniteSet(Newer(S, m)) /\ m \notin Newer(S, m)
        /\ m \in Versions
    BY <1>1, NewerFinite DEF Newer
  <2>5. /\ IsFiniteSet(Newer(S, m) \cup {m})
        /\ Cardinality(Newer(S, m) \cup {m}) = More(m) + 1
    BY <2>4, FS_AddElement
  <2>6. Cardinality(K) <= More(m) + 1 /\ Cardinality(K) \in Nat
    <3>1. Cardinality(K) <= Cardinality(Newer(S, m) \cup {m})
      BY <2>3, <2>5, FS_Subset
    <3>2. Cardinality(K) \in Nat
      BY <1>2, FS_CardinalityType
    <3> QED BY <2>5, <3>1, <3>2
  <2>7. More(m) + 1 <= keep /\ More(m) \in Nat
    BY <1>1
  <2> HIDE DEF More
  <2>8. Cardinality(K) <= keep
    BY <2>6, <2>7
  <2> QED BY <2>8 DEF K
<1> QED BY <1>3, <1>4

Scanning == \E g \in Goroutines : pc[g] = "scan"
Retaining == \E g \in Goroutines : pc[g] = "retain"

(* A directory is being trimmed only inside EnforceNow; until it has been  *)
(* listed it still counts as one to trim, and from then on what is left    *)
(* once the victims are gone is not too much.                              *)
Trims ==
  /\ current # NoPackage => Scanning \/ Retaining
  /\ Scanning /\ current # NoPackage => current \in dirty
  /\ Retaining /\ current \notin dirty =>
       Cardinality(stored[current] \ victims) <= retentionCount

EnforceInv == Trims /\ AtMostKept

(* Steps that leave the scan where it was.                                 *)
LEMMA ScanKept ==
  ASSUME EnforceInv, Scanning' <=> Scanning, Retaining' <=> Retaining,
         UNCHANGED <<current, victims, stored, dirty, retentionCount>>
  PROVE  EnforceInv'
BY DEF EnforceInv, Trims, AtMostKept

(* Steps after which every directory has to be trimmed again.              *)
LEMMA AllDirty ==
  ASSUME LockInv, LockInv', EnforceInv, dirty' = Packages, current' = current,
         Scanning' <=> Scanning, Retaining' <=> Retaining
  PROVE  EnforceInv'
BY DEF EnforceInv, Trims, AtMostKept, LockInv, TypeOK, Trimming, Retaining

(* Who holds the mutex is alone in the scan.                               *)
LEMMA Alone ==
  ASSUME LockInv, NEW g \in Goroutines, pc[g] \in {"held", "scan", "retain"}
  PROVE  /\ Scanning <=> pc[g] = "scan"
         /\ Retaining <=> pc[g] = "retain"
BY DEF LockInv, Inside, Scanning, Retaining

(* A step of EnforceNow is a step of the only scan.                        *)
LEMMA EnforceAlone ==
  ASSUME LockInv, NEW g \in Goroutines, Enforce(g)
  PROVE  /\ Scanning <=> pc[g] = "scan"
         /\ Retaining <=> pc[g] = "retain"
         /\ Scanning' <=> pc'[g] = "scan"
         /\ Retaining' <=> pc'[g] = "retain"
<1>1. pc[g] \in {"held", "scan", "retain"}
  BY EnforceMoves DEF LockInv, At
<1>2. \A h \in Goroutines \ {g} : pc[h] \notin {"scan", "retain"} /\ pc'[h] = pc[h]
  BY <1>1, EnforceMoves DEF LockInv, Inside
<1> QED BY <1>1, <1>2 DEF Scanning, Retaining

(* EnforceNow itself, where it counts every file.                          *)
LEMMA StepEnforce ==
  ASSUME Nested = {}, LockInv, LockInv', EnforceInv,
         NEW g \in Goroutines, Enforce(g)
  PROVE  EnforceInv'
<1> USE DEF LockInv, TypeOK
<1>1. /\ Scanning <=> pc[g] = "scan"
      /\ Retaining <=> pc[g] = "retain"
      /\ Scanning' <=> pc'[g] = "scan"
      /\ Retaining' <=> pc'[g] = "retain"
  BY EnforceAlone
<1> USE DEF EnforceInv, Trims, AtMostKept, Goto, Return, At, lockVars,
            scanVars, fileVars
<1>2. CASE BeginScan(g)
  BY <1>1, <1>2 DEF BeginScan
<1>3. CASE ListFails(g)
  BY <1>1, <1>3 DEF ListFails
<1>4. CASE \E p \in Packages : SkipPackage(g, p)
  <2> PICK p \in Packages : SkipPackage(g, p)
    BY <1>4
  <2>1. Cardinality(stored[p]) <= retentionCount
    BY DEF SkipPackage, PkgCount
  <2> QED BY <1>1, <2>1 DEF SkipPackage
<1>5. CASE \E p \in Packages : CountPackage(g, p)
  <2> PICK p \in Packages : CountPackage(g, p)
    BY <1>5
  <2>1. p \in dirty
    <3>1. Cardinality(stored[p]) > retentionCount /\ p # current
      BY DEF CountPackage, PkgCount
    <3>2. Cardinality(stored[p]) \in Nat
      BY FS_Subset, FS_CardinalityType
    <3>3. p \notin dirty => Cardinality(stored[p]) <= retentionCount
      BY <3>1
    <3> QED BY <3>1, <3>2, <3>3
  <2> QED BY <1>1, <2>1 DEF CountPackage
<1>6. CASE \E p \in Packages : PackageFails(g, p)
  BY <1>1, <1>6 DEF PackageFails
<1>7. CASE ListVersions(g)
  <2>1. /\ current \in Packages /\ stored[current] \in SUBSET Versions
        /\ retentionCount \in Nat
    BY <1>7 DEF ListVersions
  <2>2. Cardinality(stored[current] \ Surplus(stored[current], retentionCount))
          <= retentionCount
    BY <2>1, SparedFew
  <2>3. /\ pc[g] = "scan" /\ pc'[g] = "retain"
        /\ victims' = Surplus(stored[current], retentionCount)
        /\ dirty' = dirty \ {current}
        /\ UNCHANGED <<current, stored, retentionCount>>
    BY <1>7 DEF ListVersions
  <2> QED BY <1>1, <2>1, <2>2, <2>3
<1>8. CASE VersionsFail(g)
  BY <1>1, <1>8 DEF VersionsFail
<1>9. CASE \E v \in Versions : Remove(g, v)
  <2> PICK v \in Versions : Remove(g, v)
    BY <1>9
  <2>1. pc[g] = "retain" /\ v \in victims /\ current \in Packages
    BY DEF Remove, NextVictim, Trimming
  <2>2. /\ victims' = victims \ {v}
        /\ stored' = [stored EXCEPT ![current] = @ \ {v}]
        /\ UNCHANGED <<pc, current, dirty, retentionCount>>
    BY DEF Remove
  <2>3. stored'[current] \ victims' = stored[current] \ victims
    BY <2>1, <2>2
  <2>4. \A p \in Packages : p # current => stored'[p] = stored[p]
    BY <2>2
  <2>5. Trims'
    BY <1>1, <2>1, <2>2, <2>3
  <2>6. AtMostKept'
    BY <2>2, <2>4
  <2> QED BY <2>5, <2>6
<1>10. CASE \E v \in Versions : RemoveFails(g, v)
  BY <1>1, <1>10 DEF RemoveFails
<1>11. CASE Trimmed(g)
  <2>1. current \in Packages /\ victims = {} /\ pc[g] = "retain"
    BY <1>11 DEF Trimmed, Trimming
  <2>2. current \notin dirty => Cardinality(stored[current]) <= retentionCount
    <3>1. stored[current] \ victims = stored[current]
      BY <2>1
    <3> QED BY <1>1, <2>1, <3>1
  <2> QED BY <1>1, <2>1, <2>2, <1>11 DEF Trimmed
<1>12. CASE EndScan(g)
  BY <1>1, <1>12 DEF EndScan
<1> QED BY <1>2, <1>3, <1>4, <1>5, <1>6, <1>7, <1>8, <1>9, <1>10, <1>11,
           <1>12 DEF Enforce

(* EnforceInv is inductive, given the invariant of the lock.               *)
LEMMA NextEnforce ==
  Nested = {} /\ LockInv /\ LockInv' /\ EnforceInv /\ [Next]_vars => EnforceInv'
<1> SUFFICES ASSUME Nested = {}, LockInv, LockInv', EnforceInv, [Next]_vars
             PROVE  EnforceInv'
  OBVIOUS
<1>1. CASE UNCHANGED vars
  BY <1>1, ScanKept DEF Scanning, Retaining, vars, lockVars, scanVars, fileVars
<1>2. ASSUME NEW g \in Goroutines, Step(g) PROVE EnforceInv'
  <2> USE DEF LockInv, TypeOK, Goto, Return, At, lockVars, scanVars, fileVars
  <2>1. CASE Enforce(g)
    BY <2>1, StepEnforce
  <2>2. CASE ~Enforce(g)
    <3>1. pc[g] \notin {"scan", "retain"} /\ pc'[g] \notin {"scan", "retain"}
      BY <1>2, <2>2, StartLoopName
         DEF Step, Acquire, SetRetentionCount, StartLoop, StartIgnored, Stop,
             StopIgnored, LoopTick, LoopEnforce, LoopStop, LoopExit
    <3>2. \A h \in Goroutines \ {g} :
            pc[h] \in {"scan", "retain"} \/ pc'[h] \in {"scan", "retain"} =>
              pc'[h] = pc[h]
      <4>1. CASE g \in Callers /\ StartLoop(g)
        BY <4>1, StartLoopName DEF Goroutines
      <4>2. CASE ~(g \in Callers /\ StartLoop(g))
        BY <1>2, <2>2, <4>2
           DEF Step, Acquire, SetRetentionCount, StartIgnored, Stop,
               StopIgnored, LoopTick, LoopEnforce, LoopStop, LoopExit
      <4> QED BY <4>1, <4>2
    <3>3. (Scanning' <=> Scanning) /\ (Retaining' <=> Retaining)
      BY <3>1, <3>2 DEF Scanning, Retaining
    <3>4. CASE g \in Callers /\ SetRetentionCount(g)
      BY <3>3, <3>4, AllDirty DEF SetRetentionCount
    <3>5. CASE ~(g \in Callers /\ SetRetentionCount(g))
      <4>1. UNCHANGED <<current, victims, stored, dirty, retentionCount>>
        BY <1>2, <2>2, <3>5
           DEF Step, Acquire, StartLoop, StartIgnored, Stop, StopIgnored,
               LoopTick, LoopEnforce, LoopStop, LoopExit
      <4> QED BY <3>3, <4>1, ScanKept
    <3> QED BY <3>4, <3>5
  <2> QED BY <2>1, <2>2
<1>3. CASE Other
  <2> USE DEF LockInv, TypeOK, lockVars, scanVars, fileVars
  <2>1. (Scanning' <=> Scanning) /\ (Retaining' <=> Retaining)
    <3>1. \A h \in Goroutines :
            pc[h] \in {"scan", "retain"} \/ pc'[h] \in {"scan", "retain"} =>
              pc'[h] = pc[h]
      BY <1>3 DEF Other, Call, Tick, Add, Goto, At
    <3> QED BY <3>1 DEF Scanning, Retaining
  <2>2. CASE UNCHANGED <<current, victims, stored, dirty, retentionCount>>
    BY <2>1, <2>2, ScanKept
  <2>3. CASE \E p \in Packages, v \in Versions : Add(p, v)
    <3> PICK p \in Packages, v \in Versions : Add(p, v)
      BY <2>3
    <3>1. /\ dirty' = dirty \cup {p}
          /\ \A q \in Packages : q # p => stored'[q] = stored[q]
          /\ UNCHANGED <<current, victims, retentionCount>>
      BY DEF Add
    <3>2. Retaining => current \in Packages
      BY DEF Trimming, Retaining
    <3> QED BY <2>1, <3>1, <3>2 DEF EnforceInv, Trims, AtMostKept
  <2> QED BY <1>3, <2>2, <2>3 DEF Other, Call, Tick
<1> QED BY <1>1, <1>2, <1>3, NextSplits

(* Where the files lie directly in the package's directory, EnforceNow     *)
(* leaves at most retentionCount of them in each directory it has dealt    *)
(* with and that has not changed since.                                    *)
THEOREM AtMostKeptHolds == ASSUME Nested = {} PROVE Spec => []AtMostKept
<1>1. Init => EnforceInv
  BY DEF Init, EnforceInv, Trims, AtMostKept, Scanning, Retaining
<1>2. LockInv /\ LockInv' /\ EnforceInv /\ [Next]_vars => EnforceInv'
  BY NextEnforce
<1>3. EnforceInv => AtMostKept
  BY DEF EnforceInv
<1> QED BY <1>1, <1>2, <1>3, LockInvariant, PTL DEF Spec

=============================================================================
