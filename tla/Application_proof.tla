--------------------------- MODULE Application_proof ---------------------------
(***************************************************************************)
(* Proofs about Application, for any configuration files, any number of    *)
(* workers and any clients: the configuration is in range wherever it is   *)
(* used, no component panics, both exit statuses mean what they should,    *)
(* and each component takes only steps of its own module.                  *)
(*                                                                         *)
(* Each component's part of the invariant relates where the main goroutine *)
(* is to what the component has been told.  What the HTTP server promises  *)
(* to its caller comes from its own invariant, in HTTPServer_proof.        *)
(***************************************************************************)
EXTENDS Application, TLAPS

USE ApplicationAssumption

ServerProofs == INSTANCE HTTPServer_proof WITH Callers <- {Main}, MaxStarts <- 1

PoolUp == {"count", "periodic", "built", "run", "start", "wait", "stopPool"}
PoolStopped == {"drain", "stopRecovery", "stopRetention", "stopServer", "finish"}
Drained == PoolStopped \ {"drain"}
HealUp == {"downloader", "pool", "drain", "stopRecovery"} \cup PoolUp
HealStopped == {"stopRetention", "stopServer", "finish"}
KeepUp == {"built", "run", "start", "wait", "stopPool", "drain", "stopRecovery",
           "stopRetention", "stopServer"}

ConfigInv ==
  main \in {"check"} \cup Building =>
    /\ InRange(cfg) /\ cfg.number.recovery_rate \in 1..100
    /\ cfg.number.recovery_interval \in Nat \ {0}

PoolInv ==
  /\ ~poolPanicked
  /\ main \in PoolUp => poolRunning
  /\ poolClosed => main \in PoolStopped
  /\ main \in Drained => \A w \in PoolWorkers : poolPc[w] = "off"

HealInv ==
  /\ ~healPanicked
  /\ healLoop \in [{RecoveryLoop} -> {"none", "select", "woken", "leaving"}]
  /\ main \in HealUp => healRunning /\ healChan = "open"
  /\ healLoop[RecoveryLoop] = "leaving" => healChan = "closed"
  /\ main \in HealStopped <=> healChan = "closed"

KeepInv ==
  /\ ~keepPanicked
  /\ keepPc \in [{Main, RetentionLoop} ->
                   {"idle", "lock", "held", "scan", "retain", "select"}]
  /\ keepOp \in [{Main, RetentionLoop} ->
                   {"start", "stop", "enforce", "set", "none", "tick", "exit"}]
  /\ keepPc[Main] \in {"idle", "lock", "held"}
  /\ keepPc[Main] = "idle" <=> keepOp[Main] = "none"
  /\ keepOp[Main] \in
       CASE main = "periodic" -> {"none", "set"}
         [] main = "built" -> {"none", "start"}
         [] main = "stopServer" -> {"none", "stop"}
         [] OTHER -> {"none"}
  /\ keepOp[RetentionLoop] = "exit" => keepChan = "closed"
  /\ keepChan = "closed" <=>
       \/ main = "stopServer" /\ keepOp[Main] = "none"
       \/ main = "finish"
  /\ main \in KeepUp /\ keepOp[Main] # "start" =>
       keepRunning \/ keepChan = "closed"

Deciding == pc[Main] \in {"done", "stopped", "idle"}

ServerInv ==
  /\ ~panicked
  /\ main # "finish" =>
       /\ pc[Main] = "idle" /\ shutdownChan = "open" /\ ctx[Main] = "endless"
       /\ doneChan = "none"
  /\ main = "finish" =>
       /\ shutdownChan = "open" <=> pc[Main] = "closing"
       /\ ctx[Main] = deadline
       /\ doneChan = "error" => deadline = "expired"
       /\ Deciding /\ result[Main] # "nil" => deadline = "expired"
  /\ main \in PoolStopped \cup {"stopPool"} => deadline \in {"live", "expired"}

AppInv == ConfigInv /\ PoolInv /\ HealInv /\ KeepInv /\ ServerInv

-----------------------------------------------------------------------------
(* Validate lets zeros pass; without them it checks the ranges.            *)
LEMMA ValidatedInRange ==
  ASSUME NEW c, Validate(c), c.log_level # Empty,
         \A i \in DOMAIN c.mirrors : c.mirrors[i].timeout \in Int \ {0},
         \A f \in DOMAIN Standard : c.number[f] # 0
  PROVE  InRange(c)
<1>1. ASSUME NEW i \in DOMAIN c.mirrors
      PROVE  /\ c.mirrors[i].url # Empty /\ c.mirrors[i].weight > 0
             /\ c.mirrors[i].timeout >= 1
  <2>1. /\ c.mirrors[i].url # Empty /\ c.mirrors[i].weight > 0
        /\ c.mirrors[i].timeout >= 0
    BY DEF Validate
  <2>2. c.mirrors[i].timeout \in Int \ {0}
    OBVIOUS
  <2>3. \A t \in Int \ {0} : t >= 0 => t >= 1
    OBVIOUS
  <2> QED BY <2>1, <2>2, <2>3
<1>2. ASSUME NEW f \in DOMAIN Standard PROVE c.number[f] >= Least[f]
  <2>1. c.number[f] >= Least[f] \/ c.number[f] = 0
    BY DEF Validate
  <2>2. c.number[f] # 0
    OBVIOUS
  <2> QED BY <2>1, <2>2, Zenon
<1>3. c.concurrency >= 1 /\ c.concurrency <= 10000
  BY DEF Validate
<1>4. c.storage_path # Empty
  BY DEF Validate
<1>5. c.number.recovery_rate <= 100
  BY DEF Validate
<1>6. c.log_level \in {"debug", "info", "warn", "error"}
  BY DEF Validate
<1> QED BY <1>1, <1>2, <1>3, <1>4, <1>5, <1>6 DEF InRange

(* The defaults leave no zero, so what Load accepts is in the ranges of    *)
(* CONFIG.md.                                                              *)
LEMMA AcceptedInRange ==
  ASSUME NEW file \in Files, Validate(WithDefaults(file))
  PROVE  InRange(WithDefaults(file))
<1>1. WithDefaults(file).log_level # Empty
  BY Zenon DEF WithDefaults, Default, Empty
<1>2. ASSUME NEW i \in DOMAIN WithDefaults(file).mirrors
      PROVE  WithDefaults(file).mirrors[i].timeout \in Int \ {0}
  <2>1. /\ i \in DOMAIN file.mirrors
        /\ WithDefaults(file).mirrors[i] = MirrorWithDefaults(file.mirrors[i])
    BY <1>2 DEF WithDefaults
  <2>2. MirrorWithDefaults(file.mirrors[i]).timeout = Or(file.mirrors[i].timeout, 30)
    BY DEF MirrorWithDefaults
  <2> QED BY <2>1, <2>2 DEF Or
<1>3. ASSUME NEW f \in DOMAIN Standard PROVE WithDefaults(file).number[f] # 0
  <2>1. WithDefaults(file).number[f] = Or(file.number[f], Standard[f])
    BY <1>3 DEF WithDefaults, NumbersWithDefaults
  <2>2. Standard[f] # 0
    BY <1>3 DEF Standard
  <2> QED BY <2>1, <2>2 DEF Or
<1> HIDE DEF WithDefaults
<1> QED BY <1>1, <1>2, <1>3, ValidatedInRange

(* Load accepts a file exactly if, with the defaults for what it leaves    *)
(* out, it lists a mirror and is in the ranges of CONFIG.md: the zeros     *)
(* that Validate lets pass make no difference.                             *)
THEOREM AcceptedExactly ==
  \A file \in Files :
    Validate(WithDefaults(file)) <=> /\ InRange(WithDefaults(file))
                                     /\ WithDefaults(file).mirrors # <<>>
<1> TAKE file \in Files
<1> DEFINE c == WithDefaults(file)
<1>1. Validate(c) => InRange(c) /\ c.mirrors # <<>>
  BY AcceptedInRange DEF Validate
<1>2. ASSUME InRange(c), c.mirrors # <<>> PROVE Validate(c)
  <2>1. ASSUME NEW i \in DOMAIN c.mirrors PROVE c.mirrors[i].timeout \in Int
    <3>1. /\ i \in DOMAIN file.mirrors
          /\ c.mirrors[i].timeout = Or(file.mirrors[i].timeout, 30)
      BY <2>1 DEF WithDefaults, MirrorWithDefaults
    <3> QED BY <3>1 DEF Or
  <2> HIDE DEF c
  <2>2. ASSUME NEW i \in DOMAIN c.mirrors
        PROVE  /\ c.mirrors[i].url # Empty /\ c.mirrors[i].weight > 0
               /\ c.mirrors[i].timeout >= 0
    <3>1. /\ c.mirrors[i].url # Empty /\ c.mirrors[i].weight > 0
          /\ c.mirrors[i].timeout >= 1
      BY <1>2, <2>2 DEF InRange
    <3>2. \A t \in Int : t >= 1 => t >= 0
      OBVIOUS
    <3> QED BY <2>1, <2>2, <3>1, <3>2
  <2>3. c.log_level \in {Empty, "debug", "info", "warn", "error"}
    BY <1>2 DEF InRange
  <2>4. ASSUME NEW f \in DOMAIN Standard PROVE c.number[f] >= Least[f]
    BY <1>2, <2>4 DEF InRange
  <2>5. /\ c.concurrency >= 1 /\ c.concurrency <= 10000
        /\ c.storage_path # Empty /\ c.number.recovery_rate <= 100
    BY <1>2 DEF InRange
  <2> QED BY <1>2, <2>2, <2>3, <2>4, <2>5 DEF Validate
<1> QED BY <1>1, <1>2

(* The rate weights recover at is a number of percent.                     *)
LEMMA RateInRange ==
  ASSUME NEW c, InRange(c), c.number.recovery_rate \in Int
  PROVE  c.number.recovery_rate \in 1..100
<1>1. "recovery_rate" \in DOMAIN Standard /\ Least["recovery_rate"] = 1
  BY DEF Standard, Least
<1>2. c.number["recovery_rate"] >= Least["recovery_rate"]
  BY <1>1 DEF InRange
<1>3. c.number.recovery_rate >= 1
  BY <1>1, <1>2
<1>4. c.number.recovery_rate <= 100
  BY DEF InRange
<1>5. \A r \in Int : r >= 1 /\ r <= 100 => r \in 1..100
  OBVIOUS
<1> QED BY <1>3, <1>4, <1>5

LEMMA AcceptedNumbers ==
  ASSUME NEW file \in Files
  PROVE  /\ WithDefaults(file).number.recovery_rate \in Int
         /\ WithDefaults(file).number.recovery_interval \in Int
<1>1. ASSUME NEW f \in {"recovery_rate", "recovery_interval"}
      PROVE  WithDefaults(file).number[f] \in Int
  <2>1. f \in DOMAIN Standard /\ Standard[f] = 5
    BY DEF Standard
  <2>2. WithDefaults(file).number[f] = Or(file.number[f], 5)
    BY <2>1 DEF WithDefaults, NumbersWithDefaults
  <2>3. file.number[f] \in Int
    BY <2>1
  <2> QED BY <2>2, <2>3 DEF Or
<1> QED BY <1>1

(* Between its ticks it waits a positive number of minutes.                *)
LEMMA IntervalInRange ==
  ASSUME NEW c, InRange(c), c.number.recovery_interval \in Int
  PROVE  c.number.recovery_interval \in Nat \ {0}
<1>1. "recovery_interval" \in DOMAIN Standard /\ Least["recovery_interval"] = 1
  BY DEF Standard, Least
<1>2. c.number["recovery_interval"] >= Least["recovery_interval"]
  BY <1>1 DEF InRange
<1>3. \A n \in Int : n >= 1 => n \in Nat \ {0}
  OBVIOUS
<1> QED BY <1>1, <1>2, <1>3

(* So is the configuration of a daemon without a file.                     *)
LEMMA DefaultInRange == InRange(Default)
<1>1. Default.storage_path # Empty
  BY Zenon DEF Default, Empty
<1>2. \A i \in DOMAIN Default.mirrors :
        /\ Default.mirrors[i].url # Empty /\ Default.mirrors[i].weight > 0
        /\ Default.mirrors[i].timeout >= 1
  BY DEF Default
<1>3. \A f \in DOMAIN Standard : Default.number[f] >= Least[f]
  BY DEF Default, Standard, Least
<1>4. /\ Default.log_level \in {"debug", "info", "warn", "error"}
      /\ Default.concurrency >= 1 /\ Default.concurrency <= 10000
      /\ Default.number.recovery_rate <= 100
  BY DEF Default, Standard
<1> QED BY <1>1, <1>2, <1>3, <1>4 DEF InRange

LEMMA ConfigStep == ASSUME ConfigInv, [Next]_vars PROVE ConfigInv'
<1> USE DEF ConfigInv, Building, Goto, Exit
<1>1. CASE UNCHANGED <<main, cfg>>
  BY <1>1
<1>2. ASSUME NEW file \in Files, LoadFile(file) PROVE ConfigInv'
  BY <1>2, AcceptedInRange, AcceptedNumbers, RateInRange, IntervalInRange
     DEF LoadFile
<1>3. CASE NoFile
  <2>1. /\ Default.number.recovery_rate \in 1..100
        /\ Default.number.recovery_interval \in Nat \ {0}
    BY DEF Default, Standard
  <2> QED BY <1>3, <2>1, DefaultInRange DEF NoFile
<1>4. CASE CheckMirrors \/ MakeDirectory
  BY <1>4 DEF CheckMirrors, MakeDirectory
<1>5. CASE StartRecovery \/ StartPool \/ SetRetentionCount \/ StartRetention \/ Built
  BY <1>5 DEF StartRecovery, StartPool, SetRetentionCount, StartRetention, Built
<1>6. CASE Notify \/ StartServer \/ Receive
  BY <1>6 DEF Notify, StartServer, Receive
<1>7. CASE StopPool \/ WaitForCompletion \/ StopRecovery \/ StopRetention
           \/ ShutdownServer
  BY <1>7 DEF StopPool, WaitForCompletion, StopRecovery, StopRetention,
              ShutdownServer
<1>8. CASE LoadFails \/ StorageFails \/ RecoveryPanics \/ Finish \/ Signal \/ Expire
  BY <1>1, <1>8 DEF LoadFails, StorageFails, RecoveryPanics, Finish, Signal, Expire
<1>9. CASE \/ \E w \in PoolWorkers : PoolStep(w)
           \/ \E g \in {Main, RetentionLoop} : RetentionStep(g)
           \/ RetentionTick \/ SelectorStep \/ ServerStep \/ ClientStep
  BY <1>1, <1>9 DEF PoolStep, RetentionStep, RetentionTick, SelectorStep,
                    ServerStep, ClientStep, mainVars
<1>10. CASE UNCHANGED vars
  BY <1>1, <1>10 DEF vars, mainVars
<1> QED BY <1>2, <1>3, <1>4, <1>5, <1>6, <1>7, <1>8, <1>9, <1>10 DEF Next, MainStep

-----------------------------------------------------------------------------
(* The pool is started once, and stopped once.                             *)
LEMMA PoolInvStep == ASSUME PoolInv, [Next]_vars PROVE PoolInv'
<1> USE DEF PoolInv, PoolUp, PoolStopped, Drained, poolVars
<1>1. CASE UNCHANGED <<main, poolVars>>
  BY <1>1
<1>2. CASE StartPool
  BY <1>2 DEF StartPool, Goto, Pool!Start, Pool!Launch
<1>3. CASE StopPool
  BY <1>3 DEF StopPool, Goto, Exit, Pool!Stop
<1>4. CASE WaitForCompletion
  BY <1>4 DEF WaitForCompletion, Goto, OnlyMain
<1>5. ASSUME NEW w \in PoolWorkers, PoolStep(w) PROVE PoolInv'
  <2>1. /\ poolPc[w] # "off" /\ main' = main
        /\ poolRunning' = poolRunning /\ poolClosed' = poolClosed
        /\ poolPanicked' = poolPanicked
    <3>1. Pool!Work(w) /\ main' = main
      BY <1>5 DEF PoolStep, mainVars
    <3>2. CASE Pool!Take(w) \/ Pool!Drained(w) \/ Pool!StopSeen(w)
      BY <3>1, <3>2 DEF Pool!Take, Pool!Drained, Pool!StopSeen
    <3>3. CASE Pool!SelectMirror(w) \/ Pool!Fails(w) \/ Pool!Succeeds(w)
      BY <3>1, <3>3 DEF Pool!SelectMirror, Pool!Fails, Pool!Succeeds
    <3>4. CASE Pool!Report(w)
      BY <3>1, <3>4 DEF Pool!Report, Pool!Outcomes
    <3> QED BY <3>1, <3>2, <3>3, <3>4 DEF Pool!Work
  <2> QED BY <2>1
<1>6. CASE \/ LoadFails \/ NoFile \/ \E file \in Files : LoadFile(file)
           \/ CheckMirrors \/ MakeDirectory \/ StorageFails \/ RecoveryPanics
  BY <1>6 DEF LoadFails, NoFile, LoadFile, CheckMirrors, MakeDirectory,
              StorageFails, RecoveryPanics, Goto, Exit, OnlyMain
<1>7. CASE StartRecovery \/ SetRetentionCount \/ StartRetention \/ Built
  BY <1>7 DEF StartRecovery, SetRetentionCount, StartRetention, Built, Goto,
              Exit, OnlyMain
<1>8. CASE Notify \/ StartServer \/ Receive
  BY <1>8 DEF Notify, StartServer, Receive, Goto, OnlyMain
<1>9. CASE StopRecovery \/ StopRetention \/ ShutdownServer \/ Finish
  BY <1>9 DEF StopRecovery, StopRetention, ShutdownServer, Finish, Goto, Exit,
              OnlyMain
<1>10. CASE Signal \/ Expire
  BY <1>1, <1>10 DEF Signal, Expire, Exit, OnlyMain
<1>11. CASE \/ \E g \in {Main, RetentionLoop} : RetentionStep(g)
            \/ RetentionTick \/ SelectorStep \/ ServerStep \/ ClientStep
  BY <1>1, <1>11 DEF RetentionStep, RetentionTick, SelectorStep, ServerStep,
                     ClientStep, mainVars
<1>12. CASE UNCHANGED vars
  BY <1>1, <1>12 DEF vars, mainVars
<1> QED BY <1>2, <1>3, <1>4, <1>5, <1>6, <1>7, <1>8, <1>9, <1>10, <1>11, <1>12
        DEF Next, MainStep

-----------------------------------------------------------------------------
(* Weight recovery is started once, and stopped once.                      *)
LEMMA HealInvStep == ASSUME HealInv, [Next]_vars PROVE HealInv'
<1> USE DEF HealInv, HealUp, HealStopped, PoolUp, healVars
<1>1. CASE UNCHANGED <<main, healVars>>
  BY <1>1
<1>2. CASE StartRecovery
  <2>1. /\ main = "recovery" /\ main' = "downloader"
        /\ healRunning' = TRUE /\ healChan' = "open"
        /\ healPanicked' = healPanicked
    BY <1>2 DEF StartRecovery, Goto, Selector!StartRecovery
  <2>2. healLoop' \in [{RecoveryLoop} -> {"none", "select", "woken", "leaving"}]
        /\ healLoop'[RecoveryLoop] = "select"
    <3> DEFINE l == CHOOSE k \in Selector!Free : TRUE
    <3>1. l \in Selector!Free /\ healLoop' = [healLoop EXCEPT ![l] = "select"]
      BY <1>2 DEF StartRecovery, Selector!StartRecovery
    <3> HIDE DEF l
    <3>2. l = RecoveryLoop
      BY <3>1 DEF Selector!Free
    <3> QED BY <3>1, <3>2
  <2> QED BY <2>1, <2>2
<1>3. CASE StopRecovery
  BY <1>3 DEF StopRecovery, Goto, Selector!Stop
<1>4. CASE SelectorStep
  <2>1. /\ main' = main /\ healPanicked' = healPanicked /\ healChan' = healChan
        /\ healRunning' = healRunning \/ healLoop[RecoveryLoop] = "leaving"
        /\ healLoop' \in [{RecoveryLoop} -> {"none", "select", "woken", "leaving"}]
        /\ healLoop'[RecoveryLoop] = "leaving" =>
             healLoop[RecoveryLoop] = "leaving" \/ healChan = "closed"
    <3>1. CASE Selector!Tick
      BY <1>4, <3>1 DEF SelectorStep, mainVars, Selector!Tick
    <3>2. CASE Selector!Wake(RecoveryLoop)
      BY <1>4, <3>2 DEF SelectorStep, mainVars, Selector!Wake
    <3>3. CASE Selector!Recover(RecoveryLoop)
      BY <1>4, <3>3 DEF SelectorStep, mainVars, Selector!Recover, Selector!RecoverTo
    <3>4. CASE Selector!LoopStop(RecoveryLoop)
      BY <1>4, <3>4 DEF SelectorStep, mainVars, Selector!LoopStop
    <3>5. CASE Selector!LoopExit(RecoveryLoop)
      BY <1>4, <3>5 DEF SelectorStep, mainVars, Selector!LoopExit
    <3> QED BY <1>4, <3>1, <3>2, <3>3, <3>4, <3>5
            DEF SelectorStep, Selector!RecoverWeights
  <2> QED BY <2>1
<1>5. CASE \/ LoadFails \/ NoFile \/ \E file \in Files : LoadFile(file)
           \/ CheckMirrors \/ MakeDirectory \/ StorageFails \/ RecoveryPanics
  BY <1>5 DEF LoadFails, NoFile, LoadFile, CheckMirrors, MakeDirectory,
              StorageFails, RecoveryPanics, Goto, Exit, OnlyMain
<1>6. CASE StartPool \/ SetRetentionCount \/ StartRetention \/ Built
  BY <1>6 DEF StartPool, SetRetentionCount, StartRetention, Built, Goto, Exit,
              OnlyMain
<1>7. CASE Notify \/ StartServer \/ Receive
  BY <1>7 DEF Notify, StartServer, Receive, Goto, OnlyMain
<1>8. CASE StopPool \/ WaitForCompletion \/ StopRetention \/ ShutdownServer \/ Finish
  BY <1>8 DEF StopPool, WaitForCompletion, StopRetention, ShutdownServer,
              Finish, Goto, Exit, OnlyMain
<1>9. CASE Signal \/ Expire
  BY <1>1, <1>9 DEF Signal, Expire, Exit, OnlyMain
<1>10. CASE \/ \E w \in PoolWorkers : PoolStep(w)
            \/ \E g \in {Main, RetentionLoop} : RetentionStep(g)
            \/ RetentionTick \/ ServerStep \/ ClientStep
  BY <1>1, <1>10 DEF PoolStep, RetentionStep, RetentionTick, ServerStep,
                     ClientStep, mainVars
<1>11. CASE UNCHANGED vars
  BY <1>1, <1>11 DEF vars, mainVars
<1> QED BY <1>2, <1>3, <1>4, <1>5, <1>6, <1>7, <1>8, <1>9, <1>10, <1>11
        DEF Next, MainStep

-----------------------------------------------------------------------------
(* A call of the retention manager: only the goroutine that makes it moves.*)
LEMMA KeepCall ==
  ASSUME KeepInv, NEW what \in {"set", "start", "stop"},
         Retention!Call(Main, what)
  PROVE  /\ keepOp[Main] = "none"
         /\ keepPc' = [keepPc EXCEPT ![Main] = "lock"]
         /\ keepOp' = [keepOp EXCEPT ![Main] = what]
         /\ UNCHANGED <<keepRunning, keepChan, keepPanicked>>
BY DEF Retention!Call, Retention!At, Retention!Goto, Retention!loopVars

(* A step of the loop leaves the calls of the main goroutine alone.        *)
LEMMA KeepLoopStep ==
  ASSUME KeepInv, Retention!Proceed(RetentionLoop)
  PROVE  /\ keepPanicked' = keepPanicked /\ keepChan' = keepChan
         /\ keepPc' \in [{Main, RetentionLoop} ->
                {"idle", "lock", "held", "scan", "retain", "select"}]
         /\ keepOp' \in [{Main, RetentionLoop} ->
                {"start", "stop", "enforce", "set", "none", "tick", "exit"}]
         /\ keepPc'[Main] = keepPc[Main] /\ keepOp'[Main] = keepOp[Main]
         /\ keepOp'[RetentionLoop] = "exit" => keepChan = "closed"
         /\ keepRunning' = keepRunning \/ keepChan = "closed"
<1> USE DEF KeepInv, Retention!At, Retention!Goto, Retention!Return,
            Retention!loopVars, Retention!lockVars, Retention!boundVars
<1>1. CASE Retention!Acquire(RetentionLoop)
  BY <1>1 DEF Retention!Acquire
<1>2. CASE Retention!Enforce(RetentionLoop)
  <2>1. CASE Retention!BeginScan(RetentionLoop) \/ Retention!ListFails(RetentionLoop)
    BY <2>1 DEF Retention!BeginScan, Retention!ListFails
  <2>2. CASE \/ Retention!ListVersions(RetentionLoop)
             \/ Retention!VersionsFail(RetentionLoop)
    BY <2>2 DEF Retention!ListVersions, Retention!VersionsFail
  <2>3. CASE Retention!Trimmed(RetentionLoop) \/ Retention!EndScan(RetentionLoop)
    BY <2>3 DEF Retention!Trimmed, Retention!EndScan
  <2> QED BY <1>2, <2>1, <2>2, <2>3 DEF Retention!Enforce
<1>3. CASE Retention!LoopTick(RetentionLoop) \/ Retention!LoopEnforce(RetentionLoop)
  BY <1>3 DEF Retention!LoopTick, Retention!LoopEnforce
<1>4. CASE Retention!LoopStop(RetentionLoop) \/ Retention!LoopExit(RetentionLoop)
  BY <1>4 DEF Retention!LoopStop, Retention!LoopExit
<1> QED BY <1>1, <1>2, <1>3, <1>4 DEF Retention!Proceed

(* The main goroutine waits for the mutex, and its call returns.           *)
LEMMA KeepMainStep ==
  ASSUME KeepInv, Retention!Proceed(Main), main' = main
  PROVE  KeepInv'
<1> USE DEF KeepInv, KeepUp, Retention!At, Retention!Goto, Retention!Return,
            Retention!loopVars, Retention!lockVars, Retention!boundVars
<1>1. CASE Retention!Acquire(Main)
  BY <1>1 DEF Retention!Acquire
<1>2. CASE Retention!Enforce(Main)
  BY <1>2 DEF Retention!Enforce, Retention!BeginScan, Retention!ListFails,
              Retention!ListVersions, Retention!VersionsFail,
              Retention!Trimmed, Retention!EndScan
<1>3. CASE Retention!SetRetentionCount(Main)
  BY <1>3 DEF Retention!SetRetentionCount
<1>4. CASE Retention!StartLoop(Main)
  <2> DEFINE l == CHOOSE k \in Retention!Free : TRUE
  <2>1. l \in Retention!Free
        /\ keepPc' = [keepPc EXCEPT ![Main] = "idle", ![l] = "select"]
    BY <1>4 DEF Retention!StartLoop
  <2> HIDE DEF l
  <2>2. l = RetentionLoop
    BY <2>1 DEF Retention!Free
  <2>3. /\ keepOp[Main] = "start" /\ keepRunning' = TRUE /\ keepChan' = "open"
        /\ keepOp' = [keepOp EXCEPT ![Main] = "none"]
        /\ keepPanicked' = keepPanicked
    BY <1>4 DEF Retention!StartLoop
  <2>4. main = "built"
    BY <2>3
  <2> QED BY <2>1, <2>2, <2>3, <2>4
<1>5. CASE Retention!StartIgnored(Main)
  BY <1>5 DEF Retention!StartIgnored
<1>6. CASE Retention!Stop(Main)
  BY <1>6 DEF Retention!Stop
<1>7. CASE Retention!StopIgnored(Main)
  BY <1>7 DEF Retention!StopIgnored
<1> QED BY <1>1, <1>2, <1>3, <1>4, <1>5, <1>6, <1>7 DEF Retention!Proceed

(* Retention is started once, and stopped once.                            *)
LEMMA KeepInvStep == ASSUME KeepInv, [Next]_vars PROVE KeepInv'
<1> USE DEF KeepInv, KeepUp, keepVars
<1>1. CASE UNCHANGED <<main, keepVars>>
  BY <1>1
<1>2. CASE SetRetentionCount
  <2>1. CASE Retention!Call(Main, "set")
    BY <1>2, <2>1, KeepCall DEF SetRetentionCount, Goto
  <2> QED BY <1>2, <2>1 DEF SetRetentionCount, Exit
<1>3. CASE StartRetention
  BY <1>3, KeepCall DEF StartRetention, Goto
<1>4. CASE StopRetention
  BY <1>4, KeepCall DEF StopRetention, Goto
<1>5. CASE ShutdownServer
  BY <1>5 DEF ShutdownServer, Returned, Goto
<1>6. CASE Built
  BY <1>6 DEF Built, Returned, Goto, OnlyMain
<1>7. CASE RetentionStep(Main)
  BY <1>7, KeepMainStep DEF RetentionStep, mainVars
<1>8. CASE RetentionStep(RetentionLoop)
  BY <1>8, KeepLoopStep DEF RetentionStep, mainVars
<1>9. CASE RetentionTick
  BY <1>9 DEF RetentionTick, mainVars, Retention!Tick, Retention!lockVars,
              Retention!boundVars
<1>10. CASE \/ LoadFails \/ NoFile \/ \E file \in Files : LoadFile(file)
            \/ CheckMirrors \/ MakeDirectory \/ StorageFails \/ RecoveryPanics
  BY <1>10 DEF LoadFails, NoFile, LoadFile, CheckMirrors, MakeDirectory,
               StorageFails, RecoveryPanics, Goto, Exit, OnlyMain
<1>11. CASE StartRecovery \/ StartPool \/ Notify \/ StartServer \/ Receive
  BY <1>11 DEF StartRecovery, StartPool, Notify, StartServer, Receive, Goto,
               OnlyMain
<1>12. CASE StopPool \/ WaitForCompletion \/ StopRecovery \/ Finish
  BY <1>12 DEF StopPool, WaitForCompletion, StopRecovery, Finish, Goto, Exit,
               OnlyMain
<1>13. CASE Signal \/ Expire
  BY <1>1, <1>13 DEF Signal, Expire, Exit, OnlyMain
<1>14. CASE \/ \E w \in PoolWorkers : PoolStep(w)
            \/ SelectorStep \/ ServerStep \/ ClientStep
  BY <1>1, <1>14 DEF PoolStep, SelectorStep, ServerStep, ClientStep, mainVars
<1>15. CASE UNCHANGED vars
  BY <1>1, <1>15 DEF vars, mainVars
<1> QED BY <1>2, <1>3, <1>4, <1>5, <1>6, <1>7, <1>8, <1>9, <1>10, <1>11, <1>12,
           <1>13, <1>14, <1>15 DEF Next, MainStep

-----------------------------------------------------------------------------
CallTypes ==
  /\ pc \in [{Main} -> {"idle", "await", "closing", "select", "done", "stopped"}]
  /\ ctx \in [{Main} -> {"live", "expired", "endless"}]
  /\ result \in [{Main} -> {"none", "nil", "error"}]

(* Shutdown of the server, called once and with the deadline.              *)
LEMMA ServerMoves ==
  ASSUME ServerInv, CallTypes,
         Server!Shutdown(Main) \/ Server!Net, UNCHANGED mainVars
  PROVE  ServerInv'
<1> USE DEF ServerInv, CallTypes, Deciding, PoolStopped, mainVars, Server!serverVars,
            Server!callVars, Server!netVars, Server!requestVars,
            Server!ghostVars
<1>1. CASE Server!CloseShutdownChan(Main)
  BY <1>1 DEF Server!CloseShutdownChan
<1>2. CASE Server!SelectDone(Main)
  BY <1>2 DEF Server!SelectDone
<1>3. CASE Server!SelectTimeout(Main)
  BY <1>3 DEF Server!SelectTimeout
<1>4. CASE Server!StopRunning(Main) \/ Server!EndShutdown(Main)
  BY <1>4 DEF Server!StopRunning, Server!EndShutdown
<1>5. CASE Server!ListenAndServe \/ Server!NetShutdown
  BY <1>5 DEF Server!ListenAndServe, Server!NetShutdown
<1>6. CASE Server!NetDone
  BY <1>6 DEF Server!NetDone
<1> QED BY <1>1, <1>2, <1>3, <1>4, <1>5, <1>6 DEF Server!Shutdown, Server!Net

(* A client moves nothing that Start and Shutdown look at.                 *)
LEMMA ClientMoves ==
  ASSUME NEW r \in Requests,
         Server!Accept(r) \/ Server!Disconnect(r) \/ Server!Handle(r)
  PROVE  UNCHANGED <<shutdownChan, pc, ctx, doneChan, result, panicked>>
<1> USE DEF Server!serverVars, Server!callVars, Server!ghostVars
<1>1. CASE Server!Accept(r) \/ Server!Disconnect(r)
  BY <1>1 DEF Server!Accept, Server!Disconnect
<1>2. CASE \E p \in Paths : Server!Enter(r, p)
  BY <1>2 DEF Server!Enter
<1>3. CASE Server!Lookup(r) \/ Server!Fetched(r) \/ Server!Aside(r)
  BY <1>3 DEF Server!Lookup, Server!Fetched, Server!Aside
<1>4. CASE Server!Refuse(r) \/ Server!FetchFails(r) \/ Server!Serve(r)
  BY <1>4 DEF Server!Refuse, Server!FetchFails, Server!Serve, Server!Leave
<1> QED BY <1>1, <1>2, <1>3, <1>4 DEF Server!Handle

LEMMA ServerInvStep ==
  ASSUME ServerInv, CallTypes, [Next]_vars PROVE ServerInv'
<1> USE DEF ServerInv, CallTypes, Deciding, PoolStopped, serverVars, mainVars
<1>1. CASE UNCHANGED <<main, deadline, serverVars>>
  BY <1>1
<1>2. CASE StartServer
  BY <1>2 DEF StartServer, Goto, Server!Start, Server!callVars
<1>3. CASE ShutdownServer
  BY <1>3 DEF ShutdownServer, Goto, Server!BeginShutdown, Server!serverVars
<1>4. CASE Receive
  BY <1>4 DEF Receive, OnlyMain
<1>5. CASE Expire
  BY <1>5 DEF Expire, Server!Expire, Server!serverVars, Server!ghostVars
<1>6. CASE ServerStep
  BY <1>6, ServerMoves DEF ServerStep
<1>7. CASE ClientStep
  BY <1>7, ClientMoves DEF ClientStep
<1>8. CASE \/ LoadFails \/ NoFile \/ \E file \in Files : LoadFile(file)
           \/ CheckMirrors \/ MakeDirectory \/ StorageFails \/ RecoveryPanics
  BY <1>8 DEF LoadFails, NoFile, LoadFile, CheckMirrors, MakeDirectory,
              StorageFails, RecoveryPanics, Goto, Exit, OnlyMain
<1>9. CASE StartRecovery \/ StartPool \/ SetRetentionCount \/ StartRetention
           \/ Built \/ Notify
  BY <1>9 DEF StartRecovery, StartPool, SetRetentionCount, StartRetention,
              Built, Notify, Goto, Exit, OnlyMain
<1>10. CASE StopPool \/ WaitForCompletion \/ StopRecovery \/ StopRetention \/ Finish
  BY <1>10 DEF StopPool, WaitForCompletion, StopRecovery, StopRetention,
               Finish, Goto, Exit, OnlyMain
<1>11. CASE Signal
  BY <1>1, <1>11 DEF Signal, Exit, OnlyMain
<1>12. CASE \/ \E w \in PoolWorkers : PoolStep(w)
            \/ \E g \in {Main, RetentionLoop} : RetentionStep(g)
            \/ RetentionTick \/ SelectorStep
  BY <1>1, <1>12 DEF PoolStep, RetentionStep, RetentionTick, SelectorStep
<1>13. CASE UNCHANGED vars
  BY <1>1, <1>13 DEF vars
<1> QED BY <1>2, <1>3, <1>4, <1>5, <1>6, <1>7, <1>8, <1>9, <1>10, <1>11, <1>12,
           <1>13 DEF Next, MainStep

-----------------------------------------------------------------------------
(* What the daemon does to its server is what HTTPServer says its callers  *)
(* and clients may do, so the invariant of HTTPServer_proof holds of it.   *)
LEMMA ServerNext ==
  ASSUME ServerInv, [Next]_vars
  PROVE  ServerProofs!Next \/ UNCHANGED serverVars
<1>1. CASE StartServer
  <2>1. ServerProofs!Start(Main)
    BY <1>1 DEF StartServer, Server!Start, ServerProofs!Start,
                Server!callVars, ServerProofs!callVars,
                Server!requestVars, ServerProofs!requestVars
  <2> QED BY <2>1 DEF ServerInv, ServerProofs!Next, ServerProofs!Call
<1>2. CASE ShutdownServer
  <2>1. ServerProofs!BeginShutdown(Main, deadline)
    BY <1>2 DEF ShutdownServer, Server!BeginShutdown,
                ServerProofs!BeginShutdown, Server!Shutting,
                ServerProofs!Shutting, Server!serverVars,
                ServerProofs!serverVars, Server!netVars, ServerProofs!netVars,
                Server!requestVars, ServerProofs!requestVars
  <2>2. deadline \in {"live", "expired"}
    BY <1>2 DEF ServerInv, ShutdownServer, PoolStopped
  <2> QED BY <2>1, <2>2 DEF ServerInv, ServerProofs!Next, ServerProofs!Call
<1>3. CASE Expire
  <2>1. ServerProofs!Expire(Main) \/ UNCHANGED serverVars
    BY <1>3 DEF Expire, Server!Expire, ServerProofs!Expire,
                Server!serverVars, ServerProofs!serverVars,
                Server!netVars, ServerProofs!netVars,
                Server!requestVars, ServerProofs!requestVars,
                Server!ghostVars, ServerProofs!ghostVars
  <2> QED BY <2>1 DEF ServerInv, ServerProofs!Next
<1>4. CASE ServerStep
  <2> USE DEF Server!serverVars, ServerProofs!serverVars,
              Server!callVars, ServerProofs!callVars,
              Server!netVars, ServerProofs!netVars,
              Server!requestVars, ServerProofs!requestVars,
              Server!ghostVars, ServerProofs!ghostVars
  <2>1. ASSUME Server!CloseShutdownChan(Main) PROVE ServerProofs!CloseShutdownChan(Main)
    BY <2>1 DEF Server!CloseShutdownChan, ServerProofs!CloseShutdownChan
  <2>2. ASSUME Server!SelectDone(Main) PROVE ServerProofs!SelectDone(Main)
    BY <2>2 DEF Server!SelectDone, ServerProofs!SelectDone
  <2>3. ASSUME Server!SelectTimeout(Main) PROVE ServerProofs!SelectTimeout(Main)
    BY <2>3 DEF Server!SelectTimeout, ServerProofs!SelectTimeout,
                Server!Unlisten, ServerProofs!Unlisten
  <2>4. ASSUME Server!StopRunning(Main) PROVE ServerProofs!StopRunning(Main)
    BY <2>4 DEF Server!StopRunning, ServerProofs!StopRunning
  <2>5. ASSUME Server!EndShutdown(Main) PROVE ServerProofs!EndShutdown(Main)
    BY <2>5 DEF Server!EndShutdown, ServerProofs!EndShutdown
  <2>6. ASSUME Server!ListenAndServe PROVE ServerProofs!ListenAndServe
    BY <2>6 DEF Server!ListenAndServe, ServerProofs!ListenAndServe
  <2>7. ASSUME Server!NetShutdown PROVE ServerProofs!NetShutdown
    BY <2>7 DEF Server!NetShutdown, ServerProofs!NetShutdown,
                Server!Unlisten, ServerProofs!Unlisten
  <2>8. ASSUME Server!NetDone PROVE ServerProofs!NetDone
    BY <2>8 DEF Server!NetDone, ServerProofs!NetDone, Server!Handling,
                ServerProofs!Handling, Server!Pacman, ServerProofs!Pacman
  <2>9. ServerProofs!Shutdown(Main) \/ ServerProofs!Net
    BY <1>4, <2>1, <2>2, <2>3, <2>4, <2>5, <2>6, <2>7, <2>8
       DEF ServerStep, Server!Shutdown, Server!Net,
           ServerProofs!Shutdown, ServerProofs!Net
  <2> QED BY <2>9 DEF ServerInv, ServerProofs!Next
<1>5. CASE ClientStep
  <2> USE DEF Server!serverVars, ServerProofs!serverVars,
              Server!callVars, ServerProofs!callVars,
              Server!netVars, ServerProofs!netVars,
              Server!requestVars, ServerProofs!requestVars,
              Server!ghostVars, ServerProofs!ghostVars
  <2> PICK r \in Requests :
         Server!Accept(r) \/ Server!Disconnect(r) \/ Server!Handle(r)
    BY <1>5 DEF ClientStep
  <2>1. ASSUME Server!Accept(r) PROVE ServerProofs!Accept(r)
    BY <2>1 DEF Server!Accept, ServerProofs!Accept
  <2>2. ASSUME Server!Disconnect(r) PROVE ServerProofs!Disconnect(r)
    BY <2>2 DEF Server!Disconnect, ServerProofs!Disconnect
  <2>3. ASSUME NEW p \in Paths, Server!Enter(r, p) PROVE ServerProofs!Enter(r, p)
    BY <2>3 DEF Server!Enter, ServerProofs!Enter
  <2>4. ASSUME Server!Lookup(r) PROVE ServerProofs!Lookup(r)
    BY <2>4 DEF Server!Lookup, ServerProofs!Lookup, Server!Accepted,
                ServerProofs!Accepted, Server!IsUnderOs, ServerProofs!IsUnderOs,
                Server!IsRepoFile, ServerProofs!IsRepoFile,
                Server!Starts, ServerProofs!Starts
  <2>5. ASSUME Server!Fetched(r) PROVE ServerProofs!Fetched(r)
    BY <2>5 DEF Server!Fetched, ServerProofs!Fetched
  <2>6. ASSUME Server!Aside(r) PROVE ServerProofs!Aside(r)
    BY <2>6 DEF Server!Aside, ServerProofs!Aside
  <2>7. ASSUME Server!Refuse(r) PROVE ServerProofs!Refuse(r)
    BY <2>7 DEF Server!Refuse, ServerProofs!Refuse, Server!Leave,
                ServerProofs!Leave
  <2>8. ASSUME Server!FetchFails(r) PROVE ServerProofs!FetchFails(r)
    BY <2>8 DEF Server!FetchFails, ServerProofs!FetchFails, Server!Leave,
                ServerProofs!Leave
  <2>9. ASSUME Server!Serve(r) PROVE ServerProofs!Serve(r)
    BY <2>9 DEF Server!Serve, ServerProofs!Serve, Server!Leave,
                ServerProofs!Leave
  <2>10. ServerProofs!Accept(r) \/ ServerProofs!Disconnect(r) \/ ServerProofs!Handle(r)
    BY <2>1, <2>2, <2>3, <2>4, <2>5, <2>6, <2>7, <2>8, <2>9
       DEF Server!Handle, ServerProofs!Handle
  <2> QED BY <2>10 DEF ServerInv, ServerProofs!Next
<1>6. CASE \/ LoadFails \/ NoFile \/ \E file \in Files : LoadFile(file)
           \/ CheckMirrors \/ MakeDirectory \/ StorageFails \/ RecoveryPanics
  BY <1>6 DEF LoadFails, NoFile, LoadFile, CheckMirrors, MakeDirectory,
              StorageFails, RecoveryPanics, OnlyMain
<1>7. CASE StartRecovery \/ StartPool \/ SetRetentionCount \/ StartRetention
           \/ Built \/ Notify \/ Receive
  BY <1>7 DEF StartRecovery, StartPool, SetRetentionCount, StartRetention,
              Built, Notify, Receive, OnlyMain
<1>8. CASE StopPool \/ WaitForCompletion \/ StopRecovery \/ StopRetention \/ Finish
  BY <1>8 DEF StopPool, WaitForCompletion, StopRecovery, StopRetention,
              Finish, OnlyMain
<1>9. CASE \/ Signal \/ \E w \in PoolWorkers : PoolStep(w)
           \/ \E g \in {Main, RetentionLoop} : RetentionStep(g)
           \/ RetentionTick \/ SelectorStep
  BY <1>9 DEF Signal, OnlyMain, PoolStep, RetentionStep, RetentionTick,
              SelectorStep
<1>10. CASE UNCHANGED vars
  BY <1>10 DEF vars
<1> QED BY <1>1, <1>2, <1>3, <1>4, <1>5, <1>6, <1>7, <1>8, <1>9, <1>10
        DEF Next, MainStep

LEMMA ServerIInvStep ==
  ASSUME ServerInv, ServerProofs!IInv, [Next]_vars PROVE ServerProofs!IInv'
<1>1. [ServerProofs!Next]_(ServerProofs!vars)
  BY ServerNext DEF serverVars, ServerProofs!vars, ServerProofs!serverVars,
                    ServerProofs!callVars, ServerProofs!netVars,
                    ServerProofs!requestVars, ServerProofs!ghostVars
<1>2. ServerProofs!HTTPServerAssumption
  BY DEF ServerProofs!HTTPServerAssumption
<1> QED BY <1>1, <1>2, ServerProofs!Inductive

-----------------------------------------------------------------------------
LEMMA InitAppInv == Init => AppInv /\ ServerProofs!IInv
<1> SUFFICES ASSUME Init PROVE AppInv /\ ServerProofs!IInv
  OBVIOUS
<1> USE DEF Init
<1>1. ConfigInv
  BY DEF ConfigInv, Building
<1>2. PoolInv
  BY DEF PoolInv, PoolUp, PoolStopped, Drained, Pool!Init
<1>3. HealInv
  BY DEF HealInv, HealUp, HealStopped, PoolUp, Selector!Init
<1>4. KeepInv
  BY DEF KeepInv, KeepUp, Retention!Init, Retention!Goroutines
<1>5. ServerInv
  BY DEF ServerInv, PoolStopped, Server!Init
<1>6. ServerProofs!IInv
  <2>1. ServerProofs!Init
    BY DEF Server!Init, ServerProofs!Init
  <2>2. ServerProofs!HTTPServerAssumption
    BY DEF ServerProofs!HTTPServerAssumption
  <2> QED BY <2>1, <2>2, ServerProofs!InitIInv
<1> QED BY <1>1, <1>2, <1>3, <1>4, <1>5, <1>6 DEF AppInv

(* The inductive invariant.                                                *)
THEOREM Invariant == Spec => [](AppInv /\ ServerProofs!IInv)
<1>1. AppInv /\ ServerProofs!IInv /\ [Next]_vars
        => (AppInv /\ ServerProofs!IInv)'
  <2> SUFFICES ASSUME AppInv, ServerProofs!IInv, [Next]_vars
               PROVE  AppInv' /\ ServerProofs!IInv'
    OBVIOUS
  <2>1. CallTypes
    BY DEF CallTypes, ServerProofs!IInv, ServerProofs!TypeOK
  <2> QED BY <2>1, ConfigStep, PoolInvStep, HealInvStep, KeepInvStep,
             ServerInvStep, ServerIInvStep DEF AppInv
<1> QED BY <1>1, InitAppInv, PTL DEF Spec

(* No step of the daemon, whatever its goroutines do, closes a channel     *)
(* twice or sends on a closed one: the components are started and stopped  *)
(* once, in an order that gives none of them a second Stop.                *)
THEOREM NeverPanicsHolds == Spec => []NeverPanics
<1>1. AppInv => NeverPanics
  BY DEF AppInv, PoolInv, HealInv, KeepInv, ServerInv, NeverPanics, Panicked
<1> QED BY <1>1, Invariant, PTL

-----------------------------------------------------------------------------
(* How the process comes to an exit status.                                *)
LEMMA StatusChanges ==
  ASSUME [Next]_vars, status' # status
  PROVE  /\ status = "alive" /\ main' = main /\ deadline' = deadline
         /\ \/ status' = "killed"
            \/ status' = "1" /\ main \in {"load", "check"}
            \/ status' = "1" /\ main \in {"cache", "downloader"} /\ StorageFaults
            \/ /\ status' = "2" /\ main = "recovery" /\ OnlyMain
               /\ Duration(cfg.number.recovery_interval) <= 0 /\ cfg' = cfg
            \/ status' = "1" /\ main = "count" /\ ~(cfg.number.keep_versions >= 1)
            \/ status' = "1" /\ main = "stopPool" /\ ~poolRunning
            \/ /\ main = "finish" /\ pc[Main] = "idle"
               /\ status' = IF result[Main] = "nil" THEN "0" ELSE "1"
               /\ OnlyMain
<1> USE DEF Goto, Exit
<1>0. status = "alive"
  BY DEF Next, Alive, vars, mainVars
<1>1. CASE LoadFails \/ NoFile \/ \E file \in Files : LoadFile(file)
  BY <1>1, <1>0 DEF LoadFails, NoFile, LoadFile
<1>2. CASE CheckMirrors \/ MakeDirectory \/ StorageFails \/ RecoveryPanics
  BY <1>2, <1>0 DEF CheckMirrors, MakeDirectory, StorageFails, RecoveryPanics
<1>3. CASE StartRecovery \/ StartPool \/ SetRetentionCount \/ StartRetention \/ Built
  BY <1>3, <1>0 DEF StartRecovery, StartPool, SetRetentionCount, StartRetention, Built
<1>4. CASE Notify \/ StartServer \/ Receive \/ ShutdownServer
  BY <1>4, <1>0 DEF Notify, StartServer, Receive, ShutdownServer
<1>5. CASE StopPool \/ WaitForCompletion \/ StopRecovery \/ StopRetention
  BY <1>5, <1>0 DEF StopPool, WaitForCompletion, StopRecovery, StopRetention
<1>6. CASE Finish
  BY <1>6, <1>0 DEF Finish
<1>7. CASE Signal \/ Expire
  BY <1>7, <1>0 DEF Signal, Expire
<1>8. CASE \/ \E w \in PoolWorkers : PoolStep(w)
           \/ \E g \in {Main, RetentionLoop} : RetentionStep(g)
           \/ RetentionTick \/ SelectorStep \/ ServerStep \/ ClientStep
  BY <1>8 DEF PoolStep, RetentionStep, RetentionTick, SelectorStep,
              ServerStep, ClientStep, mainVars
<1>9. CASE UNCHANGED vars
  BY <1>9 DEF vars, mainVars
<1> QED BY <1>1, <1>2, <1>3, <1>4, <1>5, <1>6, <1>7, <1>8, <1>9
        DEF Next, MainStep

(* A process that has exited changes nothing any more.                     *)
LEMMA ExitedStays ==
  ASSUME [Next]_vars, status # "alive" PROVE UNCHANGED vars
BY DEF Next, Alive

(* A positive number of minutes that a Duration holds stays positive.      *)
LEMMA DurationExact ==
  ASSUME NEW n \in Nat \ {0}, n * Minute < Limit
  PROVE  Duration(n) > 0
<1> DEFINE x == n * Minute
<1>1. x \in Nat \ {0} /\ x < Limit
  OBVIOUS
<1> HIDE DEF x
<1>2. (x + Limit) % (2 * Limit) = x + Limit
  BY <1>1
<1>3. (x + Limit) - Limit > 0
  BY <1>1
<1> QED BY <1>2, <1>3 DEF Duration, x

(* With a configuration that was accepted only the storage, or a recovery  *)
(* interval no Duration holds, can make the daemon fail to start, and only *)
(* the deadline can make it fail to stop.                                  *)
THEOREM FailureHasCauseHolds == Spec => []FailureHasCause
<1>1. Init => FailureHasCause
  BY DEF Init, FailureHasCause
<1>2. AppInv /\ FailureHasCause /\ [Next]_vars => FailureHasCause'
  <2> SUFFICES ASSUME AppInv, FailureHasCause, [Next]_vars,
                      status' \in {"1", "2"}
               PROVE  FailureHasCause'
    BY DEF FailureHasCause
  <2>1. CASE status \in {"1", "2"}
    BY <2>1, ExitedStays DEF FailureHasCause, vars, mainVars
  <2>2. CASE status \notin {"1", "2"} /\ status' = "1"
    <3>1. ~(main = "count" /\ ~(cfg.number.keep_versions >= 1))
      <4>1. "keep_versions" \in DOMAIN Standard /\ Least["keep_versions"] = 1
        BY DEF Standard, Least
      <4>2. ASSUME main = "count" PROVE cfg.number.keep_versions >= 1
        <5>1. InRange(cfg)
          BY <4>2 DEF AppInv, ConfigInv, Building
        <5>2. cfg.number["keep_versions"] >= Least["keep_versions"]
          BY <4>1, <5>1 DEF InRange
        <5> QED BY <4>1, <5>2
      <4> QED BY <4>2
    <3>2. ~(main = "stopPool" /\ ~poolRunning)
      BY DEF AppInv, PoolInv, PoolUp
    <3>3. main = "finish" /\ pc[Main] = "idle" /\ result[Main] # "nil"
            => deadline = "expired"
      BY DEF AppInv, ServerInv, Deciding
    <3> QED BY <2>2, <3>1, <3>2, <3>3, StatusChanges DEF FailureHasCause
  <2>3. CASE status \notin {"1", "2"} /\ status' = "2"
    <3>1. /\ main = "recovery" /\ main' = main /\ cfg' = cfg
          /\ Duration(cfg.number.recovery_interval) <= 0
      BY <2>3, StatusChanges
    <3> DEFINE n == cfg.number.recovery_interval
    <3>2. n \in Nat \ {0}
      BY <3>1 DEF AppInv, ConfigInv, Building
    <3>3. n * Minute >= Limit
      <4> HIDE DEF n
      <4>1. Duration(n) \in Int /\ n * Minute \in Int
        BY <3>2 DEF Duration
      <4>2. Duration(n) <= 0
        BY <3>1 DEF n
      <4> QED BY <3>2, <4>1, <4>2, DurationExact
    <3> QED BY <2>3, <3>1, <3>3 DEF FailureHasCause
  <2> QED BY <2>1, <2>2, <2>3
<1> QED BY <1>1, <1>2, Invariant, PTL DEF Spec

(* Status 0 is only given when workers and handlers have ended, nobody can *)
(* connect, and the periodic tasks have been told to stop.                 *)
THEOREM CleanExitHolds == Spec => []CleanExit
<1>1. Init => CleanExit
  BY DEF Init, CleanExit
<1>2. AppInv /\ ServerProofs!IInv /\ CleanExit /\ [Next]_vars => CleanExit'
  <2> SUFFICES ASSUME AppInv, ServerProofs!IInv, CleanExit, [Next]_vars,
                      status' = "0"
               PROVE  CleanExit'
    BY DEF CleanExit
  <2>1. CASE status = "0"
    BY <2>1, ExitedStays DEF CleanExit, vars, mainVars, poolVars, keepVars,
                             healVars, serverVars
  <2>2. CASE status # "0"
    <3>1. /\ main = "finish" /\ pc[Main] = "idle" /\ result[Main] = "nil"
          /\ OnlyMain
      BY <2>2, StatusChanges
    <3>2. \A w \in PoolWorkers : poolPc[w] = "off"
      BY <3>1 DEF AppInv, PoolInv, Drained, PoolStopped
    <3>3. keepChan = "closed" /\ healChan = "closed"
      BY <3>1 DEF AppInv, KeepInv, HealInv, HealStopped
    <3>4. ServerProofs!Drained
      BY ServerProofs!CleanDrained
    <3>5. /\ \A r \in Requests : stage[r] \notin Server!Handling \cup {"new"}
          /\ listener # "listening" /\ activeRequests = 0
      BY <3>1, <3>4 DEF ServerProofs!Drained, Server!Handling,
         ServerProofs!Handling, Server!Pacman, ServerProofs!Pacman
    <3> QED BY <3>1, <3>2, <3>3, <3>5
            DEF CleanExit, OnlyMain, poolVars, keepVars, healVars, serverVars
  <2> QED BY <2>1, <2>2
<1> QED BY <1>1, <1>2, Invariant, PTL DEF Spec
-----------------------------------------------------------------------------
(* What the daemon does to its components is what their modules say their  *)
(* callers may do.                                                         *)
LEMMA PoolNext == ASSUME [Next]_vars PROVE [Pool!Next]_(Pool!vars)
<1> USE DEF poolVars, Pool!vars, Pool!taskVars, Pool!workerVars, Pool!metricVars
<1>1. CASE UNCHANGED poolVars
  BY <1>1
<1>2. CASE Next /\ StartPool
  BY <1>2 DEF StartPool, Next, Alive, Panicked, Pool!Next
<1>3. CASE Next /\ StopPool
  BY <1>3 DEF StopPool, Next, Alive, Panicked, Pool!Next
<1>4. ASSUME Next, NEW w \in PoolWorkers, PoolStep(w) PROVE Pool!Next
  BY <1>4 DEF PoolStep, Next, Alive, Panicked, Pool!Next
<1>5. CASE Next /\ MainStep /\ ~StartPool /\ ~StopPool
  BY <1>1, <1>5 DEF MainStep, LoadFails, NoFile, LoadFile, CheckMirrors,
     MakeDirectory, StorageFails, RecoveryPanics, StartRecovery,
     SetRetentionCount, StartRetention, Built, Notify, StartServer, Receive, WaitForCompletion,
     StopRecovery, StopRetention, ShutdownServer, Finish, OnlyMain
<1>6. CASE \/ Signal \/ Expire \/ \E g \in {Main, RetentionLoop} : RetentionStep(g)
           \/ RetentionTick \/ SelectorStep \/ ServerStep \/ ClientStep
  BY <1>1, <1>6 DEF Signal, Expire, OnlyMain, RetentionStep, RetentionTick,
     SelectorStep, ServerStep, ClientStep
<1>7. CASE UNCHANGED vars
  BY <1>1, <1>7 DEF vars
<1> QED BY <1>2, <1>3, <1>4, <1>5, <1>6, <1>7 DEF Next

LEMMA KeepNext == ASSUME [Next]_vars PROVE [Retention!Next]_(Retention!vars)
<1> USE DEF keepVars, Retention!vars, Retention!lockVars, Retention!loopVars,
        Retention!scanVars, Retention!fileVars, Retention!boundVars
<1>1. CASE UNCHANGED keepVars
  BY <1>1
<1>2. ASSUME Next, NEW what \in Retention!Calls, Retention!Call(Main, what)
      PROVE  Retention!Next
  BY <1>2 DEF Next, Alive, Panicked, Retention!Next
<1>3. CASE Next /\ (SetRetentionCount \/ StartRetention \/ StopRetention)
  BY <1>1, <1>2, <1>3 DEF SetRetentionCount, StartRetention, StopRetention,
                          Retention!Calls
<1>4. ASSUME Next, NEW g \in {Main, RetentionLoop}, RetentionStep(g)
      PROVE  Retention!Next
  BY <1>4 DEF RetentionStep, Retention!Next, Retention!Goroutines
<1>5. CASE Next /\ RetentionTick
  BY <1>5 DEF RetentionTick, Next, Alive, Panicked, Retention!Next
<1>6. CASE \/ LoadFails \/ NoFile \/ \E file \in Files : LoadFile(file)
           \/ CheckMirrors \/ MakeDirectory \/ StorageFails \/ RecoveryPanics
           \/ StartRecovery \/ StartPool \/ Built \/ Notify \/ StartServer
           \/ Receive \/ StopPool \/ WaitForCompletion \/ StopRecovery
           \/ ShutdownServer \/ Finish
  BY <1>1, <1>6 DEF LoadFails, NoFile, LoadFile, CheckMirrors, MakeDirectory,
     StorageFails, RecoveryPanics, StartRecovery, StartPool, Built, Notify,
     StartServer, Receive, StopPool, WaitForCompletion, StopRecovery, ShutdownServer,
     Finish, OnlyMain
<1>7. CASE \/ Signal \/ Expire \/ \E w \in PoolWorkers : PoolStep(w)
           \/ SelectorStep \/ ServerStep \/ ClientStep
  BY <1>1, <1>7 DEF Signal, Expire, OnlyMain, PoolStep, SelectorStep,
     ServerStep, ClientStep
<1>8. CASE UNCHANGED vars
  BY <1>1, <1>8 DEF vars
<1> QED BY <1>3, <1>4, <1>5, <1>6, <1>7, <1>8 DEF Next, MainStep

LEMMA HealNext ==
  ASSUME ConfigInv, [Next]_vars PROVE [Selector!Next]_(Selector!vars)
<1> USE DEF healVars, Selector!vars, Selector!weightVars, Selector!fetchVars,
        Selector!loopVars
<1>1. CASE UNCHANGED healVars
  BY <1>1
<1>2. CASE Next /\ StartRecovery
  <2>1. cfg.number.recovery_rate \in 1..100
    BY <1>2 DEF ConfigInv, Building, StartRecovery
  <2> QED BY <1>2, <2>1 DEF StartRecovery, Next, Alive, Panicked, Selector!Next
<1>3. CASE Next /\ StopRecovery
  BY <1>3 DEF StopRecovery, Next, Alive, Panicked, Selector!Next
<1>4. CASE Next /\ SelectorStep
  BY <1>4 DEF SelectorStep, Next, Alive, Panicked, Selector!Next
<1>5. CASE \/ LoadFails \/ NoFile \/ \E file \in Files : LoadFile(file)
           \/ CheckMirrors \/ MakeDirectory \/ StorageFails \/ RecoveryPanics
           \/ StartPool \/ SetRetentionCount \/ StartRetention \/ Built
           \/ Notify \/ StartServer \/ Receive \/ StopPool
           \/ WaitForCompletion \/ StopRetention \/ ShutdownServer \/ Finish
  BY <1>1, <1>5 DEF LoadFails, NoFile, LoadFile, CheckMirrors, MakeDirectory,
     StorageFails, RecoveryPanics, StartPool, SetRetentionCount, StartRetention,
     Built, Notify, StartServer, Receive, StopPool, WaitForCompletion, StopRetention,
     ShutdownServer, Finish, OnlyMain
<1>6. CASE \/ Signal \/ Expire \/ \E w \in PoolWorkers : PoolStep(w)
           \/ \E g \in {Main, RetentionLoop} : RetentionStep(g)
           \/ RetentionTick \/ ServerStep \/ ClientStep
  BY <1>1, <1>6 DEF Signal, Expire, OnlyMain, PoolStep, RetentionStep,
     RetentionTick, ServerStep, ClientStep
<1>7. CASE UNCHANGED vars
  BY <1>1, <1>7 DEF vars
<1> QED BY <1>2, <1>3, <1>4, <1>5, <1>6, <1>7 DEF Next, MainStep

(* Every behaviour of the daemon is one of each component: it starts as    *)
(* the component does, and only takes steps its module allows, so that     *)
(* what a component never does for any callers it does not do here.        *)
THEOREM ComponentsImplemented ==
  Spec => /\ Pool!Init /\ [][Pool!Next]_(Pool!vars)
          /\ Retention!Init /\ [][Retention!Next]_(Retention!vars)
          /\ Selector!Init /\ [][Selector!Next]_(Selector!vars)
          /\ ServerProofs!Init /\ [][ServerProofs!Next]_(ServerProofs!vars)
<1>1. Init => Pool!Init /\ Retention!Init /\ Selector!Init /\ ServerProofs!Init
  BY DEF Init, Server!Init, ServerProofs!Init
<1>2. AppInv /\ [Next]_vars =>
        /\ [Pool!Next]_(Pool!vars) /\ [Retention!Next]_(Retention!vars)
        /\ [Selector!Next]_(Selector!vars)
        /\ [ServerProofs!Next]_(ServerProofs!vars)
  <2> SUFFICES ASSUME AppInv, [Next]_vars
               PROVE  /\ [Pool!Next]_(Pool!vars)
                      /\ [Retention!Next]_(Retention!vars)
                      /\ [Selector!Next]_(Selector!vars)
                      /\ [ServerProofs!Next]_(ServerProofs!vars)
    OBVIOUS
  <2>1. [ServerProofs!Next]_(ServerProofs!vars)
    BY ServerNext DEF AppInv, serverVars, ServerProofs!vars,
       ServerProofs!serverVars, ServerProofs!callVars, ServerProofs!netVars,
       ServerProofs!requestVars, ServerProofs!ghostVars
  <2> QED BY <2>1, PoolNext, KeepNext, HealNext DEF AppInv
<1> QED BY <1>1, <1>2, Invariant, PTL DEF Spec
-----------------------------------------------------------------------------
(* Each component keeps the types of its own variables.                    *)
LEMMA PoolTypeStep ==
  ASSUME Pool!TypeOK, [Pool!Next]_(Pool!vars) PROVE Pool!TypeOK'
<1> USE DEF Pool!TypeOK, Pool!Processing, Pool!Outcomes, Pool!taskVars,
        Pool!workerVars, Pool!metricVars
<1>1. CASE UNCHANGED Pool!vars
  BY <1>1 DEF Pool!vars
<1>2. CASE Pool!Start
  <2>1. PICK new \in SUBSET PoolWorkers :
          /\ poolPc' = [w \in PoolWorkers |->
                          IF w \in new THEN "select" ELSE poolPc[w]]
          /\ poolWatching' = [w \in PoolWorkers |->
                          IF w \in new THEN poolStarts + 1 ELSE poolWatching[w]]
    BY <1>2 DEF Pool!Start, Pool!Launch
  <2>2. /\ poolRunning' = TRUE /\ poolStarts' = poolStarts + 1
        /\ poolStarts + 1 \in 0..1 /\ UNCHANGED <<poolClosed, poolPanicked>>
    BY <1>2 DEF Pool!Start, Pool!Launch
  <2>3. /\ poolPc' \in [PoolWorkers -> {"off", "select"} \cup Pool!Processing]
        /\ poolWatching' \in [PoolWorkers -> 0..1]
    BY <2>1, <2>2
  <2> QED BY <2>2, <2>3
<1>3. CASE Pool!Stop
  BY <1>3 DEF Pool!Stop
<1>4. ASSUME NEW w \in PoolWorkers, Pool!Work(w) PROVE Pool!TypeOK'
  <2>1. CASE Pool!Take(w) \/ Pool!Drained(w) \/ Pool!StopSeen(w)
    BY <2>1 DEF Pool!Take, Pool!Drained, Pool!StopSeen
  <2>2. CASE Pool!SelectMirror(w) \/ Pool!Fails(w) \/ Pool!Succeeds(w)
    BY <2>2 DEF Pool!SelectMirror, Pool!Fails, Pool!Succeeds
  <2>3. CASE Pool!Report(w)
    BY <2>3 DEF Pool!Report
  <2> QED BY <1>4, <2>1, <2>2, <2>3 DEF Pool!Work
<1> QED BY <1>1, <1>2, <1>3, <1>4 DEF Pool!Next

LEMMA KeepTypeStep ==
  ASSUME Retention!TypeOK, [Retention!Next]_(Retention!vars)
  PROVE  Retention!TypeOK'
<1> USE DEF Retention!TypeOK, Retention!Goroutines, Retention!Locations,
        Retention!Calls, Retention!At, Retention!Goto, Retention!Return,
        Retention!lockVars, Retention!loopVars, Retention!scanVars,
        Retention!fileVars, Retention!boundVars
<1>1. CASE UNCHANGED Retention!vars
  BY <1>1 DEF Retention!vars
<1>2. ASSUME NEW what \in Retention!Calls, Retention!Call(Main, what)
      PROVE  Retention!TypeOK'
  BY <1>2 DEF Retention!Call
<1>3. CASE Retention!Tick
  BY <1>3 DEF Retention!Tick
<1>4. ASSUME NEW g \in {Main, RetentionLoop}, Retention!Proceed(g)
      PROVE  Retention!TypeOK'
  <2>1. CASE Retention!Acquire(g)
    BY <2>1 DEF Retention!Acquire
  <2>2. CASE Retention!Enforce(g)
    <3>1. CASE Retention!BeginScan(g) \/ Retention!ListFails(g)
      BY <3>1 DEF Retention!BeginScan, Retention!ListFails
    <3>2. CASE Retention!ListVersions(g) \/ Retention!VersionsFail(g)
      BY <3>2 DEF Retention!ListVersions, Retention!VersionsFail
    <3>3. CASE Retention!Trimmed(g) \/ Retention!EndScan(g)
      BY <3>3 DEF Retention!Trimmed, Retention!EndScan
    <3> QED BY <2>2, <3>1, <3>2, <3>3 DEF Retention!Enforce
  <2>3. CASE g = Main /\ Retention!SetRetentionCount(g)
    BY <2>3 DEF Retention!SetRetentionCount
  <2>4. CASE g = Main /\ Retention!StartLoop(g)
    <3> DEFINE l == CHOOSE k \in Retention!Free : TRUE
    <3>1. /\ l \in Retention!Free
          /\ keepPc' = [keepPc EXCEPT ![g] = "idle", ![l] = "select"]
          /\ keepOp' = [keepOp EXCEPT ![g] = "none"]
      BY <2>4 DEF Retention!StartLoop
    <3> HIDE DEF l
    <3>2. l = RetentionLoop
      BY <3>1 DEF Retention!Free
    <3>3. /\ keepPc' \in [{Main} \cup {RetentionLoop} -> Retention!Locations]
          /\ keepOp' \in [{Main} \cup {RetentionLoop} ->
                             Retention!Calls \cup {"none", "tick", "exit"}]
      BY <3>1, <3>2
    <3> QED BY <2>4, <3>3 DEF Retention!StartLoop
  <2>5. CASE g = Main /\ (Retention!StartIgnored(g) \/ Retention!StopIgnored(g))
    BY <2>5 DEF Retention!StartIgnored, Retention!StopIgnored
  <2>6. CASE g = Main /\ Retention!Stop(g)
    BY <2>6 DEF Retention!Stop
  <2>7. CASE \/ Retention!LoopTick(g) \/ Retention!LoopEnforce(g)
             \/ Retention!LoopStop(g) \/ Retention!LoopExit(g)
    <3>1. CASE Retention!LoopTick(g)
      BY <3>1 DEF Retention!LoopTick
    <3>2. CASE Retention!LoopEnforce(g)
      BY <3>2 DEF Retention!LoopEnforce
    <3>3. CASE Retention!LoopStop(g)
      BY <3>3 DEF Retention!LoopStop
    <3>4. CASE Retention!LoopExit(g)
      BY <3>4 DEF Retention!LoopExit
    <3> QED BY <2>7, <3>1, <3>2, <3>3, <3>4
  <2> QED BY <1>4, <2>1, <2>2, <2>3, <2>4, <2>5, <2>6, <2>7 DEF Retention!Proceed
<1> QED BY <1>1, <1>2, <1>3, <1>4 DEF Retention!Next

LEMMA HealTypeStep ==
  ASSUME Selector!TypeOK, [Selector!Next]_(Selector!vars)
  PROVE  Selector!TypeOK'
<1> USE DEF Selector!TypeOK, Selector!weightVars, Selector!fetchVars,
        Selector!loopVars
<1>1. CASE UNCHANGED Selector!vars
  BY <1>1 DEF Selector!vars
<1>2. ASSUME NEW r \in 1..100, Selector!StartRecovery(r)
      PROVE  Selector!TypeOK'
  <2> DEFINE l == CHOOSE k \in Selector!Free : TRUE
  <2>1. /\ l \in Selector!Free
        /\ healLoop' = [healLoop EXCEPT ![l] = "select"]
        /\ healRate' = [healRate EXCEPT ![l] = Selector!Usable(r)]
    BY <1>2 DEF Selector!StartRecovery
  <2> HIDE DEF l
  <2>2. l = RecoveryLoop
    BY <2>1 DEF Selector!Free
  <2>3. Selector!Usable(r) \in 0..100
    BY DEF Selector!Usable
  <2>4. /\ healLoop' \in [{RecoveryLoop} -> {"none", "select", "woken", "leaving"}]
        /\ healRate' \in [{RecoveryLoop} -> 0..100]
    BY <2>1, <2>2, <2>3
  <2> QED BY <1>2, <2>4 DEF Selector!StartRecovery
<1>3. CASE Selector!Stop
  BY <1>3 DEF Selector!Stop
<1>4. CASE Selector!Tick
  BY <1>4 DEF Selector!Tick
<1>5. CASE Selector!RecoverWeights(RecoveryLoop)
  <2>1. CASE Selector!Wake(RecoveryLoop) \/ Selector!LoopStop(RecoveryLoop)
    BY <2>1 DEF Selector!Wake, Selector!LoopStop
  <2>2. CASE Selector!LoopExit(RecoveryLoop)
    <3>1. /\ healLoop' = [healLoop EXCEPT ![RecoveryLoop] = "none"]
          /\ healRate' = [healRate EXCEPT ![RecoveryLoop] = 0]
          /\ healRunning' = FALSE
          /\ UNCHANGED <<healChan, healTick, healStops, healPanicked>>
      BY <2>2 DEF Selector!LoopExit
    <3>2. /\ healLoop' \in [{RecoveryLoop} -> {"none", "select", "woken", "leaving"}]
          /\ healRate' \in [{RecoveryLoop} -> 0..100]
      BY <3>1
    <3>3. healRunning' \in BOOLEAN
      BY <3>1, Zenon
    <3> QED BY <3>1, <3>2, <3>3
  <2>3. CASE Selector!Recover(RecoveryLoop)
    <3>1. /\ healLoop' = [healLoop EXCEPT ![RecoveryLoop] = "select"]
          /\ UNCHANGED <<healRunning, healChan, healTick, healRate, healStops,
                         healPanicked>>
      BY <2>3 DEF Selector!Recover, Selector!RecoverTo
    <3> QED BY <3>1
  <2> QED BY <1>5, <2>1, <2>2, <2>3 DEF Selector!RecoverWeights
<1> QED BY <1>1, <1>2, <1>3, <1>4, <1>5 DEF Selector!Next

(* The configuration is looked at until the components are built.          *)
MainType ==
  /\ main \in Locations
  /\ cfg = NoConfig \/ InRange(cfg)
  /\ signal \in BOOLEAN
  /\ deadline \in {"none", "live", "expired"}
  /\ status \in {"alive", "0", "1", "2", "killed"}

LEMMA MainTypeStep == ASSUME MainType, [Next]_vars PROVE MainType'
<1> USE DEF MainType, Locations, Goto, Exit
<1>1. CASE UNCHANGED mainVars
  BY <1>1 DEF mainVars
<1>2. ASSUME NEW file \in Files, LoadFile(file) PROVE MainType'
  BY <1>2, AcceptedInRange DEF LoadFile
<1>3. CASE LoadFails \/ NoFile
  BY <1>3, DefaultInRange DEF LoadFails, NoFile
<1>4. CASE CheckMirrors \/ MakeDirectory \/ StorageFails \/ RecoveryPanics
  BY <1>4 DEF CheckMirrors, MakeDirectory, StorageFails, RecoveryPanics
<1>5. CASE StartRecovery \/ StartPool \/ SetRetentionCount \/ StartRetention \/ Built
  BY <1>5 DEF StartRecovery, StartPool, SetRetentionCount, StartRetention, Built
<1>6. CASE Notify \/ StartServer \/ Receive
  BY <1>6 DEF Notify, StartServer, Receive
<1>7. CASE StopPool \/ WaitForCompletion \/ StopRecovery \/ StopRetention
           \/ ShutdownServer \/ Finish
  BY <1>7 DEF StopPool, WaitForCompletion, StopRecovery, StopRetention,
              ShutdownServer, Finish
<1>8. CASE Signal \/ Expire
  <2>1. CASE Signal
    <3>1. /\ UNCHANGED <<main, cfg, deadline>> /\ signal' \in {signal, TRUE}
          /\ status' \in {status, "killed"}
      BY <2>1, Zenon DEF Signal
    <3> QED BY <3>1
  <2>2. CASE Expire
    <3>1. deadline' = "expired" /\ UNCHANGED <<main, cfg, signal, status>>
      BY <2>2, Zenon DEF Expire
    <3> QED BY <3>1
  <2> QED BY <1>8, <2>1, <2>2
<1>9. CASE \/ \E w \in PoolWorkers : PoolStep(w)
           \/ \E g \in {Main, RetentionLoop} : RetentionStep(g)
           \/ RetentionTick \/ SelectorStep \/ ServerStep \/ ClientStep
  BY <1>1, <1>9 DEF PoolStep, RetentionStep, RetentionTick, SelectorStep,
                    ServerStep, ClientStep
<1>10. CASE UNCHANGED vars
  BY <1>1, <1>10 DEF vars
<1> QED BY <1>2, <1>3, <1>4, <1>5, <1>6, <1>7, <1>8, <1>9, <1>10 DEF Next, MainStep

ComponentTypes == Pool!TypeOK /\ Retention!TypeOK /\ Selector!TypeOK

LEMMA InitTypes == Init => MainType /\ ComponentTypes
<1> SUFFICES ASSUME Init PROVE MainType /\ ComponentTypes
  OBVIOUS
<1>0. ASSUME NEW S PROVE <<>> \in [{} -> S]
  OBVIOUS
<1>1. MainType
  BY DEF Init, MainType, Locations
<1>2. Pool!TypeOK
  <2>1. Pool!Capacity \in Nat
    BY DEF Pool!Capacity, Pool!Workers
  <2>2. /\ poolRunning \in BOOLEAN /\ poolStarts \in 0..1
        /\ poolClosed \in BOOLEAN /\ poolPanicked \in BOOLEAN
        /\ poolPc \in [PoolWorkers -> {"off", "select"} \cup Pool!Processing]
        /\ poolWatching \in [PoolWorkers -> 0..1]
    <3>1. /\ poolRunning = FALSE /\ poolStarts = 0 /\ poolClosed = FALSE
          /\ poolPc = [w \in PoolWorkers |-> "off"]
          /\ poolWatching = [w \in PoolWorkers |-> 0]
          /\ poolPanicked = FALSE
      BY Zenon DEF Init, Pool!Init
    <3>2. poolStarts \in 0..1 /\ poolWatching \in [PoolWorkers -> 0..1]
      <4>1. 0 \in 0..1
        OBVIOUS
      <4> QED BY <3>1, <4>1, Zenon
    <3> QED BY <3>1, <3>2, Zenon
  <2>3. <<>> \in Seq({}) /\ Len(<<>>) <= Pool!Capacity
    BY <2>1
  <2>4. [w \in PoolWorkers |-> NoOne] \in [PoolWorkers -> {} \cup {NoOne}]
    OBVIOUS
  <2> QED BY <2>2, <2>3, <2>4, <1>0 DEF Pool!TypeOK
<1>3. Retention!TypeOK
  <2>1. /\ keepPc \in [Retention!Goroutines -> Retention!Locations]
        /\ keepOp \in [Retention!Goroutines ->
                          Retention!Calls \cup {"none", "tick", "exit"}]
    BY DEF Init, Retention!Init, Retention!Goroutines, Retention!Locations
  <2>2. /\ keepMu \in Retention!Goroutines \cup {NoOne}
        /\ keepRunning \in BOOLEAN /\ keepChan \in {"nil", "open", "closed"}
        /\ keepTicking \in BOOLEAN /\ keepTick \in BOOLEAN
        /\ keepCount \in Nat \ {0} /\ keepStops \in 0..2
        /\ keepPanicked \in BOOLEAN
    <3>1. /\ keepMu = NoOne /\ keepRunning = FALSE /\ keepChan = "nil"
          /\ keepTicking = FALSE /\ keepTick = FALSE /\ keepCount \in {2}
          /\ keepStops = 0 /\ keepPanicked = FALSE
      BY Zenon DEF Init, Retention!Init
    <3>2. keepCount \in Nat \ {0} /\ keepStops \in 0..2
      <4>1. 2 \in Nat \ {0} /\ 0 \in 0..2
        OBVIOUS
      <4> QED BY <3>1, <4>1, Zenon
    <3> QED BY <3>1, <3>2, Zenon
  <2> QED BY <2>1, <2>2, <1>0 DEF Retention!TypeOK
<1>4. Selector!TypeOK
  <2>1. /\ healRunning \in BOOLEAN /\ healChan \in {"nil", "open", "closed"}
        /\ healTick \in BOOLEAN
        /\ healLoop \in [{RecoveryLoop} -> {"none", "select", "woken", "leaving"}]
        /\ healRate \in [{RecoveryLoop} -> 0..100]
        /\ healStops \in 0..2 /\ healPanicked \in BOOLEAN
    <3>1. /\ healRunning = FALSE /\ healChan = "nil" /\ healTick = FALSE
          /\ healLoop = [l \in {RecoveryLoop} |-> "none"]
          /\ healRate = [l \in {RecoveryLoop} |-> 0]
          /\ healStops = 0 /\ healPanicked = FALSE
      BY Zenon DEF Init, Selector!Init
    <3>2. healRate \in [{RecoveryLoop} -> 0..100] /\ healStops \in 0..2
      <4>1. 0 \in 0..100 /\ 0 \in 0..2
        OBVIOUS
      <4> QED BY <3>1, <4>1, Zenon
    <3> QED BY <3>1, <3>2, Zenon
  <2>2. <<>> \in Seq({}) /\ Selector!IsInjective(<<>>)
    BY DEF Selector!IsInjective
  <2> QED BY <2>1, <2>2, <1>0 DEF Selector!TypeOK
<1> QED BY <1>1, <1>2, <1>3, <1>4 DEF ComponentTypes

(* Every variable of the daemon, and of its components, keeps its type.    *)
THEOREM TypeCorrect == Spec => []TypeOK
<1>1. ASSUME AppInv, MainType, ComponentTypes, [Next]_vars
      PROVE  (MainType /\ ComponentTypes)'
  <2>1. Pool!TypeOK' /\ Retention!TypeOK'
    BY <1>1, PoolNext, KeepNext, PoolTypeStep, KeepTypeStep DEF ComponentTypes
  <2>2. Selector!TypeOK'
    BY <1>1, HealNext, HealTypeStep DEF ComponentTypes, AppInv
  <2> QED BY <1>1, <2>1, <2>2, MainTypeStep DEF ComponentTypes
<1>2. ASSUME MainType, ComponentTypes, ServerProofs!IInv PROVE TypeOK
  <2>1. Server!TypeOK
    BY <1>2 DEF ServerProofs!IInv, ServerProofs!TypeOK, Server!TypeOK,
       ServerProofs!Handling, Server!Handling, ServerProofs!Ended, Server!Ended,
       ServerProofs!Pacman, Server!Pacman
  <2> QED BY <1>2, <2>1 DEF MainType, ComponentTypes, TypeOK
<1> QED BY <1>1, <1>2, InitTypes, Invariant, PTL DEF Spec
=============================================================================
