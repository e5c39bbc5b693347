------------------------------ MODULE Application ------------------------------
(***************************************************************************)
(* cmd/trinity-cache/main.go: one daemon from its configuration to its     *)
(* exit status.  Main loads the configuration, builds and starts the       *)
(* components in the order of NewApplication, waits for a signal and stops *)
(* them in the order of Shutdown, while their goroutines run.              *)
(*                                                                         *)
(* The components are WorkerPool, RetentionManager, MirrorSelector and     *)
(* HTTPServer, with Main as their only caller.  The daemon queues no task, *)
(* calls no enforcement and adds no package, so their variables about      *)
(* tasks, files and weights are constants here.                            *)
(***************************************************************************)
EXTENDS Configuration

CONSTANTS
  Main,        \* the main goroutine
  Files,       \* configuration files it may be given
  NoConfig,
  PoolWorkers, Requested, MaxWorkers, \* of the pool
  RetentionLoop, RecoveryLoop,     \* the goroutines of the two periodic tasks
  NoOne,
  Requests, Paths, NoPath, Digits, \* of the server
  StorageFaults, \* TRUE iff a directory may be impossible to create
  Minute,    \* a minute as a time.Duration: 60 * 10^9
  Limit      \* a time.Duration is in -Limit .. Limit - 1: 2^63

ASSUME ApplicationAssumption ==
  /\ Main # RetentionLoop /\ NoOne \notin {Main, RetentionLoop}
  /\ \A file \in Files :
       /\ \A i \in DOMAIN file.mirrors : file.mirrors[i].timeout \in Int
       /\ \A f \in DOMAIN Standard : file.number[f] \in Int
  /\ Requested \in Int /\ MaxWorkers \in Nat \ {0}
  /\ \A p \in Paths : p.dirs \in Seq(STRING) /\ p.file.parts \in Seq(STRING)
  /\ StorageFaults \in BOOLEAN
  /\ Minute \in Nat \ {0} /\ Limit \in Nat \ {0}

VARIABLES
  main,     \* where the main goroutine is
  cfg,      \* its configuration, or NoConfig
  signal,   \* app.shutdown holds a signal
  deadline, \* the context of Shutdown: "none", "live" or "expired"
  status,   \* "alive", or the exit status: "0", "1", "2" after a panic of
            \* NewTicker, or "killed"
  poolRunning, poolStarts, poolClosed, poolPc, poolWatching, poolPanicked,
  keepPc, keepOp, keepMu, keepRunning, keepChan, keepTicking, keepTick,
  keepCount, keepStops, keepPanicked,
  healRunning, healChan, healTick, healLoop, healRate, healStops, healPanicked,
  running, shutdownChan, allDone, activeRequests, pc, ctx, doneChan, result,
  inShutdown, listener, stage, path, starts, misused, panicked

mainVars == <<main, cfg, signal, deadline, status>>
poolVars == <<poolRunning, poolStarts, poolClosed, poolPc, poolWatching,
              poolPanicked>>
keepVars == <<keepPc, keepOp, keepMu, keepRunning, keepChan, keepTicking,
              keepTick, keepCount, keepStops, keepPanicked>>
healVars == <<healRunning, healChan, healTick, healLoop, healRate, healStops,
              healPanicked>>
serverVars == <<running, shutdownChan, allDone, activeRequests, pc, ctx,
                doneChan, result, inShutdown, listener, stage, path, starts,
                misused, panicked>>
vars == <<mainVars, poolVars, keepVars, healVars, serverVars>>

Pool == INSTANCE WorkerPool WITH
  Tasks <- {}, Goroutines <- PoolWorkers, NoTask <- NoOne,
  MaxStarts <- 1,
  running <- poolRunning, starts <- poolStarts, closed <- poolClosed,
  queue <- <<>>, caller <- <<>>, done <- <<>>, pc <- poolPc,
  task <- [w \in PoolWorkers |-> NoOne], watching <- poolWatching,
  total <- 0, successful <- 0, failed <- 0, panicked <- poolPanicked

Retention == INSTANCE RetentionManager WITH
  Callers <- {Main}, Loops <- {RetentionLoop}, Packages <- {}, Nested <- {},
  NoPackage <- "none", Versions <- {}, Counts <- {2}, MaxAdds <- 0,
  MaxStops <- 2, Ticks <- TRUE, Faults <- FALSE,
  pc <- keepPc, op <- keepOp, mu <- keepMu, running <- keepRunning,
  stopChan <- keepChan, ticking <- keepTicking, tick <- keepTick,
  retentionCount <- keepCount, stored <- <<>>, todo <- {}, current <- "none",
  victims <- {}, dirty <- {}, adds <- 0, stops <- keepStops,
  panicked <- keepPanicked

Selector == INSTANCE MirrorSelector WITH
  Mirrors <- {}, NoMirror <- NoOne, BaseWeight <- <<>>, Fetchers <- {},
  Loops <- {RecoveryLoop}, Rates <- 1..100, Charges <- {}, MaxStops <- 2,
  mirrors <- <<>>, effective <- <<>>, age <- <<>>, inFlight <- <<>>,
  fetcher <- <<>>, using <- <<>>, owed <- <<>>,
  recoveryRunning <- healRunning, stopChan <- healChan, tick <- healTick,
  loop <- healLoop, rate <- healRate, stops <- healStops,
  panicked <- healPanicked

Server == INSTANCE HTTPServer WITH Callers <- {Main}, MaxStarts <- 1

Locations ==
  {"load", "check", "cache", "recovery", "downloader", "pool", "count",
   "periodic", "built", "run", "start", "wait", "stopPool", "drain",
   "stopRecovery", "stopRetention", "stopServer", "finish"}

(* Where a location says how far NewApplication has come.                  *)
Building ==
  {"cache", "recovery", "downloader", "pool", "count", "periodic", "built"}

TypeOK ==
  /\ main \in Locations
  /\ cfg = NoConfig \/ InRange(cfg)
  /\ signal \in BOOLEAN
  /\ deadline \in {"none", "live", "expired"}
  /\ status \in {"alive", "0", "1", "2", "killed"}
  /\ Pool!TypeOK /\ Retention!TypeOK /\ Selector!TypeOK /\ Server!TypeOK

Init ==
  /\ main = "load"
  /\ cfg = NoConfig
  /\ signal = FALSE
  /\ deadline = "none"
  /\ status = "alive"
  /\ Pool!Init /\ Retention!Init /\ Selector!Init /\ Server!Init

Goto(location) == main' = location /\ UNCHANGED <<signal, deadline, status>>

Exit(code) == status' = code /\ UNCHANGED <<main, cfg, signal, deadline>>

OnlyMain == UNCHANGED <<poolVars, keepVars, healVars, serverVars>>

-----------------------------------------------------------------------------
(* main.                                                                   *)
LoadFile(file) ==
  /\ main = "load"
  /\ IF Validate(WithDefaults(file))
     THEN cfg' = WithDefaults(file) /\ Goto("check") ELSE Exit("1")
  /\ OnlyMain

(* The file cannot be read, or is no YAML.                                 *)
LoadFails == main = "load" /\ Exit("1") /\ OnlyMain

NoFile == main = "load" /\ cfg' = Default /\ Goto("check") /\ OnlyMain

CheckMirrors ==
  /\ main = "check"
  /\ IF cfg.mirrors = <<>> THEN Exit("1") ELSE Goto("cache") /\ UNCHANGED cfg
  /\ OnlyMain

(* NewApplication.  The storage path and the directory for temporary files *)
(* are created if they can be.                                             *)
MakeDirectory ==
  /\ \/ main = "cache" /\ Goto("recovery")
     \/ main = "downloader" /\ Goto("pool")
  /\ UNCHANGED cfg
  /\ OnlyMain

StorageFails ==
  /\ StorageFaults
  /\ main \in {"cache", "downloader"}
  /\ Exit("1")
  /\ OnlyMain

(* Minutes become a time.Duration, which wraps around as int64 does.       *)
Duration(minutes) == ((minutes * Minute + Limit) % (2 * Limit)) - Limit

(* No configuration is too large for Load, and time.NewTicker panics when  *)
(* what comes of the interval is not positive.                             *)
RecoveryPanics ==
  /\ main = "recovery"
  /\ Duration(cfg.number.recovery_interval) <= 0
  /\ Exit("2")
  /\ OnlyMain

StartRecovery ==
  /\ main = "recovery"
  /\ Duration(cfg.number.recovery_interval) > 0
  /\ Selector!StartRecovery(cfg.number.recovery_rate)
  /\ Goto("downloader")
  /\ UNCHANGED <<cfg, poolVars, keepVars, serverVars>>

(* Mutation: the pool is made, and not started.                            *)
SkipStartPool == main = "pool" /\ Goto("count") /\ UNCHANGED cfg /\ OnlyMain

StartPool ==
  /\ main = "pool"
  /\ Pool!Start
  /\ Goto("count")
  /\ UNCHANGED <<cfg, keepVars, healVars, serverVars>>

SetRetentionCount ==
  /\ main = "count"
  /\ IF cfg.number.keep_versions >= 1
     THEN Retention!Call(Main, "set") /\ Goto("periodic") /\ UNCHANGED cfg
     ELSE Exit("1") /\ UNCHANGED keepVars
  /\ UNCHANGED <<poolVars, healVars, serverVars>>

Returned == keepPc[Main] = "idle"

StartRetention ==
  /\ main = "periodic" /\ Returned
  /\ Retention!Call(Main, "start")
  /\ Goto("built")
  /\ UNCHANGED <<cfg, poolVars, healVars, serverVars>>

(* The tracker, the server and the fetch manager are made of what is there *)
(* and cannot fail.  The configuration is not looked at any more.          *)
Built ==
  /\ main = "built" /\ Returned
  /\ cfg' = NoConfig
  /\ Goto("run")
  /\ OnlyMain

-----------------------------------------------------------------------------
(* Run: signal.Notify comes first; before it a signal ends the process.    *)
Notify == main = "run" /\ Goto("start") /\ UNCHANGED cfg /\ OnlyMain

StartServer ==
  /\ main = "start"
  /\ Server!Start(Main)
  /\ Goto("wait")
  /\ UNCHANGED <<cfg, poolVars, keepVars, healVars>>

(* A signal that finds one waiting is dropped, and nobody receives those   *)
(* that come during the shutdown.                                          *)
Signal ==
  /\ IF main \in {"load", "check", "run"} \cup Building
     THEN Exit("killed")
     ELSE signal' = TRUE /\ UNCHANGED <<main, cfg, deadline, status>>
  /\ OnlyMain

(* Shutdown begins with the 30 seconds that are for all of it.             *)
Receive ==
  /\ main = "wait" /\ signal
  /\ main' = "stopPool" /\ signal' = FALSE /\ deadline' = "live"
  /\ UNCHANGED <<cfg, status>>
  /\ OnlyMain

StopPool ==
  /\ main = "stopPool"
  /\ IF poolRunning
     THEN Pool!Stop /\ Goto("drain") /\ UNCHANGED cfg
     ELSE Exit("1") /\ UNCHANGED poolVars
  /\ UNCHANGED <<keepVars, healVars, serverVars>>

WaitForCompletion ==
  /\ main = "drain"
  /\ \A w \in PoolWorkers : poolPc[w] = "off"
  /\ Goto("stopRecovery")
  /\ UNCHANGED cfg
  /\ OnlyMain

(* Mutation: recovery is stopped twice, as by a deferred Stop.             *)
StopRecoveryAgain ==
  /\ main = "stopRecovery"
  /\ Selector!Stop
  /\ main' \in {main, "stopRetention"}
  /\ UNCHANGED <<cfg, signal, deadline, status, poolVars, keepVars, serverVars>>

StopRecovery ==
  /\ main = "stopRecovery"
  /\ Selector!Stop
  /\ Goto("stopRetention")
  /\ UNCHANGED <<cfg, poolVars, keepVars, serverVars>>

StopRetention ==
  /\ main = "stopRetention"
  /\ Retention!Call(Main, "stop")
  /\ Goto("stopServer")
  /\ UNCHANGED <<cfg, poolVars, healVars, serverVars>>

(* Mutation: the server is not given the deadline.                         *)
ShutdownServerPatiently ==
  /\ main = "stopServer" /\ Returned
  /\ Server!BeginShutdown(Main, "endless")
  /\ Goto("finish")
  /\ UNCHANGED <<cfg, poolVars, keepVars, healVars>>

ShutdownServer ==
  /\ main = "stopServer" /\ Returned
  /\ Server!BeginShutdown(Main, deadline)
  /\ Goto("finish")
  /\ UNCHANGED <<cfg, poolVars, keepVars, healVars>>

(* Mutation: the error of the server is forgotten.                         *)
FinishAnyway ==
  /\ main = "finish" /\ pc[Main] = "idle"
  /\ Exit("0")
  /\ OnlyMain

Finish ==
  /\ main = "finish" /\ pc[Main] = "idle"
  /\ Exit(IF result[Main] = "nil" THEN "0" ELSE "1")
  /\ OnlyMain

Expire ==
  /\ deadline = "live"
  /\ deadline' = "expired"
  /\ IF ctx[Main] = "live" THEN Server!Expire(Main) ELSE UNCHANGED serverVars
  /\ UNCHANGED <<main, cfg, signal, status, poolVars, keepVars, healVars>>

-----------------------------------------------------------------------------
PoolStep(w) ==
  Pool!Work(w) /\ UNCHANGED <<mainVars, keepVars, healVars, serverVars>>

RetentionStep(g) ==
  Retention!Proceed(g) /\ UNCHANGED <<mainVars, poolVars, healVars, serverVars>>

RetentionTick ==
  Retention!Tick /\ UNCHANGED <<mainVars, poolVars, healVars, serverVars>>

SelectorStep ==
  /\ Selector!Tick \/ Selector!RecoverWeights(RecoveryLoop)
  /\ UNCHANGED <<mainVars, poolVars, keepVars, serverVars>>

ServerStep ==
  /\ Server!Shutdown(Main) \/ Server!Net
  /\ UNCHANGED <<mainVars, poolVars, keepVars, healVars>>

ClientStep ==
  /\ \E r \in Requests :
       Server!Accept(r) \/ Server!Disconnect(r) \/ Server!Handle(r)
  /\ UNCHANGED <<mainVars, poolVars, keepVars, healVars>>

Panicked == poolPanicked \/ keepPanicked \/ healPanicked \/ panicked

Alive == status = "alive" /\ ~Panicked

MainStep ==
  \/ LoadFails \/ NoFile \/ \E file \in Files : LoadFile(file)
  \/ CheckMirrors \/ MakeDirectory \/ StorageFails
  \/ RecoveryPanics \/ StartRecovery \/ StartPool \/ SetRetentionCount
  \/ StartRetention \/ Built
  \/ Notify \/ StartServer \/ Receive
  \/ StopPool \/ WaitForCompletion \/ StopRecovery \/ StopRetention
  \/ ShutdownServer \/ Finish

Next ==
  /\ Alive
  /\ \/ MainStep \/ Signal \/ Expire
     \/ \E w \in PoolWorkers : PoolStep(w)
     \/ \E g \in {Main, RetentionLoop} : RetentionStep(g)
     \/ RetentionTick \/ SelectorStep \/ ServerStep \/ ClientStep

(* Goroutines run, timers fire.  Signals, clients and the retention ticker *)
(* may come or not, and a handler may never end.                           *)
Fairness ==
  /\ WF_vars(Alive /\ MainStep) /\ WF_vars(Alive /\ Expire)
  /\ \A w \in PoolWorkers : WF_vars(Alive /\ PoolStep(w))
  /\ \A g \in {Main, RetentionLoop} :
       WF_vars(Alive /\ RetentionStep(g))
       /\ SF_vars(Alive /\ RetentionStep(g) /\ keepPc[g] = "lock")
  /\ WF_vars(Alive /\ SelectorStep) /\ WF_vars(Alive /\ ServerStep)

Spec == Init /\ [][Next]_vars /\ Fairness

-----------------------------------------------------------------------------
(* However its goroutines interleave, the daemon uses its components so    *)
(* that none of them closes a channel twice: what several callers, or a    *)
(* caller that stops twice, can bring about in each of them.               *)
NeverPanics == ~Panicked

(* A configuration Load accepts is in the ranges CONFIG.md gives, though   *)
(* Validate lets zeros pass, and the components accept it but for one      *)
(* field: what makes the daemon fail while it is built is the storage, or  *)
(* a recovery interval of more minutes than a Duration holds, and after a  *)
(* signal the deadline.                                                    *)
FailureHasCause ==
  /\ status = "1" =>
       \/ main \in {"load", "check"}
       \/ main \in {"cache", "downloader"} /\ StorageFaults
       \/ main = "finish" /\ deadline = "expired"
  /\ status = "2" =>
       main = "recovery" /\ cfg.number.recovery_interval * Minute >= Limit

(* Status 0 means that nothing was cut off: no worker and no request is    *)
(* under way, no client can connect, and the periodic tasks were told.     *)
CleanExit ==
  status = "0" =>
    /\ \A w \in PoolWorkers : poolPc[w] = "off"
    /\ \A r \in Requests : stage[r] \notin Server!Handling \cup {"new"}
    /\ listener # "listening" /\ activeRequests = 0
    /\ keepChan = "closed" /\ healChan = "closed"

(* CONFIG.md: "Graceful shutdown": after a signal the daemon exits, also   *)
(* when a handler never ends, unless the retention loop has come to wait   *)
(* for its own mutex: then retention.Stop waits for it too, the server is  *)
(* never shut down and no further signal is received.                      *)
ShutdownEnds == signal /\ main = "wait" ~> status # "alive" \/ Retention!Stuck
=============================================================================
