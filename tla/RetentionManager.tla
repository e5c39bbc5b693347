--------------------------- MODULE RetentionManager ---------------------------
(***************************************************************************)
(* internal/cache/retention_manager.go: the mutex, the periodic loop with  *)
(* its channels, and EnforceNow over a FilesystemCache that others add to  *)
(* at any time.                                                            *)
(*                                                                         *)
(* A goroutine is a caller of the exported methods or a periodic loop.     *)
(* sync.Mutex is not reentrant: every Lock waits for mu to be free, also   *)
(* that of a goroutine which holds it already.                             *)
(***************************************************************************)
EXTENDS Integers, FiniteSets

CONSTANTS
  Callers,  \* goroutines that call the exported methods
  Loops,    \* names for enforcementLoop goroutines
  NoOne,    \* holder of a free mutex
  Packages, \* directories under storage_path
  Nested,   \* those that hold their files in os/<arch>, as the server does
  NoPackage,
  Versions, \* version numbers, in the lexicographic order of their strings
  Counts,   \* retention counts that may be set
  MaxAdds,  \* bound on the files added to the cache
  MaxStops, \* bound on the calls of Stop
  Ticks,    \* TRUE iff the ticker may fire
  Faults    \* TRUE iff reading a directory or removing a file may fail

ASSUME RetentionManagerAssumption ==
  /\ Callers \cap Loops = {}
  /\ NoOne \notin Callers \cup Loops
  /\ Nested \subseteq Packages
  /\ NoPackage \notin Packages
  /\ Versions \subseteq Int /\ IsFiniteSet(Versions)
  /\ Counts \subseteq Nat \ {0}
  /\ MaxAdds \in Nat /\ MaxStops \in Nat
  /\ Ticks \in BOOLEAN /\ Faults \in BOOLEAN

VARIABLES
  pc,             \* pc[g]: where goroutine g is
  op,             \* op[g]: what g wants the mutex for
  mu,             \* the goroutine that holds rm.mu
  running,        \* rm.running
  stopChan,       \* rm.stopChan: "nil", "open" or "closed"
  ticking,        \* rm.ticker has not been stopped
  tick,           \* a tick waits in rm.ticker.C
  retentionCount, \* rm.retentionCount
  stored,         \* stored[p]: the versions of p on disk
  todo,           \* directories EnforceNow has not reached yet
  current,        \* the directory it is trimming
  victims,        \* versions RetainMostRecent is going to remove
  dirty,          \* directories changed, or not trimmed, since EnforceNow last
                  \* looked at them
  adds, stops,    \* bounded by MaxAdds and MaxStops
  panicked        \* TRUE once a closed channel was closed

lockVars == <<pc, op, mu>>
loopVars == <<running, stopChan, ticking, tick>>
scanVars == <<todo, current, victims>>
fileVars == <<stored, dirty>>
boundVars == <<adds, stops, panicked>>
vars == <<lockVars, loopVars, retentionCount, scanVars, fileVars, boundVars>>

Goroutines == Callers \cup Loops

(* "idle" is a caller between calls, or a loop that does not exist.        *)
Locations == {"idle", "lock", "held", "scan", "retain", "select"}

Calls == {"start", "stop", "enforce", "set"}

TypeOK ==
  /\ pc \in [Goroutines -> Locations]
  /\ op \in [Goroutines -> Calls \cup {"none", "tick", "exit"}]
  /\ mu \in Goroutines \cup {NoOne}
  /\ running \in BOOLEAN
  /\ stopChan \in {"nil", "open", "closed"}
  /\ ticking \in BOOLEAN
  /\ tick \in BOOLEAN
  /\ retentionCount \in Nat \ {0}
  /\ stored \in [Packages -> SUBSET Versions]
  /\ todo \in SUBSET Packages
  /\ current \in Packages \cup {NoPackage}
  /\ victims \in SUBSET Versions
  /\ dirty \in SUBSET Packages
  /\ adds \in 0..MaxAdds
  /\ stops \in 0..MaxStops
  /\ panicked \in BOOLEAN

(* NewRetentionManager over a cache that already holds files.              *)
Init ==
  /\ pc = [g \in Goroutines |-> "idle"]
  /\ op = [g \in Goroutines |-> "none"]
  /\ mu = NoOne
  /\ running = FALSE
  /\ stopChan = "nil"
  /\ ticking = FALSE
  /\ tick = FALSE
  /\ retentionCount \in Counts
  /\ stored \in [Packages -> SUBSET Versions]
  /\ todo = {}
  /\ current = NoPackage
  /\ victims = {}
  /\ dirty = Packages
  /\ adds = 0
  /\ stops = 0
  /\ panicked = FALSE

At(g, location, what) == pc[g] = location /\ op[g] = what

Goto(g, location, what) ==
  /\ pc' = [pc EXCEPT ![g] = location]
  /\ op' = [op EXCEPT ![g] = what]

(* The deferred Unlock, at the end of every method.                        *)
Return(g) ==
  /\ Goto(g, "idle", "none")
  /\ mu' = NoOne

-----------------------------------------------------------------------------
Call(c, what) ==
  /\ At(c, "idle", "none")
  /\ what = "stop" => stops < MaxStops
  /\ Goto(c, "lock", what)
  /\ stops' = IF what = "stop" THEN stops + 1 ELSE stops
  /\ UNCHANGED <<mu, loopVars, retentionCount, scanVars, fileVars, adds,
                 panicked>>

(* rm.mu.Lock().                                                           *)
Acquire(g) ==
  /\ pc[g] = "lock"
  /\ mu = NoOne
  /\ mu' = g
  /\ pc' = [pc EXCEPT ![g] = "held"]
  /\ UNCHANGED <<op, loopVars, retentionCount, scanVars, fileVars, boundVars>>

(* A count below one is refused before the mutex is taken.                 *)
SetRetentionCount(c) ==
  /\ At(c, "held", "set")
  /\ retentionCount' \in Counts
  /\ dirty' = Packages
  /\ Return(c)
  /\ UNCHANGED <<loopVars, scanVars, stored, boundVars>>

-----------------------------------------------------------------------------
(* StartPeriodicEnforcement: a new channel, a new ticker, a new goroutine. *)
Free == {l \in Loops : pc[l] = "idle"}

(* Which name the new goroutine gets makes no difference.                  *)
StartLoop(c) ==
  /\ At(c, "held", "start")
  /\ ~running
  /\ Free # {}
  /\ pc' = [pc EXCEPT ![c] = "idle", ![CHOOSE l \in Free : TRUE] = "select"]
  /\ op' = [op EXCEPT ![c] = "none"]
  /\ mu' = NoOne
  /\ running' = TRUE
  /\ stopChan' = "open"
  /\ ticking' = TRUE
  /\ tick' = FALSE
  /\ UNCHANGED <<retentionCount, scanVars, fileVars, boundVars>>

StartIgnored(c) ==
  /\ At(c, "held", "start")
  /\ running
  /\ Return(c)
  /\ UNCHANGED <<running, stopChan, ticking, tick, retentionCount, scanVars,
                 fileVars, boundVars>>

(* Mutation: Stop clears running itself instead of leaving it to the loop. *)
StopClears(c) ==
  /\ At(c, "held", "stop")
  /\ running
  /\ Return(c)
  /\ stopChan' = "closed"
  /\ panicked' = (stopChan = "closed")
  /\ running' = FALSE
  /\ ticking' = FALSE
  /\ UNCHANGED <<tick, retentionCount, scanVars, fileVars, adds, stops>>

(* Stop: running stays TRUE until the loop has seen the closed channel, so *)
(* a second Stop before that closes it again, which panics.  A tick that   *)
(* waits in the ticker's channel is not drained.                           *)
Stop(c) ==
  /\ At(c, "held", "stop")
  /\ running
  /\ Return(c)
  /\ stopChan' = "closed"
  /\ panicked' = (stopChan = "closed")
  /\ ticking' = FALSE
  /\ UNCHANGED <<running, tick, retentionCount, scanVars, fileVars, adds,
                 stops>>

StopIgnored(c) ==
  /\ At(c, "held", "stop")
  /\ ~running
  /\ Return(c)
  /\ UNCHANGED <<running, stopChan, ticking, tick, retentionCount, scanVars,
                 fileVars, boundVars>>

-----------------------------------------------------------------------------
(* enforcementLoop.  With both channels ready, select takes either.        *)
Tick ==
  /\ Ticks /\ ticking /\ ~tick
  /\ tick' = TRUE
  /\ UNCHANGED <<lockVars, running, stopChan, ticking, retentionCount,
                 scanVars, fileVars, boundVars>>

LoopTick(l) ==
  /\ pc[l] = "select" /\ tick
  /\ Goto(l, "lock", "tick")
  /\ tick' = FALSE
  /\ UNCHANGED <<mu, running, stopChan, ticking, retentionCount,
                 scanVars, fileVars, boundVars>>

(* The loop calls EnforceNow with the mutex held; EnforceNow locks it.     *)
LoopEnforce(l) ==
  /\ At(l, "held", "tick")
  /\ Goto(l, "lock", "enforce")
  /\ UNCHANGED <<mu, loopVars, retentionCount, scanVars, fileVars, boundVars>>

(* Mutation: the loop looks at stopChan when it is woken by a tick.        *)
LoopStopTicked(l) ==
  /\ pc[l] = "select" /\ stopChan = "closed" /\ tick
  /\ Goto(l, "lock", "exit")
  /\ UNCHANGED <<mu, loopVars, retentionCount, scanVars, fileVars, boundVars>>

LoopStop(l) ==
  /\ pc[l] = "select" /\ stopChan = "closed"
  /\ Goto(l, "lock", "exit")
  /\ UNCHANGED <<mu, loopVars, retentionCount, scanVars, fileVars, boundVars>>

LoopExit(l) ==
  /\ At(l, "held", "exit")
  /\ Return(l)
  /\ running' = FALSE
  /\ UNCHANGED <<stopChan, ticking, tick, retentionCount, scanVars,
                 fileVars, boundVars>>

-----------------------------------------------------------------------------
(* EnforceNow reads the list of directories once.                          *)
BeginScan(g) ==
  /\ At(g, "held", "enforce")
  /\ Goto(g, "scan", "enforce")
  /\ todo' = Packages
  /\ UNCHANGED <<mu, loopVars, retentionCount, current, victims,
                 fileVars, boundVars>>

(* Reading storage_path fails.                                             *)
ListFails(g) ==
  /\ Faults
  /\ At(g, "held", "enforce")
  /\ Return(g)
  /\ UNCHANGED <<loopVars, retentionCount, scanVars, fileVars, boundVars>>

(* Only ".pkg" files directly in the directory are counted.                *)
PkgCount(p) == IF p \in Nested THEN 0 ELSE Cardinality(stored[p])

(* Mutation: one version too many is tolerated.                            *)
SkipOneMore(g, p) ==
  /\ pc[g] = "scan" /\ current = NoPackage /\ p \in todo
  /\ PkgCount(p) <= retentionCount + 1
  /\ todo' = todo \ {p}
  /\ dirty' = dirty \ {p}
  /\ UNCHANGED <<lockVars, loopVars, retentionCount, current, victims,
                 stored, boundVars>>

SkipPackage(g, p) ==
  /\ pc[g] = "scan" /\ current = NoPackage /\ p \in todo
  /\ PkgCount(p) <= retentionCount
  /\ todo' = todo \ {p}
  /\ dirty' = dirty \ {p}
  /\ UNCHANGED <<lockVars, loopVars, retentionCount, current, victims,
                 stored, boundVars>>

CountPackage(g, p) ==
  /\ pc[g] = "scan" /\ current = NoPackage /\ p \in todo
  /\ PkgCount(p) > retentionCount
  /\ todo' = todo \ {p}
  /\ current' = p
  /\ UNCHANGED <<lockVars, loopVars, retentionCount, victims, fileVars,
                 boundVars>>

(* A directory that cannot be read is left for the next time.              *)
PackageFails(g, p) ==
  /\ Faults
  /\ pc[g] = "scan" /\ current = NoPackage /\ p \in todo
  /\ todo' = todo \ {p}
  /\ UNCHANGED <<lockVars, loopVars, retentionCount, current, victims,
                 fileVars, boundVars>>

(* The versions RetainMostRecent removes from a listing: all but the keep  *)
(* greatest.                                                               *)
Newer(S, v) == {w \in S : w > v}

(* Mutation: ListVersions sorts oldest first.                              *)
SurplusSorted(S, keep) ==
  {v \in S : Cardinality({w \in S : w < v}) >= keep}

Surplus(S, keep) == {v \in S : Cardinality(Newer(S, v)) >= keep}

(* RetainMostRecent lists the directory again before it removes anything.  *)
ListVersions(g) ==
  /\ pc[g] = "scan" /\ current # NoPackage
  /\ victims' = Surplus(stored[current], retentionCount)
  /\ dirty' = dirty \ {current}
  /\ Goto(g, "retain", "enforce")
  /\ UNCHANGED <<mu, loopVars, retentionCount, todo, current, stored,
                 boundVars>>

(* ListVersions fails, and RetainMostRecent with it.                       *)
VersionsFail(g) ==
  /\ Faults
  /\ pc[g] = "scan" /\ current # NoPackage
  /\ current' = NoPackage
  /\ UNCHANGED <<lockVars, loopVars, retentionCount, todo, victims, fileVars,
                 boundVars>>

(* They are removed newest first.                                          *)
NextVictim(v) == v \in victims /\ Newer(victims, v) = {}

Remove(g, v) ==
  /\ pc[g] = "retain" /\ NextVictim(v)
  /\ victims' = victims \ {v}
  /\ stored' = [stored EXCEPT ![current] = @ \ {v}]
  /\ UNCHANGED <<lockVars, loopVars, retentionCount, todo, current,
                 dirty, boundVars>>

(* A removal that fails is logged, and the next one is tried.              *)
RemoveFails(g, v) ==
  /\ Faults
  /\ pc[g] = "retain" /\ NextVictim(v)
  /\ victims' = victims \ {v}
  /\ dirty' = dirty \cup {current}
  /\ UNCHANGED <<lockVars, loopVars, retentionCount, todo, current,
                 stored, boundVars>>

(* RetainMostRecent returns.                                               *)
Trimmed(g) ==
  /\ pc[g] = "retain" /\ victims = {}
  /\ current' = NoPackage
  /\ Goto(g, "scan", "enforce")
  /\ UNCHANGED <<mu, loopVars, retentionCount, todo, victims, stored, dirty,
                 boundVars>>

(* Mutation: EnforceNow returns without unlocking.                         *)
EndScanLocked(g) ==
  /\ pc[g] = "scan" /\ todo = {} /\ current = NoPackage
  /\ Goto(g, "idle", "none")
  /\ UNCHANGED <<mu, loopVars, retentionCount, scanVars, fileVars, boundVars>>

EndScan(g) ==
  /\ pc[g] = "scan" /\ todo = {} /\ current = NoPackage
  /\ Return(g)
  /\ UNCHANGED <<loopVars, retentionCount, scanVars, fileVars, boundVars>>

(* FilesystemCache.Add and PutPackageFile do not take the mutex.           *)
Add(p, v) ==
  /\ adds < MaxAdds
  /\ v \notin stored[p]
  /\ stored' = [stored EXCEPT ![p] = @ \cup {v}]
  /\ dirty' = dirty \cup {p}
  /\ adds' = adds + 1
  /\ UNCHANGED <<lockVars, loopVars, retentionCount, scanVars, stops, panicked>>

-----------------------------------------------------------------------------
Enforce(g) ==
  \/ BeginScan(g) \/ ListFails(g)
  \/ \E p \in Packages :
       SkipPackage(g, p) \/ CountPackage(g, p) \/ PackageFails(g, p)
  \/ ListVersions(g) \/ VersionsFail(g)
  \/ \E v \in Versions : Remove(g, v) \/ RemoveFails(g, v)
  \/ Trimmed(g) \/ EndScan(g)

Proceed(g) ==
  /\ ~panicked
  /\ \/ Acquire(g) \/ Enforce(g)
     \/ g \in Callers /\ \/ SetRetentionCount(g)
                         \/ StartLoop(g) \/ StartIgnored(g)
                         \/ Stop(g) \/ StopIgnored(g)
     \/ g \in Loops /\ \/ LoopTick(g) \/ LoopEnforce(g)
                       \/ LoopStop(g) \/ LoopExit(g)

Next ==
  \/ \E g \in Goroutines : Proceed(g)
  \/ ~panicked /\ \E c \in Callers, what \in Calls : Call(c, what)
  \/ ~panicked /\ Tick
  \/ ~panicked /\ \E p \in Packages, v \in Versions : Add(p, v)

(* A goroutine that can run does, and a waiting Lock is served in time:    *)
(* sync.Mutex hands over to a waiter that starves.                         *)
Fairness ==
  /\ \A g \in Goroutines : WF_vars(Proceed(g)) /\ SF_vars(Acquire(g))

Spec == Init /\ [][Next]_vars /\ Fairness

-----------------------------------------------------------------------------
Alive(l) == pc[l] # "idle"

(* At most one loop exists, and running says whether one does: a second    *)
(* one would share, and lose, the channel that stops it.                   *)
OneLoop ==
  /\ \A l, k \in Loops : Alive(l) /\ Alive(k) => l = k
  /\ running <=> \E l \in Loops : Alive(l)

(* A version is only ever removed while retentionCount newer ones of its   *)
(* package are there, whatever is added meanwhile and whatever fails.      *)
NewestKept ==
  [][\A p \in Packages : \A v \in stored[p] \ stored'[p] :
       Cardinality(Newer(stored[p], v)) >= retentionCount]_vars

(* CONFIG.md: "The retention manager keeps only keep_versions recent       *)
(* versions per package and removes older ones": a directory EnforceNow    *)
(* has dealt with, and that did not change since, holds no more.           *)
AtMostKept ==
  \A p \in Packages \ dirty :
    p = current \/ Cardinality(stored[p]) <= retentionCount

(* The process has panicked, or the loop waits for the mutex it holds      *)
(* itself: nothing that needs the mutex happens after that.                *)
Stuck == panicked \/ \E l \in Loops : At(l, "lock", "enforce")

(* Every call of a method returns, also one that waits for a scan, unless  *)
(* the manager is stuck.                                                   *)
CallsReturn == \A c \in Callers : pc[c] = "lock" ~> pc[c] = "idle" \/ Stuck

(* After Stop the loop ends, and the manager can be started again, unless  *)
(* a tick came first: select takes either.                                 *)
LoopEnds == stopChan = "closed" ~> ~running \/ Stuck

(* CONFIG.md: "The enforcement runs every retention.enforcement_interval   *)
(* hours": a tick makes the loop enforce retention.                        *)
PeriodicEnforcement ==
  \A l \in Loops : At(l, "lock", "tick") ~> pc[l] = "scan"

=============================================================================
