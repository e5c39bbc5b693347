------------------------------- MODULE HTTPServer -------------------------------
(***************************************************************************)
(* internal/server/http_server.go from the outside: Start, Shutdown and    *)
(* WaitForShutdown, called by any goroutines in any order, against the     *)
(* connections and handlers of net/http.  What a handler does between its  *)
(* lookup and its answer is the subject of PackageServer.                  *)
(*                                                                         *)
(* s.mu only guards running, so each of its critical sections is one       *)
(* action.  net/http is modelled from how it is used: once inShutdown is   *)
(* set it never listens again, its Shutdown waits for every connection,    *)
(* its Close does not wait for handlers.                                   *)
(***************************************************************************)
EXTENDS PacmanRequest

CONSTANTS
  Callers,  \* goroutines that call the exported methods
  Requests, \* connections clients may open, with one request on each
  Paths,    \* paths they may ask for
  NoPath,
  MaxStarts \* bound on the calls of Start

ASSUME HTTPServerAssumption ==
  /\ \A p \in Paths : p.dirs \in Seq(STRING) /\ p.file.parts \in Seq(STRING)
  /\ MaxStarts \in Nat

VARIABLES
  running,        \* s.running
  shutdownChan,   \* s.shutdownChan: "open" or "closed"
  allDone,        \* s.allDone: "open" or "closed"
  activeRequests, \* s.activeRequests
  pc,             \* pc[c]: where caller c is
  ctx,            \* ctx[c]: its context: "live", "expired" or "endless"
  doneChan,       \* the goroutine in Shutdown: "none", "begun", "waiting", or
                  \* its result, "nil" or "error"
  result,         \* result[c]: what its last Shutdown returned
  inShutdown,     \* http.Server.inShutdown
  listener,       \* "off", "starting", "listening", "failed" or "closed"
  stage,          \* stage[r]: how far request r has come
  path,           \* path[r]: what its handler has parsed
  starts,         \* successful calls of Start
  misused,        \* two Shutdowns have overlapped, or Start came again
  panicked        \* TRUE once a closed channel was closed

serverVars == <<running, shutdownChan, allDone>>
callVars == <<pc, ctx, doneChan, result>>
netVars == <<inShutdown, listener>>
requestVars == <<activeRequests, stage, path>>
ghostVars == <<starts, misused, panicked>>
vars == <<serverVars, callVars, netVars, requestVars, ghostVars>>

(* "new" is a connection without a request, "aside" the handlers of stats, *)
(* metrics and health, which are not counted as active.                    *)
Pacman == {"entered", "fetch", "serve"}
Handling == Pacman \cup {"aside"}
Ended == {"served", "failed", "refused", "gone"}

TypeOK ==
  /\ running \in BOOLEAN
  /\ shutdownChan \in {"open", "closed"} /\ allDone \in {"open", "closed"}
  /\ activeRequests \in Nat
  /\ pc \in [Callers -> {"idle", "await", "closing", "select", "done", "stopped"}]
  /\ ctx \in [Callers -> {"live", "expired", "endless"}]
  /\ doneChan \in {"none", "begun", "waiting", "nil", "error"}
  /\ result \in [Callers -> {"none", "nil", "error"}]
  /\ inShutdown \in BOOLEAN
  /\ listener \in {"off", "starting", "listening", "failed", "closed"}
  /\ stage \in [Requests -> {"none", "new"} \cup Handling \cup Ended]
  /\ path \in [Requests -> Paths \cup {NoPath}]
  /\ starts \in 0..MaxStarts
  /\ misused \in BOOLEAN /\ panicked \in BOOLEAN

(* NewHTTPServer.                                                          *)
Init ==
  /\ running = FALSE
  /\ shutdownChan = "open" /\ allDone = "open"
  /\ activeRequests = 0
  /\ pc = [c \in Callers |-> "idle"]
  /\ ctx = [c \in Callers |-> "endless"]
  /\ doneChan = "none"
  /\ result = [c \in Callers |-> "none"]
  /\ inShutdown = FALSE
  /\ listener = "off"
  /\ stage = [r \in Requests |-> "none"]
  /\ path = [r \in Requests |-> NoPath]
  /\ starts = 0
  /\ misused = FALSE /\ panicked = FALSE

-----------------------------------------------------------------------------
Shutting(c) == pc[c] \in {"closing", "select", "done"}

(* ListenAndServe runs in a goroutine of its own; Start does not wait for  *)
(* it and returns nil whatever comes of it.                                *)
Start(c) ==
  /\ pc[c] = "idle"
  /\ ~running
  /\ starts < MaxStarts
  /\ running' = TRUE
  /\ listener' = "starting"
  /\ starts' = starts + 1
  /\ misused' = (misused \/ starts > 0)
  /\ UNCHANGED <<shutdownChan, allDone, callVars, inShutdown, requestVars,
                 panicked>>

(* Shutdown looks at running under the mutex, and goes on without it.      *)
BeginShutdown(c, context) ==
  /\ pc[c] = "idle"
  /\ running
  /\ pc' = [pc EXCEPT ![c] = "closing"]
  /\ ctx' = [ctx EXCEPT ![c] = context]
  /\ misused' = (misused \/ \E d \in Callers : Shutting(d))
  /\ UNCHANGED <<serverVars, doneChan, result, netVars, requestVars, starts,
                 panicked>>

RefuseShutdown(c) ==
  /\ pc[c] = "idle"
  /\ ~running
  /\ result' = [result EXCEPT ![c] = "error"]
  /\ UNCHANGED <<serverVars, pc, ctx, doneChan, netVars, requestVars, ghostVars>>

(* close(s.shutdownChan), which nobody else reads, and the goroutine.      *)
CloseShutdownChan(c) ==
  /\ pc[c] = "closing"
  /\ shutdownChan' = "closed"
  /\ panicked' = (shutdownChan = "closed")
  /\ pc' = [pc EXCEPT ![c] = "select"]
  /\ doneChan' = IF panicked' THEN doneChan ELSE "begun"
  /\ UNCHANGED <<running, allDone, ctx, result, netVars, requestVars, starts,
                 misused>>

Expire(c) ==
  /\ ctx[c] = "live"
  /\ ctx' = [ctx EXCEPT ![c] = "expired"]
  /\ UNCHANGED <<serverVars, pc, doneChan, result, netVars, requestVars,
                 ghostVars>>

(* Mutation: the goroutine is not waited for.                              *)
SelectAtOnce(c) ==
  /\ pc[c] = "select"
  /\ result' = [result EXCEPT ![c] = "nil"]
  /\ pc' = [pc EXCEPT ![c] = "done"]
  /\ UNCHANGED <<serverVars, ctx, doneChan, netVars, requestVars, ghostVars>>

SelectDone(c) ==
  /\ pc[c] = "select"
  /\ doneChan \in {"nil", "error"}
  /\ result' = [result EXCEPT ![c] = doneChan]
  /\ pc' = [pc EXCEPT ![c] = "done"]
  /\ UNCHANGED <<serverVars, ctx, doneChan, netVars, requestVars, ghostVars>>

(* The server stops listening; no connection is waited for.                *)
Unlisten ==
  /\ inShutdown' = TRUE
  /\ listener' = IF listener = "listening" THEN "closed" ELSE listener

(* Mutation: the timeout is reported, but nothing is closed.               *)
SelectTimeoutOnly(c) ==
  /\ pc[c] = "select"
  /\ ctx[c] = "expired"
  /\ result' = [result EXCEPT ![c] = "error"]
  /\ pc' = [pc EXCEPT ![c] = "done"]
  /\ UNCHANGED <<serverVars, ctx, doneChan, netVars, requestVars, ghostVars>>

(* With the result and the timeout both there, select takes either.  Close *)
(* ends the connections; a handler is not told, and runs on.               *)
SelectTimeout(c) ==
  /\ pc[c] = "select"
  /\ ctx[c] = "expired"
  /\ Unlisten
  /\ stage' = [r \in Requests |-> IF stage[r] = "new" THEN "gone" ELSE stage[r]]
  /\ result' = [result EXCEPT ![c] = "error"]
  /\ pc' = [pc EXCEPT ![c] = "done"]
  /\ UNCHANGED <<serverVars, ctx, doneChan, activeRequests, path, ghostVars>>

(* Mutation: running is left as it is.                                     *)
StillRunning(c) ==
  /\ pc[c] = "done"
  /\ pc' = [pc EXCEPT ![c] = "stopped"]
  /\ UNCHANGED <<serverVars, ctx, doneChan, result, netVars, requestVars,
                 ghostVars>>

StopRunning(c) ==
  /\ pc[c] = "done"
  /\ running' = FALSE
  /\ pc' = [pc EXCEPT ![c] = "stopped"]
  /\ UNCHANGED <<shutdownChan, allDone, ctx, doneChan, result, netVars,
                 requestVars, ghostVars>>

(* Mutation: allDone is only closed by a shutdown without error.           *)
EndIfClean(c) ==
  /\ pc[c] = "stopped"
  /\ allDone' = IF result[c] = "nil" THEN "closed" ELSE allDone
  /\ pc' = [pc EXCEPT ![c] = "idle"]
  /\ UNCHANGED <<running, shutdownChan, ctx, doneChan, result, netVars,
                 requestVars, ghostVars>>

(* close(s.allDone): only the caller that closed shutdownChan gets here.   *)
EndShutdown(c) ==
  /\ pc[c] = "stopped"
  /\ allDone' = "closed"
  /\ pc' = [pc EXCEPT ![c] = "idle"]
  /\ UNCHANGED <<running, shutdownChan, ctx, doneChan, result, netVars,
                 requestVars, ghostVars>>

WaitForShutdown(c) ==
  /\ \/ pc[c] = "idle" /\ pc' = [pc EXCEPT ![c] = "await"]
     \/ pc[c] = "await" /\ allDone = "closed" /\ pc' = [pc EXCEPT ![c] = "idle"]
  /\ UNCHANGED <<serverVars, ctx, doneChan, result, netVars, requestVars,
                 ghostVars>>

-----------------------------------------------------------------------------
(* net/http.                                                               *)
ListenAndServe ==
  /\ listener = "starting"
  /\ listener' \in IF inShutdown THEN {"closed"} ELSE {"listening", "failed"}
  /\ UNCHANGED <<serverVars, callVars, inShutdown, requestVars, ghostVars>>

NetShutdown ==
  /\ doneChan = "begun"
  /\ doneChan' = "waiting"
  /\ Unlisten
  /\ UNCHANGED <<serverVars, pc, ctx, result, requestVars, ghostVars>>

NetDone ==
  /\ doneChan = "waiting"
  /\ doneChan' \in
       {o \in {"nil", "error"} :
          IF o = "nil" THEN \A r \in Requests : stage[r] \notin Handling \cup {"new"}
          ELSE \E c \in Callers : pc[c] # "idle" /\ ctx[c] = "expired"}
  /\ UNCHANGED <<serverVars, pc, ctx, result, netVars, requestVars, ghostVars>>

Accept(r) ==
  /\ listener = "listening"
  /\ stage[r] = "none"
  /\ stage' = [stage EXCEPT ![r] = "new"]
  /\ UNCHANGED <<serverVars, callVars, netVars, activeRequests, path, ghostVars>>

(* The client gives up before it asks for anything, or Shutdown finds the  *)
(* connection idle.                                                        *)
Disconnect(r) ==
  /\ stage[r] = "new"
  /\ stage' = [stage EXCEPT ![r] = "gone"]
  /\ UNCHANGED <<serverVars, callVars, netVars, activeRequests, path, ghostVars>>

-----------------------------------------------------------------------------
(* handlePacmanRequest; the decrement is deferred.                         *)
Enter(r, p) ==
  /\ stage[r] = "new"
  /\ stage' = [stage EXCEPT ![r] = "entered"]
  /\ path' = [path EXCEPT ![r] = p]
  /\ activeRequests' = activeRequests + 1
  /\ UNCHANGED <<serverVars, callVars, netVars, ghostVars>>

Leave(r, outcome) ==
  /\ stage' = [stage EXCEPT ![r] = outcome]
  /\ path' = [path EXCEPT ![r] = NoPath]
  /\ activeRequests' = activeRequests - 1
  /\ UNCHANGED <<serverVars, callVars, netVars, ghostVars>>

(* 405 for a method other than GET and HEAD, 404 for a path that is not    *)
(* accepted.                                                               *)
Refuse(r) == stage[r] = "entered" /\ Leave(r, "refused")

(* A hit is served from the cache, a miss is fetched under Key(path[r]).   *)
Lookup(r) ==
  /\ stage[r] = "entered"
  /\ Accepted(path[r])
  /\ \E next \in {"serve", "fetch"} : stage' = [stage EXCEPT ![r] = next]
  /\ UNCHANGED <<serverVars, callVars, netVars, activeRequests, path, ghostVars>>

(* The fetch, and storing what was fetched, either succeeds or fails.      *)
Fetched(r) ==
  /\ stage[r] = "fetch"
  /\ stage' = [stage EXCEPT ![r] = "serve"]
  /\ UNCHANGED <<serverVars, callVars, netVars, activeRequests, path, ghostVars>>

FetchFails(r) == stage[r] = "fetch" /\ Leave(r, "failed")

Serve(r) == stage[r] = "serve" /\ Leave(r, "served")

(* handleStatsRequest, handleMetrics, handleMetricsSummary, handleHealth.  *)
Aside(r) ==
  /\ \/ stage[r] = "new" /\ stage' = [stage EXCEPT ![r] = "aside"]
     \/ stage[r] = "aside" /\ stage' = [stage EXCEPT ![r] = "served"]
  /\ UNCHANGED <<serverVars, callVars, netVars, activeRequests, path, ghostVars>>

-----------------------------------------------------------------------------
Shutdown(c) ==
  \/ CloseShutdownChan(c) \/ SelectDone(c) \/ SelectTimeout(c)
  \/ StopRunning(c) \/ EndShutdown(c)

Handle(r) ==
  \/ \E p \in Paths : Enter(r, p)
  \/ Refuse(r) \/ Lookup(r) \/ Fetched(r) \/ FetchFails(r) \/ Serve(r)
  \/ Aside(r)

Call(c) ==
  \/ Start(c) \/ RefuseShutdown(c)
  \/ \E context \in {"live", "expired", "endless"} : BeginShutdown(c, context)

Net == ListenAndServe \/ NetShutdown \/ NetDone

Next ==
  /\ ~panicked
  /\ \/ \E c \in Callers :
          Call(c) \/ Shutdown(c) \/ Expire(c) \/ WaitForShutdown(c)
     \/ Net
     \/ \E r \in Requests : Accept(r) \/ Disconnect(r) \/ Handle(r)

(* Goroutines of the server run, timers fire, and WaitForShutdown returns  *)
(* when it can; nothing is assumed of handlers and clients.                *)
Fairness ==
  /\ \A c \in Callers :
       /\ WF_vars(Shutdown(c) /\ ~panicked) /\ WF_vars(Expire(c) /\ ~panicked)
       /\ WF_vars(pc[c] = "await" /\ WaitForShutdown(c) /\ ~panicked)
  /\ WF_vars(Net /\ ~panicked)

Spec == Init /\ [][Next]_vars /\ Fairness

-----------------------------------------------------------------------------
(* server.go: "Shutdown gracefully shuts down the server": once a Shutdown *)
(* has returned nil no handler runs, none will, and none is counted.       *)
Drained ==
  (\E c \in Callers : result[c] = "nil" /\ pc[c] = "idle") =>
    /\ listener # "listening"
    /\ \A r \in Requests : stage[r] \notin Handling \cup {"new"}
    /\ activeRequests = 0

(* Whoever was released by WaitForShutdown can rely on it that no client   *)
(* connects any more, whether the shutdown was graceful or was cut off,    *)
(* and also when Start is called again: that only sets running.            *)
DownForGood == allDone = "closed" => listener # "listening"

(* No channel is closed twice, unless two calls of Shutdown overlap or     *)
(* Start is called again: running keeps every other caller away.           *)
NoPanic == panicked => misused

(* Two requests that are fetched under one key, and one of which is turned *)
(* away, ask for the same name, version and release, though maybe of       *)
(* different repositories and architectures.                               *)
KeyNamesFile ==
  \A r, s \in Requests :
    stage[r] = "fetch" /\ stage[s] = "fetch" /\ Key(path[r]) = Key(path[s]) =>
      path[r].file.parts = path[s].file.parts

(* A Shutdown with a deadline returns, and so does every WaitForShutdown,  *)
(* though a handler may never end: the timeout closes allDone too.         *)
ShutdownReleases ==
  \A c \in Callers :
    /\ pc[c] \in {"await", "closing"}
    /\ \E d \in Callers : pc[d] = "closing" /\ ctx[d] = "live"
    ~> pc[c] = "idle" \/ panicked
=============================================================================
