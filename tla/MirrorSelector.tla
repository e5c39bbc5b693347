----------------------------- MODULE MirrorSelector -----------------------------
(***************************************************************************)
(* internal/mirror/mirror.go: the weighted selector, its recovery          *)
(* goroutine, and the fetchers that select, use and penalize mirrors.      *)
(*                                                                         *)
(* Weights are in tenths and recovery rates in percent.  Every critical    *)
(* section of ws.mu is one action.  The logarithm of the time since the    *)
(* last use is replaced by its value at a few ages.                        *)
(***************************************************************************)
EXTENDS Integers, Sequences, FiniteSets, Functions

CONSTANTS
  Mirrors,   \* upstream mirrors
  NoMirror,
  BaseWeight, \* BaseWeight[m], in tenths
  Fetchers,  \* goroutines that use mirrors
  Loops,     \* names for recoverWeights goroutines
  Rates,     \* recovery rates StartRecovery may be called with, in percent
  Charges,   \* what a use may cost: sequences of penalties in tenths
  MaxStops   \* bound on the calls of Stop

ASSUME MirrorSelectorAssumption ==
  /\ NoMirror \notin Mirrors
  /\ BaseWeight \in [Mirrors -> Nat \ {0}]
  /\ IsFiniteSet(Fetchers)
  /\ Rates \subseteq Int
  /\ \A charge \in Charges : charge \in Seq(Nat \ {0}) /\ charge # <<>>
  /\ MaxStops \in Nat

VARIABLES
  mirrors,   \* ws.mirrors
  effective, \* EffectiveWeight of each mirror
  age,       \* time since LastUsed: "never", "now", "hour" or "day"
  inFlight,  \* InFlightDownloads of each mirror
  fetcher,   \* fetcher[f]: "idle", "chosen", "loading" or "charged"
  using,     \* using[f]: the mirror Select has returned to f
  owed,      \* owed[f]: penalties f is going to apply
  recoveryRunning, \* ws.recoveryRunning
  stopChan,  \* ws.stopChan: "nil", "open" or "closed"
  tick,      \* a tick waits in ws.recoveryTicker.C
  loop,      \* loop[l]: "none", "select", "woken" or "leaving"
  rate,      \* rate[l]: the recoveryRate of l
  stops,     \* calls of Stop, bounded by MaxStops
  panicked   \* TRUE once a closed channel was closed

weightVars == <<effective, age>>
fetchVars == <<inFlight, fetcher, using, owed>>
loopVars == <<recoveryRunning, stopChan, tick, loop, rate>>
vars == <<mirrors, weightVars, fetchVars, loopVars, stops, panicked>>

Ages == {"never", "now", "hour", "day"}

Known == {mirrors[i] : i \in 1..Len(mirrors)}

TypeOK ==
  /\ mirrors \in Seq(Mirrors) /\ IsInjective(mirrors)
  /\ effective \in [Mirrors -> Nat]
  /\ \A m \in Mirrors : effective[m] <= BaseWeight[m]
  /\ age \in [Mirrors -> Ages]
  /\ inFlight \in [Mirrors -> Nat]
  /\ fetcher \in [Fetchers -> {"idle", "chosen", "loading", "charged"}]
  /\ using \in [Fetchers -> Mirrors \cup {NoMirror}]
  /\ owed \in [Fetchers -> Seq(Nat)]
  /\ recoveryRunning \in BOOLEAN
  /\ stopChan \in {"nil", "open", "closed"}
  /\ tick \in BOOLEAN
  /\ loop \in [Loops -> {"none", "select", "woken", "leaving"}]
  /\ rate \in [Loops -> 0..100]
  /\ stops \in 0..MaxStops
  /\ panicked \in BOOLEAN

Init ==
  /\ mirrors = <<>>
  /\ effective = BaseWeight
  /\ age = [m \in Mirrors |-> "never"]
  /\ inFlight = [m \in Mirrors |-> 0]
  /\ fetcher = [f \in Fetchers |-> "idle"]
  /\ using = [f \in Fetchers |-> NoMirror]
  /\ owed = [f \in Fetchers |-> <<>>]
  /\ recoveryRunning = FALSE
  /\ stopChan = "nil"
  /\ tick = FALSE
  /\ loop = [l \in Loops |-> "none"]
  /\ rate = [l \in Loops |-> 0]
  /\ stops = 0
  /\ panicked = FALSE

Add(m) ==
  /\ m \notin Known
  /\ mirrors' = Append(mirrors, m)
  /\ UNCHANGED <<weightVars, fetchVars, loopVars, stops, panicked>>

-----------------------------------------------------------------------------
(* calculateScore is Weighted(m) / Load(n), n the in-flight downloads it   *)
(* has read: both are in hundredths.                                       *)
Boost(when) ==
  CASE when \in {"never", "now"} -> 100
    [] when = "hour" -> 169
    [] when = "day" -> 422

Weighted(m) == effective[m] * Boost(age[m])

Load(n) == 100 + n

ScoresMore(m, readM, n, readN) ==
  Weighted(m) * Load(readN) > Weighted(n) * Load(readM)

(* Mutation: every mirror with any weight replaces the one before it.      *)
WinnersLast(read) ==
  LET best[i \in 0..Len(mirrors)] ==
        IF i = 0 THEN NoMirror
        ELSE IF effective[mirrors[i]] > 0 THEN mirrors[i] ELSE best[i - 1]
  IN best

(* The loop of Select, with the in-flight counts as it reads them: the     *)
(* mirror selected once it has seen the first i.                           *)
Winners(read) ==
  LET Beats(m, n) ==
        /\ effective[m] > 0
        /\ n = NoMirror \/ ScoresMore(m, read[m], n, read[n])
      best[i \in 0..Len(mirrors)] ==
        IF i = 0 THEN NoMirror
        ELSE IF Beats(mirrors[i], best[i - 1]) THEN mirrors[i] ELSE best[i - 1]
  IN best

Best(read) == Winners(read)[Len(mirrors)]

(* Select reads the counts of the mirrors one after another and without    *)
(* their mutex.  Until it is done nobody gets past the Penalize that comes *)
(* after a download, which needs ws.mu: each of the other fetchers has     *)
(* begun one download and ended one at most.  So of those under way any    *)
(* may have begun after the read, and of those just ended any before it.   *)
Ended(m) == {g \in Fetchers : fetcher[g] = "charged" /\ using[g] = m}

MostRead(m) == inFlight[m] + Cardinality(Ended(m))

Reads ==
  {read \in [Mirrors -> 0..Cardinality(Fetchers)] :
     \A m \in Mirrors : read[m] <= MostRead(m)}

Select(f) ==
  /\ fetcher[f] = "idle"
  /\ \E read \in Reads :
       /\ Best(read) # NoMirror
       /\ using' = [using EXCEPT ![f] = Best(read)]
  /\ fetcher' = [fetcher EXCEPT ![f] = "chosen"]
  /\ UNCHANGED <<mirrors, weightVars, inFlight, owed, loopVars, stops, panicked>>

(* AddInFlightDownload, at the start of a download.                        *)
Begin(f) ==
  /\ fetcher[f] = "chosen"
  /\ fetcher' = [fetcher EXCEPT ![f] = "loading"]
  /\ inFlight' = [inFlight EXCEPT ![using[f]] = @ + 1]
  /\ UNCHANGED <<mirrors, weightVars, using, owed, loopVars, stops, panicked>>

Charge(f) == \E charge \in Charges : owed' = [owed EXCEPT ![f] = charge]

(* RemoveInFlightDownload does not go below zero.                          *)
Finish(f) ==
  /\ fetcher[f] = "loading"
  /\ fetcher' = [fetcher EXCEPT ![f] = "charged"]
  /\ inFlight' = [inFlight EXCEPT ![using[f]] = IF @ > 0 THEN @ - 1 ELSE 0]
  /\ Charge(f)
  /\ UNCHANGED <<mirrors, weightVars, using, loopVars, stops, panicked>>

(* FetchIfNeeded asks the mirror for its versions and charges it for that. *)
Check(f) ==
  /\ fetcher[f] = "chosen"
  /\ fetcher' = [fetcher EXCEPT ![f] = "charged"]
  /\ owed' = [owed EXCEPT ![f] = <<1>>]
  /\ UNCHANGED <<mirrors, weightVars, inFlight, using, loopVars, stops, panicked>>

Charged(f, left) ==
  /\ fetcher[f] = "charged"
  /\ effective' = [effective EXCEPT ![using[f]] = left]
  /\ age' = [age EXCEPT ![using[f]] = "now"]
  /\ owed' = [owed EXCEPT ![f] = Tail(@)]
  /\ IF Len(owed[f]) = 1
     THEN /\ fetcher' = [fetcher EXCEPT ![f] = "idle"]
          /\ using' = [using EXCEPT ![f] = NoMirror]
     ELSE UNCHANGED <<fetcher, using>>
  /\ UNCHANGED <<mirrors, inFlight, loopVars, stops, panicked>>

Left(f) == effective[using[f]] - Head(owed[f])

(* Mutation: the weight is not kept from going below zero.                 *)
PenalizeBelow(f) == fetcher[f] = "charged" /\ Charged(f, Left(f))

Penalize(f) ==
  /\ fetcher[f] = "charged"
  /\ Charged(f, IF Left(f) < 0 THEN 0 ELSE Left(f))

(* Time since the last use passes.                                         *)
Later(m) ==
  /\ age[m] \in {"now", "hour"}
  /\ age' = [age EXCEPT ![m] = IF @ = "now" THEN "hour" ELSE "day"]
  /\ UNCHANGED <<mirrors, effective, fetchVars, loopVars, stops, panicked>>

-----------------------------------------------------------------------------
(* A rate that is not positive, or is above 1.0, becomes 5%.               *)
Usable(r) == IF r <= 0 \/ r > 100 THEN 5 ELSE r

Free == {l \in Loops : loop[l] = "none"}

(* Which name the new goroutine gets makes no difference.  The interval of *)
(* the ticker is positive here: with another one NewTicker panics, which   *)
(* is left to the caller.                                                  *)
StartRecovery(r) ==
  LET l == CHOOSE k \in Free : TRUE IN
  /\ ~recoveryRunning
  /\ Free # {}
  /\ loop' = [loop EXCEPT ![l] = "select"]
  /\ rate' = [rate EXCEPT ![l] = Usable(r)]
  /\ recoveryRunning' = TRUE
  /\ stopChan' = "open"
  /\ tick' = FALSE
  /\ UNCHANGED <<mirrors, weightVars, fetchVars, stops, panicked>>

(* Mutation: Stop clears recoveryRunning instead of leaving it to the loop.*)
StopClears ==
  /\ recoveryRunning
  /\ stops < MaxStops
  /\ panicked' = (stopChan = "closed")
  /\ stopChan' = "closed"
  /\ recoveryRunning' = FALSE
  /\ stops' = stops + 1
  /\ UNCHANGED <<mirrors, weightVars, fetchVars, tick, loop, rate>>

(* Until the loop has seen the channel closed, another Stop closes it      *)
(* again, and that panics.  A Stop with no recovery running does nothing.  *)
Stop ==
  /\ recoveryRunning
  /\ stops < MaxStops
  /\ panicked' = (stopChan = "closed")
  /\ stopChan' = "closed"
  /\ stops' = stops + 1
  /\ UNCHANGED <<mirrors, weightVars, fetchVars, recoveryRunning, tick, loop,
                 rate>>

(* The ticker, which Stop stops.                                           *)
Tick ==
  /\ stopChan = "open" /\ ~tick
  /\ tick' = TRUE
  /\ UNCHANGED <<mirrors, weightVars, fetchVars, recoveryRunning, stopChan, loop,
                 rate, stops, panicked>>

Wake(l) ==
  /\ loop[l] = "select" /\ tick
  /\ tick' = FALSE
  /\ loop' = [loop EXCEPT ![l] = "woken"]
  /\ UNCHANGED <<mirrors, weightVars, fetchVars, recoveryRunning, stopChan, rate,
                 stops, panicked>>

(* A weight moves towards the base weight by the rate, rounded up to a     *)
(* tenth: the code's floating point weights always move while they differ. *)
Recovered(m, r) ==
  LET gap == BaseWeight[m] - effective[m] IN
  effective[m] + ((gap * r + 99) \div 100)

RecoverTo(l, weight) ==
  /\ loop[l] = "woken"
  /\ effective' = weight
  /\ loop' = [loop EXCEPT ![l] = "select"]
  /\ UNCHANGED <<mirrors, age, fetchVars, recoveryRunning, stopChan, tick, rate,
                 stops, panicked>>

(* Mutation: the step is a share of what is left of the weight.            *)
RecoverShare(l) ==
  RecoverTo(l, [m \in Mirrors |->
    IF m \in Known /\ effective[m] < BaseWeight[m]
    THEN effective[m] + ((effective[m] * rate[l]) \div 100)
    ELSE effective[m]])

Recover(l) ==
  RecoverTo(l, [m \in Mirrors |->
    IF m \in Known /\ effective[m] < BaseWeight[m]
    THEN Recovered(m, rate[l]) ELSE effective[m]])

(* Mutation: the loop looks at stopChan when it is woken by a tick.        *)
LoopStopTicked(l) ==
  /\ loop[l] = "select" /\ stopChan = "closed" /\ tick
  /\ loop' = [loop EXCEPT ![l] = "leaving"]
  /\ UNCHANGED <<mirrors, weightVars, fetchVars, recoveryRunning, stopChan, tick,
                 rate, stops, panicked>>

LoopStop(l) ==
  /\ loop[l] = "select" /\ stopChan = "closed"
  /\ loop' = [loop EXCEPT ![l] = "leaving"]
  /\ UNCHANGED <<mirrors, weightVars, fetchVars, recoveryRunning, stopChan, tick,
                 rate, stops, panicked>>

LoopExit(l) ==
  /\ loop[l] = "leaving"
  /\ loop' = [loop EXCEPT ![l] = "none"]
  /\ rate' = [rate EXCEPT ![l] = 0]
  /\ recoveryRunning' = FALSE
  /\ UNCHANGED <<mirrors, weightVars, fetchVars, stopChan, tick,
                 stops, panicked>>

-----------------------------------------------------------------------------
Fetch(f) == Select(f) \/ Begin(f) \/ Finish(f) \/ Check(f) \/ Penalize(f)

RecoverWeights(l) == Wake(l) \/ Recover(l) \/ LoopStop(l) \/ LoopExit(l)

Next ==
  /\ ~panicked
  /\ \/ \E m \in Mirrors : Add(m) \/ Later(m)
     \/ \E f \in Fetchers : Fetch(f)
     \/ \E r \in Rates : StartRecovery(r)
     \/ Stop \/ Tick
     \/ \E l \in Loops : RecoverWeights(l)

(* The ticker keeps ticking, and the goroutine that waits for it runs.     *)
Fairness ==
  /\ WF_vars(~panicked /\ Tick)
  /\ \A l \in Loops : WF_vars(~panicked /\ RecoverWeights(l))

Spec == Init /\ [][Next]_vars /\ Fairness

-----------------------------------------------------------------------------
(* One goroutine at most recovers weights, and recoveryRunning says        *)
(* whether one does: two would take each other's ticks.                    *)
OneRecovery ==
  /\ \A l, k \in Loops : loop[l] # "none" /\ loop[k] # "none" => l = k
  /\ recoveryRunning <=> \E l \in Loops : loop[l] # "none"

(* "Select returns the mirror with the highest score": none scores more,   *)
(* with all the downloads of its own that Select can have counted, than    *)
(* the one it returns would with none, and none without weight is returned.*)
SelectsBest ==
  [][\A f \in Fetchers : fetcher[f] = "idle" /\ fetcher'[f] = "chosen" =>
       LET m == using'[f] IN
       /\ m \in Known /\ effective[m] > 0
       /\ \A n \in Known : ~ ScoresMore(n, MostRead(n), m, 0)]_vars

(* "This prevents mirror starvation after penalties": while recovery runs  *)
(* and a mirror is left alone, its weight comes back.                      *)
Unused(m) == \A f \in Fetchers : using[f] # m

Starved(m) == m \in Known /\ effective[m] = 0

NoStarvation ==
  \A m \in Mirrors :
    Starved(m) /\ Unused(m) /\ stopChan = "open" ~>
      ~Starved(m) \/ stopChan # "open"

(* After Stop the goroutine ends, and recovery can be started again.       *)
RecoveryEnds == stopChan = "closed" ~> ~recoveryRunning \/ panicked
=============================================================================
