--------------------------- MODULE HTTPServer_proof ---------------------------
(***************************************************************************)
(* Proofs about HTTPServer, for any number of callers, requests, paths and *)
(* calls of Start.                                                         *)
(***************************************************************************)
EXTENDS HTTPServer, FiniteSetTheorems, SequenceTheorems, WellFoundedInduction,
        TLAPS

USE HTTPServerAssumption

-----------------------------------------------------------------------------
(* Type correctness.  activeRequests is a natural number because it counts *)
(* the requests that are in a pacman handler.                              *)
Active == {r \in Requests : stage[r] \in Pacman}

Counted == IsFiniteSet(Active) /\ activeRequests = Cardinality(Active)

Calling == \E c \in Callers :
             \/ Call(c) \/ Shutdown(c) \/ Expire(c) \/ WaitForShutdown(c)

Connecting == Net \/ \E r \in Requests : Accept(r) \/ Disconnect(r) \/ Aside(r)

Pacing == \E r \in Requests :
            \/ \E p \in Paths : Enter(r, p)
            \/ Refuse(r) \/ Lookup(r) \/ Fetched(r) \/ FetchFails(r) \/ Serve(r)

LEMMA NextSplits == Next => Calling \/ Connecting \/ Pacing
BY DEF Next, Calling, Connecting, Pacing, Handle

LEMMA CallingType == ASSUME TypeOK, Calling PROVE TypeOK'
<1> USE DEF TypeOK, serverVars, callVars, netVars, requestVars, ghostVars
<1> PICK c \in Callers :
      \/ Call(c) \/ Shutdown(c) \/ Expire(c) \/ WaitForShutdown(c)
  BY DEF Calling
<1>1. CASE Start(c)
  BY <1>1 DEF Start
<1>2. CASE RefuseShutdown(c)
  BY <1>2 DEF RefuseShutdown
<1>3. CASE \E context \in {"live", "expired", "endless"} : BeginShutdown(c, context)
  BY <1>3 DEF BeginShutdown
<1>4. CASE CloseShutdownChan(c)
  BY <1>4 DEF CloseShutdownChan
<1>5. CASE SelectDone(c)
  BY <1>5 DEF SelectDone
<1>6. CASE SelectTimeout(c)
  BY <1>6 DEF SelectTimeout, Unlisten, Handling, Ended, Pacman
<1>7. CASE StopRunning(c)
  BY <1>7 DEF StopRunning
<1>8. CASE EndShutdown(c)
  BY <1>8 DEF EndShutdown
<1>9. CASE Expire(c)
  BY <1>9 DEF Expire
<1>10. CASE WaitForShutdown(c)
  BY <1>10 DEF WaitForShutdown
<1> QED BY <1>1, <1>2, <1>3, <1>4, <1>5, <1>6, <1>7, <1>8, <1>9, <1>10
        DEF Call, Shutdown

LEMMA ConnectingType == ASSUME TypeOK, Connecting PROVE TypeOK'
<1> USE DEF TypeOK, serverVars, callVars, netVars, requestVars, ghostVars
<1>1. CASE ListenAndServe
  BY <1>1 DEF ListenAndServe
<1>2. CASE NetShutdown
  BY <1>2 DEF NetShutdown, Unlisten
<1>3. CASE NetDone
  BY <1>3 DEF NetDone
<1>4. ASSUME NEW r \in Requests, Accept(r) \/ Disconnect(r) \/ Aside(r)
      PROVE  TypeOK'
  BY <1>4 DEF Accept, Disconnect, Aside, Handling, Ended
<1> QED BY <1>1, <1>2, <1>3, <1>4 DEF Connecting, Net

(* A handler that ends leaves the count by one, and was counted.           *)
LEMMA LeaveCounts ==
  ASSUME TypeOK, Counted, NEW r \in Active, NEW outcome \in Ended, Leave(r, outcome)
  PROVE  TypeOK' /\ Counted'
<1>1. Active' = Active \ {r}
  BY DEF Leave, Active, TypeOK, Pacman, Ended
<1>2. /\ IsFiniteSet(Active') /\ Cardinality(Active') = Cardinality(Active) - 1
  BY <1>1, FS_RemoveElement DEF Counted
<1>3. Cardinality(Active') \in Nat
  BY <1>2, FS_CardinalityType
<1>4. activeRequests' = Cardinality(Active')
  BY <1>2 DEF Leave, Counted
<1>5. Counted'
  BY <1>2, <1>4 DEF Counted
<1>6. TypeOK'
  BY <1>3, <1>4 DEF TypeOK, Leave, Active, serverVars, callVars, netVars, ghostVars
<1> QED BY <1>5, <1>6

LEMMA PacingType == ASSUME TypeOK, Counted, Pacing PROVE TypeOK' /\ Counted'
<1>1. ASSUME NEW r \in Requests, NEW p \in Paths, Enter(r, p)
      PROVE  TypeOK' /\ Counted'
  <2>1. Active' = Active \cup {r} /\ r \notin Active
    BY <1>1 DEF Enter, Active, TypeOK, Pacman
  <2>2. IsFiniteSet(Active') /\ Cardinality(Active') = Cardinality(Active) + 1
    BY <2>1, FS_AddElement DEF Counted
  <2>3. Counted'
    BY <1>1, <2>2 DEF Counted, Enter
  <2>4. TypeOK'
    BY <1>1 DEF Enter, TypeOK, Handling, Pacman, serverVars, callVars, netVars,
                ghostVars
  <2> QED BY <2>3, <2>4
<1>2. ASSUME NEW r \in Requests, Lookup(r) \/ Fetched(r)
      PROVE  TypeOK' /\ Counted'
  <2>1. Active' = Active
    BY <1>2 DEF Lookup, Fetched, Active, TypeOK, Pacman
  <2>2. Counted'
    BY <1>2, <2>1 DEF Counted, Lookup, Fetched
  <2>3. TypeOK'
    BY <1>2 DEF Lookup, Fetched, TypeOK, Handling, Pacman, serverVars, callVars,
                netVars, ghostVars
  <2> QED BY <2>2, <2>3
<1>3. ASSUME NEW r \in Requests, Refuse(r) \/ FetchFails(r) \/ Serve(r)
      PROVE  TypeOK' /\ Counted'
  BY <1>3, LeaveCounts DEF Refuse, FetchFails, Serve, Active, Pacman, Ended
<1> QED BY <1>1, <1>2, <1>3 DEF Pacing

LEMMA OthersCounted == ASSUME TypeOK, Counted, Calling \/ Connecting PROVE Counted'
<1> USE DEF Counted, Active, TypeOK, Pacman, requestVars
<1>1. CASE Connecting
  <2>1. Active' = Active /\ activeRequests' = activeRequests
    BY <1>1 DEF Connecting, Net, ListenAndServe, NetShutdown, NetDone, Accept,
                Disconnect, Aside
  <2> QED BY <2>1
<1>2. CASE Calling
  <2>1. PICK c \in Callers :
          \/ Call(c) \/ Shutdown(c) \/ Expire(c) \/ WaitForShutdown(c)
    BY <1>2 DEF Calling
  <2>2. CASE SelectTimeout(c)
    <3>1. Active' = Active /\ activeRequests' = activeRequests
      BY <2>2 DEF SelectTimeout
    <3> QED BY <3>1
  <2>3. CASE ~SelectTimeout(c)
    <3>1. UNCHANGED requestVars
      BY <2>1, <2>3 DEF Call, Shutdown, Start, RefuseShutdown, BeginShutdown,
           CloseShutdownChan, SelectDone, StopRunning, EndShutdown, Expire,
           WaitForShutdown
    <3> QED BY <3>1
  <2> QED BY <2>2, <2>3
<1> QED BY <1>1, <1>2

LEMMA InitCounted == Init => TypeOK /\ Counted
<1> SUFFICES ASSUME Init PROVE TypeOK /\ Counted
  OBVIOUS
<1>1. TypeOK
  <2>1. /\ pc \in [Callers -> {"idle", "await", "closing", "select", "done", "stopped"}]
        /\ ctx \in [Callers -> {"live", "expired", "endless"}]
        /\ result \in [Callers -> {"none", "nil", "error"}]
    BY DEF Init
  <2>2. /\ stage \in [Requests -> {"none", "new"} \cup Handling \cup Ended]
        /\ path \in [Requests -> Paths \cup {NoPath}]
    BY DEF Init
  <2>3. activeRequests \in Nat /\ starts \in 0..MaxStarts
    BY DEF Init
  <2> QED BY <2>1, <2>2, <2>3 DEF Init, TypeOK
<1>2. Active = {}
  BY DEF Init, Active, Pacman
<1>3. Counted
  BY <1>2, FS_EmptySet DEF Init, Counted
<1> QED BY <1>1, <1>3

(* Every state has the types of TypeOK; activeRequests never goes below    *)
(* zero, whatever way a handler takes out of handlePacmanRequest.          *)
THEOREM TypeCorrect == Spec => [](TypeOK /\ Counted)
<1>1. TypeOK /\ Counted /\ [Next]_vars => (TypeOK /\ Counted)'
  <2> SUFFICES ASSUME TypeOK, Counted, [Next]_vars PROVE (TypeOK /\ Counted)'
    OBVIOUS
  <2>1. CASE Next
    BY <2>1, NextSplits, CallingType, ConnectingType, PacingType, OthersCounted
  <2>2. CASE UNCHANGED vars
    BY <2>2 DEF TypeOK, Counted, Active, vars, serverVars, callVars, netVars,
                requestVars, ghostVars
  <2> QED BY <2>1, <2>2
<1> QED BY <1>1, InitCounted, PTL DEF Spec

-----------------------------------------------------------------------------
(* Once nobody listens nobody ever will: inShutdown is never reset, and    *)
(* whoever closes allDone has set it, or has waited for the goroutine that *)
(* did.                                                                    *)
Closing ==
  /\ inShutdown => listener # "listening"
  /\ doneChan \in {"waiting", "nil", "error"} => inShutdown
  /\ \A c \in Callers : pc[c] \in {"done", "stopped"} => inShutdown
  /\ allDone = "closed" => inShutdown

(* A shutdown that was clean has seen the last connection go.              *)
Clean ==
  /\ \A c \in Callers : result[c] = "nil" => doneChan = "nil"
  /\ doneChan # "none" => shutdownChan = "closed"
  /\ doneChan = "nil" => \A r \in Requests : stage[r] \notin Handling \cup {"new"}

(* As long as nobody misuses the server, one caller at most is past the    *)
(* look at running, and it is the first.                                   *)
Orderly ==
  /\ starts = 0 =>
       /\ ~running /\ shutdownChan = "open"
       /\ \A c \in Callers : ~Shutting(c)
  /\ \A c \in Callers : Shutting(c) => running
  /\ \A c, d \in Callers : Shutting(c) /\ Shutting(d) => c = d
  /\ \A c \in Callers : pc[c] = "closing" => shutdownChan = "open"
  /\ running /\ shutdownChan = "closed" =>
       \E c \in Callers : pc[c] \in {"select", "done"}

Careful == ~misused => ~panicked /\ Orderly

(* What is fetched is a path the server has accepted.                      *)
Parsed ==
  \A r \in Requests :
    /\ stage[r] \in Pacman => path[r] \in Paths
    /\ stage[r] = "fetch" => Accepted(path[r])

LEMMA CallingCloses ==
  ASSUME TypeOK, Closing, Calling
  PROVE  Closing'
<1> USE DEF Closing, TypeOK, serverVars, callVars, netVars, requestVars, ghostVars
<1> PICK c \in Callers :
      \/ Call(c) \/ Shutdown(c) \/ Expire(c) \/ WaitForShutdown(c)
  BY DEF Calling
<1>1. CASE Start(c)
  BY <1>1 DEF Start
<1>2. CASE RefuseShutdown(c)
  BY <1>2 DEF RefuseShutdown
<1>3. CASE \E context \in {"live", "expired", "endless"} : BeginShutdown(c, context)
  BY <1>3 DEF BeginShutdown
<1>4. CASE CloseShutdownChan(c)
  BY <1>4 DEF CloseShutdownChan
<1>5. CASE SelectDone(c)
  BY <1>5 DEF SelectDone
<1>6. CASE SelectTimeout(c)
  BY <1>6 DEF SelectTimeout, Unlisten
<1>7. CASE StopRunning(c)
  BY <1>7 DEF StopRunning
<1>8. CASE EndShutdown(c)
  BY <1>8 DEF EndShutdown
<1>9. CASE Expire(c)
  BY <1>9 DEF Expire
<1>10. CASE WaitForShutdown(c)
  BY <1>10 DEF WaitForShutdown
<1> QED BY <1>1, <1>2, <1>3, <1>4, <1>5, <1>6, <1>7, <1>8, <1>9, <1>10
        DEF Call, Shutdown

LEMMA OthersClose ==
  ASSUME TypeOK, Closing, Connecting \/ Pacing
  PROVE  Closing'
<1> USE DEF Closing, TypeOK, serverVars, callVars, netVars
<1>1. CASE Net
  BY <1>1 DEF Net, ListenAndServe, NetShutdown, NetDone, Unlisten
<1>2. CASE ~Net
  BY <1>2 DEF Connecting, Accept, Disconnect, Aside, Pacing, Enter, Refuse,
              Leave, Lookup, Fetched, FetchFails, Serve
<1> QED BY <1>1, <1>2

LEMMA CallingClean ==
  ASSUME TypeOK, Closing, Clean, Calling
  PROVE  Clean'
<1> USE DEF Closing, Clean, Handling, Pacman, TypeOK, serverVars, callVars, netVars, requestVars, ghostVars
<1> PICK c \in Callers :
      \/ Call(c) \/ Shutdown(c) \/ Expire(c) \/ WaitForShutdown(c)
  BY DEF Calling
<1>1. CASE Start(c)
  BY <1>1 DEF Start
<1>2. CASE RefuseShutdown(c)
  BY <1>2 DEF RefuseShutdown
<1>3. CASE \E context \in {"live", "expired", "endless"} : BeginShutdown(c, context)
  BY <1>3 DEF BeginShutdown
<1>4. CASE CloseShutdownChan(c)
  BY <1>4 DEF CloseShutdownChan
<1>5. CASE SelectDone(c)
  BY <1>5 DEF SelectDone
<1>6. CASE SelectTimeout(c)
  BY <1>6 DEF SelectTimeout, Unlisten
<1>7. CASE StopRunning(c)
  BY <1>7 DEF StopRunning
<1>8. CASE EndShutdown(c)
  BY <1>8 DEF EndShutdown
<1>9. CASE Expire(c)
  BY <1>9 DEF Expire
<1>10. CASE WaitForShutdown(c)
  BY <1>10 DEF WaitForShutdown
<1> QED BY <1>1, <1>2, <1>3, <1>4, <1>5, <1>6, <1>7, <1>8, <1>9, <1>10
        DEF Call, Shutdown

LEMMA OthersClean ==
  ASSUME TypeOK, Closing, Clean, Connecting \/ Pacing
  PROVE  Clean'
<1> USE DEF Closing, Clean, TypeOK, Handling, Pacman, Ended,
            serverVars, callVars, netVars, requestVars, ghostVars
<1>1. CASE Net
  BY <1>1 DEF Net, ListenAndServe, NetShutdown, NetDone, Unlisten
<1>2. CASE ~Net
  <2>1. PICK r \in Requests :
          \/ Accept(r) \/ Disconnect(r) \/ Aside(r)
          \/ \E p \in Paths : Enter(r, p)
          \/ Refuse(r) \/ Lookup(r) \/ Fetched(r) \/ FetchFails(r) \/ Serve(r)
    BY <1>2 DEF Connecting, Pacing
  <2>2. UNCHANGED <<serverVars, callVars>>
    BY <2>1 DEF Accept, Disconnect, Aside, Enter, Refuse, Leave, Lookup, Fetched,
                FetchFails, Serve
  <2>3. CASE doneChan = "nil"
    <3>1. listener # "listening" /\ stage[r] \notin Handling \cup {"new"}
      BY <2>3
    <3> QED BY <2>1, <3>1 DEF Accept, Disconnect, Aside, Enter, Refuse, Lookup,
                Fetched, FetchFails, Serve
  <2>4. CASE doneChan # "nil"
    BY <2>2, <2>4
  <2> QED BY <2>3, <2>4
<1> QED BY <1>1, <1>2

LEMMA CallingCareful ==
  ASSUME TypeOK, Careful, Calling
  PROVE  Careful'
<1> USE DEF Careful, Orderly, Shutting, TypeOK, serverVars, callVars, netVars, requestVars, ghostVars
<1> PICK c \in Callers :
      \/ Call(c) \/ Shutdown(c) \/ Expire(c) \/ WaitForShutdown(c)
  BY DEF Calling
<1>1. CASE Start(c)
  <2> SUFFICES ASSUME ~misused' PROVE (~panicked /\ Orderly)'
    OBVIOUS
  <2>1. ~misused /\ ~(starts > 0)
    BY <1>1 DEF Start
  <2>2. starts = 0 /\ starts' = 1
    BY <1>1, <2>1 DEF Start
  <2>3. ~panicked /\ shutdownChan = "open" /\ \A d \in Callers : ~Shutting(d)
    BY <2>1, <2>2
  <2>4. pc' = pc /\ shutdownChan' = "open" /\ ~panicked'
    BY <1>1, <2>3 DEF Start
  <2> QED BY <2>2, <2>3, <2>4
<1>2. CASE RefuseShutdown(c)
  BY <1>2 DEF RefuseShutdown
<1>3. CASE \E context \in {"live", "expired", "endless"} : BeginShutdown(c, context)
  <2> SUFFICES ASSUME ~misused' PROVE (~panicked /\ Orderly)'
    OBVIOUS
  <2>1. ~misused /\ \A d \in Callers : ~Shutting(d)
    BY <1>3 DEF BeginShutdown
  <2>2. /\ ~panicked /\ running
        /\ starts # 0
        /\ shutdownChan = "open"
    BY <1>3, <2>1 DEF BeginShutdown
  <2>3. /\ pc' = [pc EXCEPT ![c] = "closing"]
        /\ running' = running /\ shutdownChan' = shutdownChan
        /\ starts' = starts /\ panicked' = panicked
    BY <1>3 DEF BeginShutdown
  <2>4. \A d \in Callers : Shutting(d)' => d = c
    BY <2>1, <2>3
  <2> QED BY <2>2, <2>3, <2>4
<1>4. CASE CloseShutdownChan(c)
  BY <1>4 DEF CloseShutdownChan
<1>5. CASE SelectDone(c)
  BY <1>5 DEF SelectDone
<1>6. CASE SelectTimeout(c)
  BY <1>6 DEF SelectTimeout, Unlisten
<1>7. CASE StopRunning(c)
  BY <1>7 DEF StopRunning
<1>8. CASE EndShutdown(c)
  BY <1>8 DEF EndShutdown
<1>9. CASE Expire(c)
  BY <1>9 DEF Expire
<1>10. CASE WaitForShutdown(c)
  BY <1>10 DEF WaitForShutdown
<1> QED BY <1>1, <1>2, <1>3, <1>4, <1>5, <1>6, <1>7, <1>8, <1>9, <1>10
        DEF Call, Shutdown

LEMMA OthersCareful ==
  ASSUME Careful, Connecting \/ Pacing
  PROVE  Careful'
<1>1. UNCHANGED <<serverVars, pc, ghostVars>>
  BY DEF Connecting, Net, ListenAndServe, NetShutdown, NetDone, Unlisten, Accept,
         Disconnect, Aside, Pacing, Enter, Refuse, Leave, Lookup, Fetched,
         FetchFails, Serve, callVars
<1> QED BY <1>1 DEF Careful, Orderly, Shutting, serverVars, ghostVars

LEMMA ParsedStep == ASSUME TypeOK, Parsed, Next PROVE Parsed'
<1> USE DEF TypeOK, Parsed, Pacman, requestVars
<1>1. CASE Calling
  <2>1. PICK c \in Callers :
          \/ Call(c) \/ Shutdown(c) \/ Expire(c) \/ WaitForShutdown(c)
    BY <1>1 DEF Calling
  <2>2. CASE SelectTimeout(c)
    BY <2>2 DEF SelectTimeout
  <2>3. CASE ~SelectTimeout(c)
    <3>1. UNCHANGED requestVars
      BY <2>1, <2>3 DEF Call, Shutdown, Start, RefuseShutdown, BeginShutdown,
           CloseShutdownChan, SelectDone, StopRunning, EndShutdown, Expire,
           WaitForShutdown
    <3> QED BY <3>1
  <2> QED BY <2>2, <2>3
<1>2. CASE Connecting
  BY <1>2 DEF Connecting, Net, ListenAndServe, NetShutdown, NetDone, Accept,
              Disconnect, Aside
<1>3. CASE Pacing
  BY <1>3 DEF Pacing, Enter, Refuse, Leave, Lookup, Fetched, FetchFails, Serve
<1> QED BY <1>1, <1>2, <1>3, NextSplits

-----------------------------------------------------------------------------
IInv == TypeOK /\ Counted /\ Closing /\ Clean /\ Careful /\ Parsed

LEMMA InitIInv == Init => IInv
BY InitCounted DEF Init, IInv, Closing, Clean, Careful, Orderly, Shutting, Parsed,
                   Pacman

LEMMA Inductive == IInv /\ [Next]_vars => IInv'
<1> SUFFICES ASSUME IInv, [Next]_vars PROVE IInv'
  OBVIOUS
<1>1. CASE Next
  <2>1. Calling \/ Connecting \/ Pacing
    BY <1>1, NextSplits
  <2>2. TypeOK' /\ Counted'
    BY <2>1, CallingType, ConnectingType, PacingType, OthersCounted DEF IInv
  <2>3. Closing' /\ Clean' /\ Careful'
    BY <2>1, CallingCloses, OthersClose, CallingClean, OthersClean,
       CallingCareful, OthersCareful DEF IInv
  <2>4. Parsed'
    BY <1>1, ParsedStep DEF IInv
  <2> QED BY <2>2, <2>3, <2>4 DEF IInv
<1>2. CASE UNCHANGED vars
  BY <1>2 DEF IInv, TypeOK, Counted, Active, Closing, Clean, Careful, Orderly,
              Shutting, Parsed, vars, serverVars, callVars, netVars, requestVars,
              ghostVars
<1> QED BY <1>1, <1>2

(* The inductive invariant holds in every state.                           *)
THEOREM Invariant == Spec => []IInv
BY InitIInv, Inductive, PTL DEF Spec

(* The invariant says what a nil result promises.                          *)
LEMMA CleanDrained == IInv => Drained
<1> SUFFICES ASSUME IInv, NEW c \in Callers, result[c] = "nil"
             PROVE  /\ listener # "listening"
                    /\ \A r \in Requests : stage[r] \notin Handling \cup {"new"}
                    /\ activeRequests = 0
  BY DEF Drained
<1>1. doneChan = "nil"
  BY DEF IInv, Clean
<1>2. listener # "listening"
  BY <1>1 DEF IInv, Closing
<1>3. \A r \in Requests : stage[r] \notin Handling \cup {"new"}
  BY <1>1 DEF IInv, Clean
<1>4. Active = {}
  BY <1>3 DEF Active, Handling
<1>5. activeRequests = 0
  BY <1>4, FS_EmptySet DEF IInv, Counted
<1> QED BY <1>2, <1>3, <1>5

(* Once a Shutdown has returned nil, no handler runs or will run and none  *)
(* is counted.                                                             *)
THEOREM DrainedHolds == Spec => []Drained
BY CleanDrained, Invariant, PTL

(* Whoever WaitForShutdown releases can rely on it that nobody connects    *)
(* any more, however many calls of Start and Shutdown there are.           *)
THEOREM DownForGoodHolds == Spec => []DownForGood
<1>1. IInv => DownForGood
  BY DEF IInv, Closing, DownForGood
<1> QED BY <1>1, Invariant, PTL

(* A channel is closed twice only if calls of Shutdown overlap or Start is *)
(* called again.                                                           *)
THEOREM NoPanicHolds == Spec => []NoPanic
<1>1. IInv => NoPanic
  BY DEF IInv, Careful, NoPanic
<1> QED BY <1>1, Invariant, PTL

-----------------------------------------------------------------------------
(* Keys.  The part a version starts at exists if there is a candidate.     *)
LEMMA StartExists ==
  ASSUME NEW f \in Seq(STRING), Starts(f) # {}
  PROVE  /\ Max(Starts(f)) \in 2..Len(f)
         /\ f[Max(Starts(f))] \in Digits
<1> DEFINE T == {Len(f) - i : i \in Starts(f)}
<1>1. Len(f) \in Nat
  OBVIOUS
<1>2. Starts(f) \subseteq 2..Len(f) /\ \A i \in Starts(f) : f[i] \in Digits
  BY Zenon DEF Starts
<1>3. T \subseteq Nat /\ T # {}
  BY <1>1, <1>2
<1>4. PICK x \in T : \A y \in T : ~ (<<y, x>> \in OpToRel(<, Nat))
  BY <1>3, NatLessThanWellFounded, WFMin
<1>5. \A y \in T : ~(y < x)
  BY <1>3, <1>4 DEF OpToRel
<1>6. PICK i \in Starts(f) : x = Len(f) - i
  BY <1>4
<1>7. ASSUME NEW j \in Starts(f) PROVE i >= j
  <2>1. Len(f) - j \in T
    OBVIOUS
  <2>2. ~(Len(f) - j < Len(f) - i)
    BY <1>5, <1>6, <2>1
  <2> QED BY <1>1, <1>2, <2>2
<1>8. Max(Starts(f)) \in Starts(f)
  BY <1>7 DEF Max
<1> QED BY <1>2, <1>8

(* What Name and Version take of a file name.                              *)
LEMMA PairParts ==
  ASSUME NEW f \in Seq(STRING), Starts(f) # {}, NEW k, k = Max(Starts(f))
  PROVE  /\ Len(Name(f)) = k - 1 /\ Len(Version(f)) = Len(f) - k + 1
         /\ \A i \in 1..(k - 1) : Name(f)[i] = f[i]
         /\ \A i \in k..Len(f) : Version(f)[i - k + 1] = f[i]
<1>1. k \in 2..Len(f) /\ Len(f) \in Nat
  BY StartExists
<1>2. \A i \in 1..Len(f) : f[i] \in STRING
  BY ElementOfSeq
<1>3. /\ Len(SubSeq(f, 1, k - 1)) = k - 1
      /\ \A i \in 1..(k - 1) : SubSeq(f, 1, k - 1)[i] = f[i]
  <2>1. \A i \in 1..(k - 1) : f[i] \in STRING
    BY <1>1, <1>2
  <2> QED BY <1>1, <2>1, SubSeqProperties
<1>4. /\ Len(SubSeq(f, k, Len(f))) = Len(f) - k + 1
      /\ \A i \in k..Len(f) : SubSeq(f, k, Len(f))[i - k + 1] = f[i]
  <2>1. \A i \in k..Len(f) : f[i] \in STRING
    BY <1>1, <1>2
  <2>2. /\ Len(SubSeq(f, k, Len(f))) = Len(f) - k + 1
        /\ \A i \in 1..(Len(f) - k + 1) : SubSeq(f, k, Len(f))[i] = f[k + i - 1]
    BY <1>1, <2>1, SubSeqProperties
  <2>3. ASSUME NEW i \in k..Len(f) PROVE SubSeq(f, k, Len(f))[i - k + 1] = f[i]
    <3>1. i - k + 1 \in 1..(Len(f) - k + 1) /\ k + (i - k + 1) - 1 = i
      BY <1>1
    <3> QED BY <2>2, <3>1
  <2> QED BY <2>2, <2>3
<1> QED BY <1>3, <1>4 DEF Name, Version

(* Name and version together are the file name.                            *)
LEMMA PairNamesFile ==
  ASSUME NEW f \in Seq(STRING), Starts(f) # {},
         NEW g \in Seq(STRING), Starts(g) # {},
         Name(f) = Name(g), Version(f) = Version(g)
  PROVE  f = g
<1> DEFINE k == Max(Starts(f))  l == Max(Starts(g))
<1>1. k \in 2..Len(f) /\ l \in 2..Len(g) /\ Len(f) \in Nat /\ Len(g) \in Nat
  BY StartExists
<1>2. /\ Len(Name(f)) = k - 1 /\ Len(Version(f)) = Len(f) - k + 1
      /\ \A i \in 1..(k - 1) : Name(f)[i] = f[i]
      /\ \A i \in k..Len(f) : Version(f)[i - k + 1] = f[i]
  BY PairParts
<1>3. /\ Len(Name(g)) = l - 1 /\ Len(Version(g)) = Len(g) - l + 1
      /\ \A i \in 1..(l - 1) : Name(g)[i] = g[i]
      /\ \A i \in l..Len(g) : Version(g)[i - l + 1] = g[i]
  BY PairParts
<1> HIDE DEF k, l
<1>4. k = l /\ Len(f) = Len(g)
  BY <1>1, <1>2, <1>3
<1>5. \A i \in 1..Len(f) : f[i] = g[i]
  <2> SUFFICES ASSUME NEW i \in 1..Len(f) PROVE f[i] = g[i]
    OBVIOUS
  <2>1. CASE i \in 1..(k - 1)
    BY <1>2, <1>3, <1>4, <2>1
  <2>2. CASE i \in k..Len(f)
    BY <1>2, <1>3, <1>4, <2>2
  <2> QED BY <1>1, <2>1, <2>2
<1> QED BY <1>4, <1>5, SeqEqual

(* A repository file whose name starts with a digit could pass for the     *)
(* version of a package that is called like the repository.                *)
RepoFilesNamed ==
  \A p \in Paths :
    IsRepoFile(p) => p.file.parts # <<>> /\ p.file.parts[1] \notin Digits

LEMMA KeysDiffer ==
  ASSUME RepoFilesNamed, NEW p \in Paths, NEW q \in Paths,
         Accepted(p), Accepted(q), IsRepoFile(p), ~IsRepoFile(q)
  PROVE  Key(p) # Key(q)
<1> DEFINE g == q.file.parts  l == Max(Starts(g))
<1>1. g \in Seq(STRING) /\ Starts(g) # {}
  BY DEF Accepted
<1>2. l \in 2..Len(g) /\ g[l] \in Digits /\ Len(g) \in Nat
  BY <1>1, StartExists
<1>3. Version(g)[1] = g[l]
  <2>1. \A i \in l..Len(g) : Version(g)[i - l + 1] = g[i]
    BY <1>1, PairParts
  <2>2. l \in l..Len(g) /\ l - l + 1 = 1
    BY <1>2
  <2> HIDE DEF l, g
  <2> QED BY <2>1, <2>2
<1>4. Key(p).version[1] \notin Digits
  BY DEF Key, RepoFilesNamed
<1>5. Key(q).version = Version(g)
  BY DEF Key
<1> QED BY <1>2, <1>3, <1>4, <1>5

(* Two requests that are fetched under one key ask for the same file name, *)
(* unless a repository file is named like a version.                       *)
THEOREM KeyNamesFileHolds == ASSUME RepoFilesNamed PROVE Spec => []KeyNamesFile
<1>1. IInv => KeyNamesFile
  <2> SUFFICES ASSUME IInv, NEW r \in Requests, NEW s \in Requests,
                      stage[r] = "fetch", stage[s] = "fetch",
                      Key(path[r]) = Key(path[s])
               PROVE  path[r].file.parts = path[s].file.parts
    BY DEF KeyNamesFile
  <2> DEFINE p == path[r]  q == path[s]
  <2>1. p \in Paths /\ q \in Paths /\ Accepted(p) /\ Accepted(q)
    BY DEF IInv, Parsed, Pacman
  <2> HIDE DEF p, q
  <2>2. Key(p) = Key(q)
    BY DEF p, q
  <2>3. IsRepoFile(p) <=> IsRepoFile(q)
    BY <2>1, <2>2, KeysDiffer
  <2>4. CASE IsRepoFile(p)
    BY <2>2, <2>3, <2>4 DEF Key, p, q
  <2>5. CASE ~IsRepoFile(p)
    <3> DEFINE f == p.file.parts  g == q.file.parts
    <3>1. f \in Seq(STRING) /\ g \in Seq(STRING)
      BY <2>1
    <3>2. Starts(f) # {} /\ Starts(g) # {}
      BY <2>1, <2>3, <2>5 DEF Accepted
    <3>3. Name(f) = Name(g) /\ Version(f) = Version(g)
      BY <2>2, <2>3, <2>5 DEF Key
    <3>4. f = g
      BY <3>1, <3>2, <3>3, PairNamesFile
    <3> QED BY <3>4 DEF p, q
  <2> QED BY <2>4, <2>5
<1> QED BY <1>1, Invariant, PTL

=============================================================================
