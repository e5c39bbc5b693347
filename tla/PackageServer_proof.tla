------------------------- MODULE PackageServer_proof -------------------------
(***************************************************************************)
(* Proofs about PackageServer, for every number of requests, paths and     *)
(* mirrors, every key function and every choice of failures: types, one    *)
(* handler for a key, private temporary files, exact in-flight counts, and *)
(* without crashes or with a sound disk what CachedTracked and NoOrphans   *)
(* promise.                                                                *)
(***************************************************************************)
EXTENDS PackageServer, FiniteSetTheorems, TLAPS

(* The assumption is used by every proof below.                            *)
USE PackageServerAssumption

-----------------------------------------------------------------------------
(* A handler that has downloaded a file, or is downloading it, owns a      *)
(* temporary file.                                                         *)
Downloaded(r) ==
  \/ pc[r] \in {"record", "put", "copy"}
  \/ pc[r] = "release" /\ outcome[r] # "error"

TempOwned ==
  \A r \in Requests : pc[r] = "receive" \/ Downloaded(r) => temp[r] \in Inodes

TypeInv == TypeOK /\ TempOwned

LEMMA NewInodeType == FreeInodes # {} => NewInode \in FreeInodes
BY DEF NewInode

(* The in-flight counts stay natural numbers.                              *)
LEMMA CountType ==
  ASSUME NEW f \in [Mirrors -> Nat], NEW m
  PROVE  /\ [f EXCEPT ![m] = @ + 1] \in [Mirrors -> Nat]
         /\ [f EXCEPT ![m] = IF @ > 0 THEN @ - 1 ELSE 0] \in [Mirrors -> Nat]
<1>1. CASE m \in Mirrors
  BY <1>1
<1>2. CASE m \notin Mirrors
  <2>1. /\ [f EXCEPT ![m] = @ + 1] = f
        /\ [f EXCEPT ![m] = IF @ > 0 THEN @ - 1 ELSE 0] = f
    BY <1>2
  <2> QED BY <2>1
<1> QED BY <1>1, <1>2

LEMMA InitType == Init => TypeInv
<1> SUFFICES ASSUME Init PROVE TypeInv
  OBVIOUS
<1>1. TypeOK
  <2>1. /\ 0 \in 0..MaxRetries
        /\ 0 \in 0..Blocks
        /\ {} \in SUBSET Block
    OBVIOUS
  <2>2. /\ pc \in [Requests -> Locations]
        /\ path \in [Requests -> Paths]
        /\ outcome \in [Requests -> Outcomes]
    BY DEF Init, Locations, Outcomes
  <2>3. /\ inProgress \in SUBSET Keys
        /\ tracked \in SUBSET Keys
        /\ usable \in SUBSET Mirrors
    BY DEF Init
  <2>4. /\ chosen \in [Requests -> Mirrors \cup {NoMirror}]
        /\ current \in [Requests -> Mirrors \cup {NoMirror}]
        /\ attempt \in [Requests -> 0..MaxRetries]
        /\ inFlight \in [Mirrors -> Nat]
    BY <2>1 DEF Init
  <2>5. /\ cached \in [Paths -> Inodes \cup {NoFile}]
        /\ size \in [Inodes -> 0..Blocks]
        /\ good \in [Inodes -> SUBSET Block]
        /\ temp \in [Requests -> Inodes \cup {NoFile}]
        /\ fd \in [Requests -> Inodes \cup {NoFile}]
    BY <2>1 DEF Init
  <2>6. /\ offset \in [Requests -> 0..Blocks]
        /\ length \in [Requests -> 0..Blocks]
        /\ body \in [Requests -> SUBSET Block]
        /\ orphaned \in BOOLEAN
    BY <2>1 DEF Init
  <2> QED BY <2>2, <2>3, <2>4, <2>5, <2>6 DEF TypeOK
<1>2. TempOwned
  BY DEF Init, TempOwned, Downloaded
<1> QED BY <1>1, <1>2 DEF TypeInv

LEMMA EnvType ==
  ASSUME TypeInv, Recover \/ Crash \/ \E p \in Paths : CleanupRemoves(p)
  PROVE  TypeInv'
<1> USE DEF TypeInv, TypeOK, TempOwned, Downloaded, Locations, Outcomes
<1>1. CASE Recover
  BY <1>1 DEF Recover, replyVars, lockVars, diskVars, ioVars, tempVars
<1>2. CASE Crash
  BY <1>2 DEF Crash, diskVars
<1>3. CASE \E p \in Paths : CleanupRemoves(p)
  BY <1>3 DEF CleanupRemoves, replyVars, lockVars, mirrorVars, ioVars, tempVars
<1> QED BY <1>1, <1>2, <1>3

LEMMA FetchType ==
  ASSUME TypeInv, NEW r \in Requests, Fetch(r)
  PROVE  TypeInv'
<1> USE DEF TypeInv, TypeOK, TempOwned, Downloaded, Locations, Outcomes,
            Move, Reply, Penalize, Started, Finished,
            replyVars, lockVars, mirrorVars, diskVars, ioVars, tempVars
<1>1. CASE AcquireKey(r)
  BY <1>1 DEF AcquireKey
<1>2. CASE RejectDuplicate(r)
  BY <1>2 DEF RejectDuplicate
<1>3. CASE SelectMirror(r)
  BY <1>3 DEF SelectMirror
<1>4. CASE NoMirrorLeft(r)
  BY <1>4 DEF NoMirrorLeft
<1>5. CASE BeginAttempt(r)
  <2>1. NewInode \in Inodes
    BY <1>5, NewInodeType DEF BeginAttempt, FreeInodes
  <2>2. /\ temp' \in [Requests -> Inodes \cup {NoFile}]
        /\ size' \in [Inodes -> 0..Blocks]
        /\ good' \in [Inodes -> SUBSET Block]
    BY <1>5, <2>1 DEF BeginAttempt
  <2>3. inFlight' \in [Mirrors -> Nat]
    BY <1>5, CountType DEF BeginAttempt
  <2>4. TypeOK'
    BY <1>5, <2>2, <2>3 DEF BeginAttempt
  <2>5. TempOwned'
    BY <1>5, <2>1 DEF BeginAttempt
  <2> QED BY <2>4, <2>5
<1>6. CASE TempFails(r)
  BY <1>6 DEF TempFails
<1>7. CASE ReceiveBody(r)
  <2>1. \A b \in AcceptedBodies : b.size \in 0..Blocks /\ b.good \in SUBSET Block
    BY DEF AcceptedBodies, Block
  <2>2. size' \in [Inodes -> 0..Blocks] /\ good' \in [Inodes -> SUBSET Block]
    BY <1>7, <2>1 DEF ReceiveBody
  <2>3. inFlight' \in [Mirrors -> Nat]
    BY <1>7, CountType DEF ReceiveBody
  <2>4. TypeOK'
    BY <1>7, <2>2, <2>3 DEF ReceiveBody
  <2>5. TempOwned'
    BY <1>7 DEF ReceiveBody
  <2> QED BY <2>4, <2>5
<1>8. CASE AttemptFails(r)
  <2>1. orphaned' \in BOOLEAN
    BY <1>8 DEF AttemptFails
  <2>2. inFlight' \in [Mirrors -> Nat]
    BY <1>8, CountType DEF AttemptFails
  <2>3. TypeOK'
    BY <1>8, <2>1, <2>2 DEF AttemptFails
  <2>4. TempOwned'
    BY <1>8 DEF AttemptFails
  <2> QED BY <2>3, <2>4
<1>9. CASE Retry(r)
  BY <1>9 DEF Retry
<1>10. CASE GiveUp(r)
  BY <1>10 DEF GiveUp
<1>11. CASE Record(r)
  BY <1>11 DEF Record
<1>12. CASE Release(r)
  BY <1>12 DEF Release
<1> HIDE DEF TypeInv
<1> QED BY <1>1, <1>2, <1>3, <1>4, <1>5, <1>6, <1>7, <1>8, <1>9, <1>10,
           <1>11, <1>12 DEF Fetch

LEMMA PutType ==
  ASSUME TypeInv, NEW r \in Requests, Put(r)
  PROVE  TypeInv'
<1> USE DEF TypeInv, TypeOK, TempOwned, Downloaded, Locations, Outcomes,
            Move, Reply, CloseFile,
            replyVars, lockVars, mirrorVars, diskVars, ioVars, tempVars
<1>1. CASE PutRename(r)
  BY <1>1 DEF PutRename
<1>2. CASE CreateDest(r)
  <2>1. FreeInodes # {} => NewInode \in Inodes
    BY NewInodeType DEF FreeInodes
  <2> QED BY <1>2, <2>1 DEF CreateDest
<1>3. CASE CopyBlock(r)
  <2>1. /\ temp[r] \in Inodes
        /\ offset[r] + 1 \in 0..Blocks
        /\ offset[r] + 1 \in Block
    BY <1>3 DEF CopyBlock, Block
  <2> QED BY <1>3, <2>1 DEF CopyBlock
<1>4. CASE CopyDone(r)
  <2>1. orphaned' \in BOOLEAN
    BY <1>4 DEF CopyDone
  <2>2. /\ pc' = [pc EXCEPT ![r] = "open"]
        /\ fd' = [fd EXCEPT ![r] = NoFile]
        /\ offset' = [offset EXCEPT ![r] = 0]
        /\ length' = [length EXCEPT ![r] = 0]
        /\ temp' = [temp EXCEPT ![r] = NoFile]
        /\ UNCHANGED <<replyVars, lockVars, mirrorVars, diskVars, body>>
    BY <1>4 DEF CopyDone
  <2> QED BY <2>1, <2>2
<1>5. CASE PutFails(r)
  BY <1>5 DEF PutFails
<1> QED BY <1>1, <1>2, <1>3, <1>4, <1>5 DEF Put

LEMMA ServeType ==
  ASSUME TypeInv, NEW r \in Requests, Serve(r)
  PROVE  TypeInv'
<1> USE DEF TypeInv, TypeOK, TempOwned, Downloaded, Locations, Outcomes,
            Move, Reply, CloseFile,
            replyVars, lockVars, mirrorVars, diskVars, ioVars, tempVars
<1>1. CASE Open(r)
  BY <1>1 DEF Open
<1>2. CASE OpenMissing(r)
  BY <1>2 DEF OpenMissing
<1>3. CASE SendBlock(r)
  <2>1. offset[r] + 1 \in 0..Blocks /\ offset[r] + 1 \in Block
    BY <1>3 DEF SendBlock, Block
  <2> QED BY <1>3, <2>1 DEF SendBlock
<1>4. CASE SendDone(r)
  BY <1>4 DEF SendDone
<1>5. CASE SendBreaks(r)
  BY <1>5 DEF SendBreaks
<1> QED BY <1>1, <1>2, <1>3, <1>4, <1>5 DEF Serve

LEMMA NextType == TypeInv /\ [Next]_vars => TypeInv'
<1> SUFFICES ASSUME TypeInv, [Next]_vars PROVE TypeInv'
  OBVIOUS
<1> USE DEF TypeInv, TypeOK, TempOwned, Downloaded, Locations, Outcomes,
            Move, replyVars, lockVars, mirrorVars, diskVars, ioVars, tempVars
<1>1. ASSUME NEW r \in Requests, NEW p \in Paths, Arrive(r, p)
      PROVE  TypeInv'
  BY <1>1 DEF Arrive
<1>2. ASSUME NEW r \in Requests, Handle(r)
      PROVE  TypeInv'
  <2>1. CASE LookupHit(r)
    BY <2>1 DEF LookupHit
  <2>2. CASE LookupMiss(r)
    BY <2>2 DEF LookupMiss
  <2> QED BY <1>2, <2>1, <2>2, FetchType, PutType, ServeType DEF Handle
<1>3. ASSUME NEW r \in Requests, Leave(r)
      PROVE  TypeInv'
  BY <1>3 DEF Leave
<1>4. CASE Recover \/ Crash \/ \E p \in Paths : CleanupRemoves(p)
  BY <1>4, EnvType
<1>5. CASE UNCHANGED vars
  BY <1>5 DEF vars
<1> QED BY <1>1, <1>2, <1>3, <1>4, <1>5 DEF Next

(* Every variable keeps its type in every behaviour: no offset runs past a *)
(* file, no attempt past MaxRetries, no descriptor is used unopened.       *)
THEOREM TypeCorrect == Spec => []TypeOK
<1>1. TypeInv => TypeOK
  BY DEF TypeInv
<1> QED BY InitType, NextType, <1>1, PTL DEF Spec

-----------------------------------------------------------------------------
(* SingleFlight is inductive on its own: what matters of a step is which   *)
(* handlers hold a key afterwards.                                         *)
LEMMA KeysUntouched ==
  ASSUME SingleFlight, inProgress' = inProgress,
         \A r \in Requests : Holds(r)' <=> Holds(r),
         \A r \in Requests : Holds(r) => path'[r] = path[r]
  PROVE  SingleFlight'
BY DEF SingleFlight, Holds

LEMMA FetchKeys ==
  ASSUME TypeOK, SingleFlight, NEW r \in Requests, Fetch(r)
  PROVE  SingleFlight'
<1>1. pc \in [Requests -> Locations] /\ path \in [Requests -> Paths]
  BY DEF TypeOK
<1>2. CASE AcquireKey(r)
  <2>1. /\ Holds(r)' /\ ~Holds(r)
        /\ \A q \in Requests : q # r => (Holds(q)' <=> Holds(q))
    BY <1>1, <1>2 DEF AcquireKey, Move, Holds, Fetching
  <2>2. /\ path' = path
        /\ inProgress' = inProgress \cup {KeyOf[path[r]]}
        /\ KeyOf[path[r]] \notin inProgress
    BY <1>2 DEF AcquireKey, replyVars
  <2> QED BY <2>1, <2>2 DEF SingleFlight
<1>3. CASE Release(r)
  <2>1. /\ Holds(r) /\ ~Holds(r)'
        /\ \A q \in Requests : q # r => (Holds(q)' <=> Holds(q))
    BY <1>1, <1>3 DEF Release, Move, Holds, Fetching
  <2>2. /\ path' = path
        /\ inProgress' = inProgress \ {KeyOf[path[r]]}
    BY <1>3 DEF Release, replyVars
  <2> QED BY <2>1, <2>2 DEF SingleFlight
<1>4. ASSUME ~AcquireKey(r), ~Release(r)
      PROVE  SingleFlight'
  <2>1. inProgress' = inProgress /\ path' = path
    BY <1>4 DEF Fetch, RejectDuplicate, SelectMirror, NoMirrorLeft,
                BeginAttempt, TempFails, ReceiveBody, AttemptFails, Retry,
                GiveUp, Record, Reply, replyVars, lockVars
  <2>2. /\ \A q \in Requests : q # r => pc'[q] = pc[q]
        /\ pc[r] \in Fetching <=> pc'[r] \in Fetching
    BY <1>1, <1>4 DEF Fetch, RejectDuplicate, SelectMirror, NoMirrorLeft,
                BeginAttempt, TempFails, ReceiveBody, AttemptFails, Retry,
                GiveUp, Record, Reply, Move, Fetching
  <2> QED BY <2>1, <2>2, KeysUntouched DEF Holds
<1> QED BY <1>2, <1>3, <1>4

LEMMA NextKeys == TypeOK /\ SingleFlight /\ [Next]_vars => SingleFlight'
<1> SUFFICES ASSUME TypeOK, SingleFlight, [Next]_vars PROVE SingleFlight'
  OBVIOUS
<1>1. pc \in [Requests -> Locations] /\ path \in [Requests -> Paths]
  BY DEF TypeOK
<1>2. ASSUME NEW r \in Requests, NEW p \in Paths, Arrive(r, p)
      PROVE  SingleFlight'
  <2>1. inProgress' = inProgress
    BY <1>2 DEF Arrive, lockVars
  <2>2. /\ \A q \in Requests : Holds(q)' <=> Holds(q)
        /\ \A q \in Requests : Holds(q) => path'[q] = path[q]
    BY <1>1, <1>2 DEF Arrive, Move, Holds, Fetching
  <2> QED BY <2>1, <2>2, KeysUntouched
<1>3. ASSUME NEW r \in Requests,
             LookupHit(r) \/ LookupMiss(r) \/ Put(r) \/ Serve(r) \/ Leave(r)
      PROVE  SingleFlight'
  <2>1. inProgress' = inProgress /\ path' = path
    BY <1>3 DEF LookupHit, LookupMiss, Put, PutRename, CreateDest, CopyBlock,
                CopyDone, PutFails, Serve, Open, OpenMissing, SendBlock,
                SendDone, SendBreaks, Leave, Reply, replyVars, lockVars
  <2>2. /\ \A q \in Requests : q # r => pc'[q] = pc[q]
        /\ pc[r] \notin Fetching /\ pc'[r] \notin Fetching
    BY <1>1, <1>3
       DEF LookupHit, LookupMiss, Put, PutRename, CreateDest, CopyBlock,
           CopyDone, PutFails, Serve, Open, OpenMissing, SendBlock,
           SendDone, SendBreaks, Leave, Reply, Move, Fetching
  <2> QED BY <2>1, <2>2, KeysUntouched DEF Holds
<1>4. ASSUME Recover \/ (\E p \in Paths : CleanupRemoves(p)) \/ UNCHANGED vars
      PROVE  SingleFlight'
  <2>1. inProgress' = inProgress /\ path' = path /\ pc' = pc
    BY <1>4 DEF Recover, CleanupRemoves, vars, replyVars, lockVars
  <2> QED BY <2>1, KeysUntouched DEF Holds
<1>5. CASE Crash
  BY <1>5 DEF Crash, SingleFlight, Holds, Fetching
<1> QED BY <1>2, <1>3, <1>4, <1>5, FetchKeys DEF Next, Handle

(* At no time do two handlers hold the same key, and inProgress holds no   *)
(* key that nobody is fetching, through errors, retries and restarts.      *)
THEOREM SingleFlightHolds == Spec => []SingleFlight
<1>1. Init => SingleFlight
  BY DEF Init, SingleFlight, Holds, Fetching
<1>2. TypeOK /\ SingleFlight /\ [Next]_vars => SingleFlight'
  BY NextKeys
<1> QED BY <1>1, <1>2, TypeCorrect, PTL DEF Spec

-----------------------------------------------------------------------------
(* TempPrivate: a new file gets an inode nothing refers to, and the only   *)
(* step that gives a temporary file a second name also takes the first.    *)
LEMMA FetchPrivate ==
  ASSUME TypeInv, TempPrivate, NEW r \in Requests, Fetch(r)
  PROVE  TempPrivate'
<1>1. temp \in [Requests -> Inodes \cup {NoFile}]
  BY DEF TypeInv, TypeOK
<1>2. CASE BeginAttempt(r)
  <2>1. NewInode \in FreeInodes
    BY <1>2, NewInodeType DEF BeginAttempt
  <2>2. temp' = [temp EXCEPT ![r] = NewInode] /\ cached' = cached /\ fd' = fd
    BY <1>2 DEF BeginAttempt, ioVars
  <2> HIDE DEF NewInode
  <2> QED BY <1>1, <2>1, <2>2 DEF TempPrivate, FreeInodes
<1>3. CASE AttemptFails(r)
  BY <1>1, <1>3 DEF AttemptFails, TempPrivate, diskVars, ioVars
<1>4. ASSUME ~BeginAttempt(r), ~AttemptFails(r)
      PROVE  TempPrivate'
  <2>1. temp' = temp /\ cached' = cached /\ fd' = fd
    BY <1>4 DEF Fetch, AcquireKey, RejectDuplicate, SelectMirror, NoMirrorLeft,
                TempFails, ReceiveBody, Retry, GiveUp, Record, Release,
                diskVars, ioVars, tempVars
  <2> QED BY <2>1 DEF TempPrivate
<1> QED BY <1>2, <1>3, <1>4

LEMMA PutPrivate ==
  ASSUME TypeInv, TempPrivate, NEW r \in Requests, Put(r)
  PROVE  TempPrivate'
<1>1. /\ temp \in [Requests -> Inodes \cup {NoFile}]
      /\ fd \in [Requests -> Inodes \cup {NoFile}]
      /\ cached \in [Paths -> Inodes \cup {NoFile}]
      /\ path[r] \in Paths
  BY DEF TypeInv, TypeOK
<1>2. CASE PutRename(r)
  <2>1. /\ temp' = [temp EXCEPT ![r] = NoFile]
        /\ cached' = [cached EXCEPT ![path[r]] = temp[r]]
        /\ fd' = fd
        /\ temp[r] \in Inodes
    BY <1>2 DEF PutRename, ioVars, TypeInv, TempOwned, Downloaded, Move
  <2> QED BY <1>1, <2>1 DEF TempPrivate
<1>3. CASE CreateDest(r)
  <2> DEFINE dest == IF cached[path[r]] # NoFile THEN cached[path[r]] ELSE NewInode
  <2>1. /\ temp' = temp
        /\ cached' = [cached EXCEPT ![path[r]] = dest]
        /\ fd' = [fd EXCEPT ![r] = dest]
        /\ cached[path[r]] # NoFile \/ FreeInodes # {}
    BY <1>3 DEF CreateDest, tempVars
  <2>2. \A q \in Requests : temp[q] # NoFile => temp[q] # dest
    <3>1. CASE cached[path[r]] # NoFile
      BY <1>1, <3>1 DEF TempPrivate
    <3>2. CASE cached[path[r]] = NoFile
      <4>1. NewInode \in FreeInodes
        BY <2>1, <3>2, NewInodeType
      <4>2. dest = NewInode
        BY <3>2
      <4> HIDE DEF NewInode, dest
      <4> QED BY <4>1, <4>2 DEF FreeInodes
    <3> QED BY <3>1, <3>2
  <2> HIDE DEF dest
  <2> QED BY <1>1, <2>1, <2>2 DEF TempPrivate
<1>4. CASE CopyBlock(r)
  BY <1>4 DEF CopyBlock, TempPrivate, tempVars
<1>5. CASE CopyDone(r)
  BY <1>1, <1>5 DEF CopyDone, CloseFile, TempPrivate, diskVars
<1>6. CASE PutFails(r)
  BY <1>1, <1>6 DEF PutFails, CloseFile, TempPrivate, diskVars
<1> QED BY <1>2, <1>3, <1>4, <1>5, <1>6 DEF Put

LEMMA ServePrivate ==
  ASSUME TypeInv, TempPrivate, NEW r \in Requests, Serve(r)
  PROVE  TempPrivate'
<1>1. /\ fd \in [Requests -> Inodes \cup {NoFile}]
      /\ path[r] \in Paths
  BY DEF TypeInv, TypeOK
<1>2. temp' = temp /\ cached' = cached
  BY DEF Serve, Open, OpenMissing, SendBlock, SendDone, SendBreaks,
         diskVars, tempVars
<1>3. \A q \in Requests : fd'[q] \in {fd[q], NoFile, cached[path[r]]}
  BY <1>1 DEF Serve, Open, OpenMissing, SendBlock, SendDone, SendBreaks,
              CloseFile, ioVars
<1> QED BY <1>1, <1>2, <1>3 DEF TempPrivate

LEMMA NextPrivate == TypeInv /\ TempPrivate /\ [Next]_vars => TempPrivate'
<1> SUFFICES ASSUME TypeInv, TempPrivate, [Next]_vars PROVE TempPrivate'
  OBVIOUS
<1>1. ASSUME NEW r \in Requests,
             LookupHit(r) \/ LookupMiss(r) \/ Leave(r)
               \/ \E p \in Paths : Arrive(r, p)
      PROVE  TempPrivate'
  BY <1>1 DEF LookupHit, LookupMiss, Leave, Arrive, TempPrivate, diskVars,
              ioVars, tempVars
<1>2. CASE Recover \/ UNCHANGED vars
  BY <1>2 DEF Recover, TempPrivate, vars, diskVars, ioVars, tempVars
<1>3. ASSUME NEW p \in Paths, CleanupRemoves(p)
      PROVE  TempPrivate'
  BY <1>3 DEF CleanupRemoves, TempPrivate, TypeInv, TypeOK, ioVars, tempVars
<1>4. CASE Crash
  BY <1>4 DEF Crash, TempPrivate
<1> QED BY <1>1, <1>2, <1>3, <1>4, FetchPrivate, PutPrivate, ServePrivate
        DEF Next, Handle

(* No temporary file shares its inode with another file, so a download in  *)
(* progress never touches what the cache serves.                           *)
THEOREM TempPrivateHolds == Spec => []TempPrivate
<1>1. Init => TempPrivate
  BY DEF Init, TempPrivate
<1> QED BY <1>1, InitType, NextType, NextPrivate, PTL DEF Spec

-----------------------------------------------------------------------------
(* InFlightExact: a count changes only in the steps that enter or leave    *)
(* "receive", and there by the mirror that is being tried, which is one.   *)
Downloads(m) == {r \in Requests : pc[r] = "receive" /\ current[r] = m}

MirrorKnown ==
  \A r \in Requests : pc[r] \in {"begin", "receive", "retry"} =>
    current[r] \in Mirrors /\ chosen[r] \in Mirrors

CountInv ==
  /\ MirrorKnown
  /\ \A m \in Mirrors : /\ IsFiniteSet(Downloads(m))
                        /\ inFlight[m] = Cardinality(Downloads(m))

LEMMA CountsUntouched ==
  ASSUME CountInv, inFlight' = inFlight, MirrorKnown',
         \A r \in Requests : pc'[r] = "receive" <=> pc[r] = "receive",
         \A r \in Requests : pc[r] = "receive" => current'[r] = current[r]
  PROVE  CountInv'
<1>1. \A m \in Mirrors : Downloads(m)' = Downloads(m)
  BY DEF Downloads
<1> QED BY <1>1 DEF CountInv

(* An attempt begins, and an attempt ends.                                 *)
LEMMA CountUp ==
  ASSUME TypeOK, CountInv, NEW r \in Requests, BeginAttempt(r)
  PROVE  CountInv'
<1> DEFINE k == current[r]
<1>1. /\ pc \in [Requests -> Locations] /\ inFlight \in [Mirrors -> Nat]
      /\ pc[r] = "begin" /\ pc' = [pc EXCEPT ![r] = "receive"]
      /\ current' = current /\ chosen' = chosen
      /\ inFlight' = [inFlight EXCEPT ![k] = @ + 1]
  BY DEF TypeOK, BeginAttempt, Move, Started
<1>2. k \in Mirrors
  BY <1>1 DEF CountInv, MirrorKnown
<1>3. Downloads(k)' = Downloads(k) \cup {r} /\ r \notin Downloads(k)
  BY <1>1 DEF Downloads
<1>4. \A m \in Mirrors \ {k} : Downloads(m)' = Downloads(m)
  BY <1>1 DEF Downloads
<1>5. MirrorKnown'
  BY <1>1 DEF CountInv, MirrorKnown
<1>6. /\ IsFiniteSet(Downloads(k)')
      /\ Cardinality(Downloads(k)') = Cardinality(Downloads(k)) + 1
  <2>1. IsFiniteSet(Downloads(k))
    BY <1>2 DEF CountInv
  <2> QED BY <1>3, <2>1, FS_AddElement
<1>7. \A m \in Mirrors : /\ IsFiniteSet(Downloads(m)')
                         /\ inFlight'[m] = Cardinality(Downloads(m)')
  BY <1>1, <1>2, <1>4, <1>6 DEF CountInv
<1> QED BY <1>5, <1>7 DEF CountInv

LEMMA CountDown ==
  ASSUME TypeOK, CountInv, NEW r \in Requests, ReceiveBody(r) \/ AttemptFails(r)
  PROVE  CountInv'
<1> DEFINE k == current[r]
<1>1. /\ pc \in [Requests -> Locations] /\ inFlight \in [Mirrors -> Nat]
      /\ pc[r] = "receive" /\ pc'[r] \in {"record", "retry"}
      /\ \A q \in Requests : q # r => pc'[q] = pc[q]
      /\ current' = current /\ chosen' = chosen
      /\ inFlight' = [inFlight EXCEPT ![k] = IF @ > 0 THEN @ - 1 ELSE 0]
  BY DEF TypeOK, ReceiveBody, AttemptFails, Move, Finished
<1>2. k \in Mirrors
  BY <1>1 DEF CountInv, MirrorKnown
<1>3. Downloads(k)' = Downloads(k) \ {r} /\ r \in Downloads(k)
  BY <1>1 DEF Downloads
<1>4. \A m \in Mirrors \ {k} : Downloads(m)' = Downloads(m)
  BY <1>1 DEF Downloads
<1>5. MirrorKnown'
  BY <1>1 DEF CountInv, MirrorKnown
<1>6. /\ IsFiniteSet(Downloads(k)')
      /\ Cardinality(Downloads(k)') = Cardinality(Downloads(k)) - 1
  <2>1. IsFiniteSet(Downloads(k))
    BY <1>2 DEF CountInv
  <2> QED BY <1>3, <2>1, FS_RemoveElement
<1>7. inFlight[k] # 0
  <2>1. IsFiniteSet(Downloads(k)) /\ inFlight[k] = Cardinality(Downloads(k))
    BY <1>2 DEF CountInv
  <2> QED BY <1>3, <2>1, FS_EmptySet
<1>8. inFlight'[k] = inFlight[k] - 1
  BY <1>1, <1>2, <1>7
<1>9. \A m \in Mirrors : /\ IsFiniteSet(Downloads(m)')
                         /\ inFlight'[m] = Cardinality(Downloads(m)')
  BY <1>1, <1>2, <1>4, <1>6, <1>8 DEF CountInv
<1> QED BY <1>5, <1>9 DEF CountInv

(* The other steps of FetchVersion and Download.                           *)
LEMMA FetchCount ==
  ASSUME TypeOK, CountInv, NEW r \in Requests, Fetch(r)
  PROVE  CountInv'
<1>1. CASE BeginAttempt(r)
  BY <1>1, CountUp
<1>2. CASE ReceiveBody(r) \/ AttemptFails(r)
  BY <1>2, CountDown
<1>3. ASSUME ~BeginAttempt(r), ~ReceiveBody(r), ~AttemptFails(r)
      PROVE  CountInv'
  <2> USE DEF TypeOK, Fetch, AcquireKey, RejectDuplicate, SelectMirror,
              NoMirrorLeft, TempFails, Retry, GiveUp, Record, Release, Reply,
              Move, mirrorVars
  <2>1. /\ inFlight' = inFlight
        /\ \A q \in Requests : q # r => /\ pc'[q] = pc[q]
                                        /\ current'[q] = current[q]
                                        /\ chosen'[q] = chosen[q]
        /\ pc[r] # "receive" /\ pc'[r] # "receive"
    BY <1>3
  <2>2. pc'[r] \in {"begin", "retry"} =>
          current'[r] \in Mirrors /\ chosen'[r] \in Mirrors
    <3>1. CASE SelectMirror(r)
      BY <3>1
    <3>2. CASE Retry(r)
      BY <3>2 DEF CountInv, MirrorKnown
    <3>3. CASE ~SelectMirror(r) /\ ~Retry(r)
      BY <1>3, <3>3 DEF CountInv, MirrorKnown
    <3> QED BY <3>1, <3>2, <3>3
  <2>3. MirrorKnown'
    BY <2>1, <2>2 DEF CountInv, MirrorKnown
  <2> QED BY <2>1, <2>3, CountsUntouched
<1> QED BY <1>1, <1>2, <1>3

LEMMA NextCount == TypeOK /\ CountInv /\ [Next]_vars => CountInv'
<1> SUFFICES ASSUME TypeOK, CountInv, [Next]_vars PROVE CountInv'
  OBVIOUS
<1>1. ASSUME NEW r \in Requests,
             \/ LookupHit(r) \/ LookupMiss(r) \/ Put(r) \/ Serve(r) \/ Leave(r)
             \/ \E p \in Paths : Arrive(r, p)
      PROVE  CountInv'
  <2>1. UNCHANGED mirrorVars
    BY <1>1 DEF LookupHit, LookupMiss, Put, PutRename, CreateDest, CopyBlock,
                CopyDone, PutFails, Serve, Open, OpenMissing, SendBlock,
                SendDone, SendBreaks, Leave, Arrive
  <2>2. /\ \A q \in Requests : q # r => pc'[q] = pc[q]
        /\ pc[r] \notin Fetching /\ pc'[r] \notin Fetching
    BY <1>1
       DEF LookupHit, LookupMiss, Put, PutRename, CreateDest, CopyBlock,
           CopyDone, PutFails, Serve, Open, OpenMissing, SendBlock,
           SendDone, SendBreaks, Leave, Arrive, Reply, Move, Fetching, TypeOK
  <2>3. MirrorKnown'
    BY <2>1, <2>2 DEF CountInv, MirrorKnown, Fetching, mirrorVars
  <2> QED BY <2>1, <2>2, <2>3, CountsUntouched DEF Fetching, mirrorVars
<1>2. CASE Recover \/ (\E p \in Paths : CleanupRemoves(p)) \/ UNCHANGED vars
  <2>1. pc' = pc /\ inFlight' = inFlight /\ current' = current /\ chosen' = chosen
    BY <1>2 DEF Recover, CleanupRemoves, vars, mirrorVars
  <2>2. MirrorKnown'
    BY <2>1 DEF CountInv, MirrorKnown
  <2> QED BY <2>1, <2>2, CountsUntouched
<1>3. CASE Crash
  <2>1. MirrorKnown' /\ \A m \in Mirrors : Downloads(m)' = {} /\ inFlight'[m] = 0
    BY <1>3 DEF Crash, MirrorKnown, Downloads
  <2> QED BY <2>1, FS_EmptySet DEF CountInv
<1> QED BY <1>1, <1>2, <1>3, FetchCount DEF Next, Handle

(* Through every retry, error and restart the in-flight count of a mirror  *)
(* is the number of handlers that download from it.                        *)
THEOREM InFlightExactHolds == Spec => []InFlightExact
<1>1. Init => CountInv
  <2>1. Init => /\ MirrorKnown
                /\ \A m \in Mirrors : Downloads(m) = {} /\ inFlight[m] = 0
    BY DEF Init, MirrorKnown, Downloads
  <2> QED BY <2>1, FS_EmptySet DEF CountInv
<1>2. CountInv => InFlightExact
  BY DEF CountInv, InFlightExact, Downloads
<1> QED BY <1>1, <1>2, NextCount, TypeCorrect, PTL DEF Spec

-----------------------------------------------------------------------------
(* CachedTracked: the tracker is told before the key is released, so that  *)
(* a file about to be stored is tracked; only a restart forgets.           *)
Recorded ==
  \A r \in Requests :
    \/ pc[r] \in {"put", "copy"}
    \/ pc[r] = "release" /\ outcome[r] # "error"
    => KeyOf[path[r]] \in tracked

LEMMA NextTracked ==
  ASSUME "crash" \notin Conditions, TypeOK, Recorded, CachedTracked, [Next]_vars
  PROVE  Recorded' /\ CachedTracked'
<1> USE DEF TypeOK, Recorded, CachedTracked
<1>1. ASSUME NEW r \in Requests, Fetch(r)
      PROVE  Recorded' /\ CachedTracked'
  <2> USE DEF Fetch, AcquireKey, RejectDuplicate, SelectMirror, NoMirrorLeft,
              BeginAttempt, TempFails, ReceiveBody, AttemptFails, Retry,
              GiveUp, Record, Release, Reply, Move, replyVars, lockVars, diskVars
  <2>1. /\ path' = path /\ cached' = cached /\ tracked \subseteq tracked'
        /\ \A q \in Requests : q # r => pc'[q] = pc[q] /\ outcome'[q] = outcome[q]
    BY <1>1
  <2>2. \/ pc'[r] = "put"
        \/ pc'[r] = "release" /\ outcome'[r] # "error"
        => KeyOf[path[r]] \in tracked'
    <3>1. CASE Record(r) \/ Release(r)
      BY <3>1
    <3>2. CASE ~Record(r) /\ ~Release(r)
      BY <1>1, <3>2
    <3> QED BY <3>1, <3>2
  <2>3. pc'[r] # "copy"
    BY <1>1
  <2> HIDE DEF Fetch
  <2> QED BY <2>1, <2>2, <2>3
<1>2. ASSUME NEW r \in Requests, Put(r)
      PROVE  Recorded' /\ CachedTracked'
  <2>1. /\ path' = path /\ tracked' = tracked /\ pc[r] \in {"put", "copy"}
        /\ \A q \in Requests : q # r => pc'[q] = pc[q] /\ outcome'[q] = outcome[q]
        /\ pc'[r] \in {"copy", "open", "done"}
        /\ \A p \in Paths \ {path[r]} : cached'[p] = cached[p]
    BY <1>2 DEF Put, PutRename, CreateDest, CopyBlock, CopyDone, PutFails, Reply,
                Move, replyVars, lockVars, diskVars
  <2> QED BY <2>1
<1>3. ASSUME NEW r \in Requests,
             LookupHit(r) \/ LookupMiss(r) \/ Serve(r) \/ Leave(r)
               \/ \E p \in Paths : Arrive(r, p)
      PROVE  Recorded' /\ CachedTracked'
  <2>1. /\ tracked' = tracked /\ cached' = cached
        /\ \A q \in Requests : q # r => /\ pc'[q] = pc[q] /\ path'[q] = path[q]
                                        /\ outcome'[q] = outcome[q]
        /\ pc'[r] \notin {"release", "put", "copy"}
    BY <1>3 DEF LookupHit, LookupMiss, Serve, Open, OpenMissing, SendBlock,
                SendDone, SendBreaks, Leave, Arrive, Reply, Move, replyVars,
                lockVars, diskVars
  <2> QED BY <2>1
<1>4. CASE Recover \/ (\E p \in Paths : CleanupRemoves(p)) \/ UNCHANGED vars
  BY <1>4 DEF Recover, CleanupRemoves, vars, replyVars, lockVars, diskVars
<1>5. ~Crash
  BY DEF Crash
<1> QED BY <1>1, <1>2, <1>3, <1>4, <1>5 DEF Next, Handle

(* Until a restart, the tracker knows each version that is in the cache.   *)
THEOREM CachedTrackedHolds ==
  ASSUME "crash" \notin Conditions
  PROVE  Spec => []CachedTracked
<1>1. Init => Recorded /\ CachedTracked
  BY DEF Init, Recorded, CachedTracked
<1> QED BY <1>1, NextTracked, TypeCorrect, PTL DEF Spec

-----------------------------------------------------------------------------
(* NoOrphans: what leaves a temporary file behind is a disk that fails in  *)
(* more than a rename, or is full when a file is stored.  A path refers to *)
(* one inode and a handler to two at most, so a disk with more inodes than *)
(* that is never full.                                                     *)
SoundDisk ==
  /\ Conditions \cap {"storage", "cleanup", "crash"} = {}
  /\ IsFiniteSet(Paths) /\ IsFiniteSet(Requests)
  /\ IsFiniteSet(Inodes) =>
       Cardinality(Inodes) > Cardinality(Paths) + 2 * Cardinality(Requests)

FileInUse ==
  \A r \in Requests :
    /\ temp[r] # NoFile => pc[r] = "receive" \/ Downloaded(r)
    /\ fd[r] # NoFile => pc[r] \in {"copy", "send"}
    /\ pc[r] = "copy" => fd[r] \in Inodes
    /\ pc[r] \in {"lookup", "acquire", "select", "begin", "receive", "retry",
                  "record"} => outcome[r] = "none"

LEMMA UnionSize ==
  ASSUME NEW S, NEW U, IsFiniteSet(S), IsFiniteSet(U)
  PROVE  /\ IsFiniteSet(S \cup U)
         /\ Cardinality(S \cup U) <= Cardinality(S) + Cardinality(U)
<1>1. IsFiniteSet(S \cap U) /\ Cardinality(S \cap U) \in Nat
  BY FS_Intersection, FS_CardinalityType
<1>2. Cardinality(S) \in Nat /\ Cardinality(U) \in Nat
  BY FS_CardinalityType
<1>3. /\ IsFiniteSet(S \cup U)
      /\ Cardinality(S \cup U) =
           Cardinality(S) + Cardinality(U) - Cardinality(S \cap U)
  BY FS_Union, Zenon
<1> QED BY <1>1, <1>2, <1>3

LEMMA DiskNotFull ==
  ASSUME SoundDisk, TypeOK
  PROVE  FreeInodes # {}
<1> DEFINE C == {cached[p] : p \in Paths}
           T == {temp[r] : r \in Requests}
           D == {fd[r] : r \in Requests}
<1>1. IsFiniteSet(C) /\ Cardinality(C) <= Cardinality(Paths)
  <2>1. cached \in Surjection(Paths, C)
    BY DEF TypeOK, Surjection
  <2> QED BY <2>1, FS_Surjection DEF SoundDisk
<1>2. IsFiniteSet(T) /\ Cardinality(T) <= Cardinality(Requests)
  <2>1. temp \in Surjection(Requests, T)
    BY DEF TypeOK, Surjection
  <2> QED BY <2>1, FS_Surjection DEF SoundDisk
<1>3. IsFiniteSet(D) /\ Cardinality(D) <= Cardinality(Requests)
  <2>1. fd \in Surjection(Requests, D)
    BY DEF TypeOK, Surjection
  <2> QED BY <2>1, FS_Surjection DEF SoundDisk
<1>4. CASE FreeInodes = {}
  <2>1. Inodes \subseteq C \cup (T \cup D)
    BY <1>4 DEF FreeInodes
  <2> HIDE DEF C, T, D
  <2>2. /\ IsFiniteSet(T \cup D)
        /\ Cardinality(T \cup D) <= Cardinality(T) + Cardinality(D)
    BY <1>2, <1>3, UnionSize
  <2>3. /\ IsFiniteSet(C \cup (T \cup D))
        /\ Cardinality(C \cup (T \cup D)) <= Cardinality(C) + Cardinality(T \cup D)
    BY <1>1, <2>2, UnionSize
  <2>4. /\ IsFiniteSet(Inodes)
        /\ Cardinality(Inodes) <= Cardinality(C \cup (T \cup D))
    BY <2>1, <2>3, FS_Subset
  <2>5. /\ Cardinality(Inodes) \in Nat /\ Cardinality(C \cup (T \cup D)) \in Nat
        /\ Cardinality(C) \in Nat /\ Cardinality(T) \in Nat /\ Cardinality(D) \in Nat
        /\ Cardinality(T \cup D) \in Nat
        /\ Cardinality(Paths) \in Nat /\ Cardinality(Requests) \in Nat
    BY <1>1, <1>2, <1>3, <2>2, <2>3, <2>4, FS_CardinalityType DEF SoundDisk
  <2>6. Cardinality(Inodes) > Cardinality(Paths) + 2 * Cardinality(Requests)
    BY <2>4 DEF SoundDisk
  <2> QED BY <1>1, <1>2, <1>3, <2>2, <2>3, <2>4, <2>5, <2>6
<1> QED BY <1>4

(* On a sound disk storing does not fail.                                  *)
LEMMA DiskKeeps ==
  ASSUME SoundDisk, TypeOK
  PROVE  ~Crash /\ \A r \in Requests : ~PutFails(r)
<1>1. ~DiskRefuses
  BY DiskNotFull DEF DiskRefuses, SoundDisk
<1> QED BY <1>1 DEF SoundDisk, Crash, PutFails

LEMMA NextInUse ==
  ASSUME SoundDisk, TypeInv, FileInUse, NoOrphans, [Next]_vars
  PROVE  FileInUse' /\ NoOrphans'
<1> USE DEF TypeInv, TypeOK, FileInUse, NoOrphans, Downloaded
<1>1. ASSUME NEW r \in Requests, Fetch(r)
      PROVE  FileInUse' /\ NoOrphans'
  <2> USE DEF Fetch, AcquireKey, RejectDuplicate, SelectMirror, NoMirrorLeft,
              BeginAttempt, TempFails, ReceiveBody, AttemptFails, Retry,
              GiveUp, Record, Release, Reply, Move, replyVars, diskVars,
              ioVars, tempVars
  <2>1. /\ path' = path /\ cached' = cached /\ fd' = fd /\ orphaned' = orphaned
        /\ \A q \in Requests : q # r => /\ pc'[q] = pc[q] /\ temp'[q] = temp[q]
                                        /\ outcome'[q] = outcome[q]
        /\ pc[r] \notin {"copy", "send"} /\ pc'[r] \notin {"copy", "send"}
    BY <1>1 DEF SoundDisk
  <2>2. /\ temp'[r] # NoFile =>
             \/ pc'[r] \in {"receive", "record", "put"}
             \/ pc'[r] = "release" /\ outcome'[r] # "error"
        /\ pc'[r] \in {"select", "begin", "receive", "retry", "record"} =>
             outcome'[r] = "none"
        /\ pc'[r] \notin {"lookup", "acquire"}
    BY <1>1
  <2> HIDE DEF Fetch
  <2> QED BY <2>1, <2>2
<1>2. ASSUME NEW r \in Requests, Put(r)
      PROVE  FileInUse' /\ NoOrphans'
  <2>1. PutRename(r) \/ CreateDest(r) \/ CopyBlock(r) \/ CopyDone(r)
    BY <1>2, DiskKeeps DEF Put
  <2>2. CASE PutRename(r)
    BY <2>2 DEF PutRename, Move, replyVars, ioVars
  <2>3. CASE CreateDest(r)
    <3> DEFINE dest == IF cached[path[r]] # NoFile THEN cached[path[r]] ELSE NewInode
    <3>1. /\ pc[r] = "put" /\ pc' = [pc EXCEPT ![r] = "copy"]
          /\ fd' = [fd EXCEPT ![r] = dest]
          /\ UNCHANGED <<path, outcome, temp, orphaned>>
      BY <2>3 DEF CreateDest, Move, replyVars, tempVars
    <3>2. dest \in Inodes
      <4>1. FreeInodes # {} => NewInode \in Inodes
        BY NewInodeType DEF FreeInodes
      <4>2. cached[path[r]] = NoFile => FreeInodes # {}
        BY <2>3 DEF CreateDest
      <4> QED BY <4>1, <4>2
    <3> HIDE DEF dest
    <3> QED BY <3>1, <3>2
  <2>4. CASE CopyBlock(r)
    BY <2>4 DEF CopyBlock, replyVars, tempVars
  <2>5. CASE CopyDone(r)
    <3>1. /\ pc[r] = "copy" /\ pc' = [pc EXCEPT ![r] = "open"]
          /\ fd' = [fd EXCEPT ![r] = NoFile]
          /\ temp' = [temp EXCEPT ![r] = NoFile]
          /\ UNCHANGED <<path, outcome, cached, orphaned>>
      BY <2>5 DEF CopyDone, CloseFile, Move, replyVars, diskVars, SoundDisk
    <3> QED BY <3>1
  <2> QED BY <2>1, <2>2, <2>3, <2>4, <2>5
<1>3. ASSUME NEW r \in Requests,
             LookupHit(r) \/ LookupMiss(r) \/ Serve(r) \/ Leave(r)
               \/ \E p \in Paths : Arrive(r, p)
      PROVE  FileInUse' /\ NoOrphans'
  <2>1. /\ cached' = cached /\ temp' = temp /\ orphaned' = orphaned
        /\ \A q \in Requests : q # r => /\ pc'[q] = pc[q] /\ path'[q] = path[q]
                                        /\ outcome'[q] = outcome[q]
                                        /\ fd'[q] = fd[q]
        /\ pc[r] \notin {"receive", "record", "release", "put", "copy"}
        /\ pc'[r] \in {"idle", "lookup", "acquire", "open", "send", "done"}
        /\ pc'[r] \in {"lookup", "acquire"} => outcome'[r] = "none"
        /\ fd'[r] # NoFile => pc'[r] = "send"
    BY <1>3 DEF LookupHit, LookupMiss, Serve, Open, OpenMissing, SendBlock,
                SendDone, SendBreaks, Leave, Arrive, CloseFile, Reply, Move,
                replyVars, diskVars, ioVars, tempVars
  <2> QED BY <2>1
<1>4. CASE Recover \/ (\E p \in Paths : CleanupRemoves(p)) \/ UNCHANGED vars
  BY <1>4 DEF Recover, CleanupRemoves, vars, replyVars, diskVars, ioVars,
              tempVars
<1> QED BY <1>1, <1>2, <1>3, <1>4, DiskKeeps DEF Next, Handle

(* As long as the process does not crash and nothing on disk fails but     *)
(* renames, every temporary file is renamed, copied and removed, or        *)
(* removed after the error.                                                *)
THEOREM NoOrphansHolds ==
  ASSUME SoundDisk
  PROVE  Spec => []NoOrphans
<1>1. Init => FileInUse /\ NoOrphans
  BY DEF Init, FileInUse, NoOrphans, Downloaded
<1> QED BY <1>1, InitType, NextType, NextInUse, PTL DEF Spec
=============================================================================
