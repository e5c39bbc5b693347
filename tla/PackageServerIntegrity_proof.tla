-------------------- MODULE PackageServerIntegrity_proof --------------------
(***************************************************************************)
(* The cache never holds, and no client is ever sent as a success, a file  *)
(* that is not whole; and PackageServer implements ReadThroughCache.       *)
(*                                                                         *)
(* These hold under the assumption Sound, and each part of it is needed:   *)
(* the copy that follows a failed rename exposes partial files, a damaged  *)
(* body passes because no checksum is compared, and a body cut short       *)
(* passes when the mirror did not declare its length.  What is left where  *)
(* renames may fail, on a disk that is sound otherwise, is WrittenOut.     *)
(***************************************************************************)
EXTENDS PackageServer_proof

USE PackageServerAssumption

(* Mirrors that send the right bytes, or too few of a length they declared. *)
Honest ==
  /\ "corrupt" \notin Conditions
  /\ DeclaredLength \/ "short" \notin Conditions

(* A rename cannot fail: the directories share a filesystem that does not  *)
(* refuse one, and no Cleanup takes the directory away under a handler.    *)
Sound == ~RenameMayFail /\ Honest

(* The inductive invariant: what a handler holds at each place it can be.  *)
WholeDownloads == \A r \in Requests : Downloaded(r) => Complete(temp[r])

NoCopying == \A r \in Requests : pc[r] # "copy"

SendingWhole ==
  \A r \in Requests :
    pc[r] = "send" =>
      /\ fd[r] \in Inodes
      /\ Complete(fd[r])
      /\ length[r] = Blocks
      /\ body[r] = 1..offset[r]

NothingSent ==
  \A r \in Requests :
    /\ pc[r] # "send" => offset[r] = 0
    /\ pc[r] \notin {"send", "done"} => body[r] = {}

IInv ==
  /\ TypeInv
  /\ TempPrivate
  /\ CachedComplete
  /\ WholeDownloads
  /\ NoCopying
  /\ SendingWhole
  /\ NothingSent
  /\ ServedComplete

LEMMA InitIntegrity == Init => IInv
<1> SUFFICES ASSUME Init PROVE IInv
  OBVIOUS
<1>1. TypeInv
  BY InitType
<1>2. /\ TempPrivate /\ CachedComplete /\ WholeDownloads /\ NoCopying
      /\ SendingWhole /\ NothingSent /\ ServedComplete
  BY DEF Init, TempPrivate, CachedComplete, WholeDownloads, NoCopying, Downloaded,
         SendingWhole, NothingSent, ServedComplete
<1> QED BY <1>1, <1>2 DEF IInv

(* A step of a fetch writes only to the temporary file of its handler.     *)
InUse(i, r) ==
  \/ \E p \in Paths : i = cached[p]
  \/ \E q \in Requests : i = fd[q]
  \/ \E q \in Requests \ {r} : i = temp[q]

LEMMA FetchKeepsFiles ==
  ASSUME TypeInv, TempPrivate, NEW r \in Requests, Fetch(r)
  PROVE  \A i \in Inodes :
           InUse(i, r) => size'[i] = size[i] /\ good'[i] = good[i]
<1>0. /\ size \in [Inodes -> 0..Blocks]
      /\ good \in [Inodes -> SUBSET Block]
  BY DEF TypeInv, TypeOK
<1>1. CASE BeginAttempt(r)
  <2>1. NewInode \in FreeInodes
    BY <1>1, NewInodeType DEF BeginAttempt
  <2>2. /\ size' = [size EXCEPT ![NewInode] = 0]
        /\ good' = [good EXCEPT ![NewInode] = {}]
    BY <1>1 DEF BeginAttempt
  <2> HIDE DEF NewInode
  <2> QED BY <1>0, <2>1, <2>2 DEF FreeInodes, InUse
<1>2. CASE ReceiveBody(r)
  <2>1. PICK b \in AcceptedBodies :
          /\ size' = [size EXCEPT ![temp[r]] = b.size]
          /\ good' = [good EXCEPT ![temp[r]] = b.good]
    BY <1>2 DEF ReceiveBody
  <2>2. temp[r] \in Inodes /\ temp[r] # NoFile
    BY <1>2 DEF ReceiveBody, Move, TypeInv, TempOwned
  <2> QED BY <1>0, <2>1, <2>2 DEF TempPrivate, InUse
<1>3. CASE ~BeginAttempt(r) /\ ~ReceiveBody(r)
  BY <1>3 DEF Fetch, AcquireKey, RejectDuplicate, SelectMirror, NoMirrorLeft,
              TempFails, AttemptFails, Retry, GiveUp, Record, Release,
              diskVars
<1> QED BY <1>1, <1>2, <1>3

(* From an honest mirror, what a handler takes for a download is whole.    *)
LEMMA FetchWhole ==
  ASSUME Honest, TypeInv, NEW r \in Requests, Fetch(r),
         Downloaded(r) => Complete(temp[r])
  PROVE  Downloaded(r)' => Complete(temp[r])'
<1>0. /\ pc \in [Requests -> Locations]
      /\ outcome \in [Requests -> Outcomes]
      /\ size \in [Inodes -> 0..Blocks]
      /\ good \in [Inodes -> SUBSET Block]
  BY DEF TypeInv, TypeOK
<1>1. CASE ReceiveBody(r)
  <2>1. AcceptedBodies = {[size |-> Blocks, good |-> Block]}
    BY DEF AcceptedBodies, Honest
  <2>2. PICK b \in AcceptedBodies :
          /\ size' = [size EXCEPT ![temp[r]] = b.size]
          /\ good' = [good EXCEPT ![temp[r]] = b.good]
    BY <1>1 DEF ReceiveBody
  <2>3. temp[r] \in Inodes /\ temp' = temp
    BY <1>1 DEF ReceiveBody, Move, TypeInv, TempOwned, tempVars
  <2> QED BY <1>0, <2>1, <2>2, <2>3 DEF Complete
<1>2. CASE Record(r) \/ Release(r)
  <2>1. Downloaded(r)' => Downloaded(r)
    BY <1>0, <1>2 DEF Record, Release, Move, Downloaded, replyVars
  <2>2. temp' = temp /\ size' = size /\ good' = good
    BY <1>2 DEF Record, Release, diskVars, tempVars
  <2> QED BY <2>1, <2>2 DEF Complete
<1>3. CASE ~ReceiveBody(r) /\ ~Record(r) /\ ~Release(r)
  <2>1. ~Downloaded(r)'
    BY <1>0, <1>3
       DEF Fetch, AcquireKey, RejectDuplicate, SelectMirror, NoMirrorLeft,
           BeginAttempt, TempFails, AttemptFails, Retry, GiveUp, Reply,
           Move, Downloaded, replyVars
  <2> QED BY <2>1
<1> QED BY <1>1, <1>2, <1>3

(* A step that changes no file in use and nothing a handler relies on      *)
(* keeps the invariant.                                                    *)
LEMMA FetchIntegrity ==
  ASSUME Sound, IInv, NEW r \in Requests, Fetch(r)
  PROVE  IInv'
<1>1. TypeInv' /\ TempPrivate'
  BY FetchType, FetchPrivate DEF IInv
<1>2. /\ pc \in [Requests -> Locations]
      /\ outcome \in [Requests -> Outcomes]
      /\ size \in [Inodes -> 0..Blocks]
      /\ good \in [Inodes -> SUBSET Block]
      /\ temp \in [Requests -> Inodes \cup {NoFile}]
  BY DEF IInv, TypeInv, TypeOK
<1>3. /\ cached' = cached /\ fd' = fd /\ length' = length
      /\ offset' = offset /\ body' = body
      /\ \A q \in Requests : q # r => /\ pc'[q] = pc[q]
                                      /\ outcome'[q] = outcome[q]
                                      /\ temp'[q] = temp[q]
  BY <1>2 DEF Fetch, AcquireKey, RejectDuplicate, SelectMirror, NoMirrorLeft,
              BeginAttempt, TempFails, ReceiveBody, AttemptFails, Retry,
              GiveUp, Record, Release, Reply, Move,
              replyVars, diskVars, ioVars, tempVars
<1>4. /\ pc[r] \notin {"send", "done", "copy"}
      /\ pc'[r] \notin {"send", "copy"}
      /\ pc'[r] = "done" => outcome'[r] # "ok"
  BY <1>2 DEF Fetch, AcquireKey, RejectDuplicate, SelectMirror, NoMirrorLeft,
              BeginAttempt, TempFails, ReceiveBody, AttemptFails, Retry,
              GiveUp, Record, Release, Reply, Move, replyVars
<1>5. \A i \in Inodes :
        InUse(i, r) => size'[i] = size[i] /\ good'[i] = good[i]
  BY FetchKeepsFiles DEF IInv
<1>6. Downloaded(r)' => Complete(temp[r])'
  BY FetchWhole DEF IInv, WholeDownloads, Sound
<1>7. CachedComplete'
  BY <1>3, <1>5 DEF InUse, IInv, TypeInv, TypeOK, CachedComplete, Complete
<1>8. (WholeDownloads /\ NoCopying)'
  <2>1. ASSUME NEW q \in Requests, q # r, Downloaded(q)'
        PROVE  Complete(temp[q])'
    <3>1. Downloaded(q)
      BY <1>3, <2>1 DEF Downloaded
    <3>2. temp[q] \in Inodes /\ Complete(temp[q])
      BY <3>1 DEF IInv, TypeInv, TempOwned, WholeDownloads, NoCopying
    <3> QED BY <1>3, <1>5, <2>1, <3>2 DEF InUse, Complete
  <2> QED BY <1>3, <1>4, <1>6, <2>1 DEF IInv, WholeDownloads, NoCopying
<1>9. SendingWhole'
  BY <1>3, <1>4, <1>5 DEF InUse, IInv, SendingWhole, Complete
<1>10. NothingSent' /\ ServedComplete'
  BY <1>3, <1>4 DEF IInv, NothingSent, ServedComplete
<1> QED BY <1>1, <1>7, <1>8, <1>9, <1>10 DEF IInv

LEMMA PutIntegrity ==
  ASSUME Sound, IInv, NEW r \in Requests, Put(r)
  PROVE  IInv'
<1>1. TypeInv' /\ TempPrivate'
  BY PutType, PutPrivate DEF IInv
<1>2. /\ pc \in [Requests -> Locations]
      /\ outcome \in [Requests -> Outcomes]
      /\ temp \in [Requests -> Inodes \cup {NoFile}]
      /\ fd \in [Requests -> Inodes \cup {NoFile}]
      /\ offset \in [Requests -> 0..Blocks]
      /\ cached \in [Paths -> Inodes \cup {NoFile}]
      /\ path[r] \in Paths
  BY DEF IInv, TypeInv, TypeOK
<1>3. PutRename(r) \/ PutFails(r)
  BY DEF Put, CreateDest, CopyBlock, CopyDone, Move, Sound, IInv,
         WholeDownloads, NoCopying
<1>4. pc[r] = "put" /\ Downloaded(r) /\ Complete(temp[r])
  BY <1>3 DEF PutRename, PutFails, Reply, Move, IInv, WholeDownloads,
              NoCopying, Downloaded
<1>5. /\ size' = size /\ good' = good /\ body' = body
      /\ \A q \in Requests : q # r => /\ pc'[q] = pc[q]
                                      /\ outcome'[q] = outcome[q]
                                      /\ temp'[q] = temp[q]
                                      /\ fd'[q] = fd[q]
                                      /\ offset'[q] = offset[q]
                                      /\ length'[q] = length[q]
      /\ offset'[r] \in {offset[r], 0}
      /\ \/ pc'[r] = "open"
         \/ pc'[r] = "done" /\ outcome'[r] = "error"
  BY <1>2, <1>3 DEF PutRename, PutFails, Reply, Move, CloseFile, replyVars,
                    diskVars, ioVars, TypeInv, TypeOK, IInv
<1>6. CachedComplete'
  <2>1. \A p \in Paths : cached'[p] = cached[p] \/ cached'[p] = temp[r]
    BY <1>2, <1>3 DEF PutRename, PutFails, diskVars
  <2> QED BY <1>4, <1>5, <2>1 DEF IInv, CachedComplete, Complete
<1>7. (WholeDownloads /\ NoCopying)'
  BY <1>5 DEF IInv, WholeDownloads, NoCopying, Downloaded, Complete
<1>8. SendingWhole'
  BY <1>5 DEF IInv, SendingWhole, Complete
<1>9. NothingSent' /\ ServedComplete'
  BY <1>4, <1>5 DEF IInv, NothingSent, ServedComplete
<1> QED BY <1>1, <1>6, <1>7, <1>8, <1>9 DEF IInv

LEMMA ServeIntegrity ==
  ASSUME Sound, IInv, NEW r \in Requests, Serve(r)
  PROVE  IInv'
<1>1. TypeInv' /\ TempPrivate'
  BY ServeType, ServePrivate DEF IInv
<1>2. /\ pc \in [Requests -> Locations]
      /\ outcome \in [Requests -> Outcomes]
      /\ fd \in [Requests -> Inodes \cup {NoFile}]
      /\ offset \in [Requests -> 0..Blocks]
      /\ length \in [Requests -> 0..Blocks]
      /\ body \in [Requests -> SUBSET Block]
      /\ cached \in [Paths -> Inodes \cup {NoFile}]
      /\ path[r] \in Paths
  BY DEF IInv, TypeInv, TypeOK
<1>3. /\ cached' = cached /\ size' = size /\ good' = good /\ temp' = temp
      /\ \A q \in Requests : q # r => /\ pc'[q] = pc[q]
                                      /\ outcome'[q] = outcome[q]
                                      /\ fd'[q] = fd[q]
                                      /\ offset'[q] = offset[q]
                                      /\ length'[q] = length[q]
                                      /\ body'[q] = body[q]
  BY <1>2 DEF Serve, Open, OpenMissing, SendBlock, SendDone, SendBreaks,
              Reply, Move, CloseFile, replyVars, diskVars, ioVars, tempVars
<1>4. CachedComplete'
  BY <1>3 DEF IInv, CachedComplete, Complete
<1>5. pc'[r] \in {"send", "done"}
  BY <1>2 DEF Serve, Open, OpenMissing, SendBlock, SendDone, SendBreaks,
              Reply, Move
<1>6. (WholeDownloads /\ NoCopying)'
  BY <1>3, <1>5 DEF IInv, WholeDownloads, NoCopying, Downloaded, Complete
<1>7. /\ pc'[r] = "send" =>
           /\ fd'[r] \in Inodes
           /\ Complete(fd'[r])
           /\ length'[r] = Blocks
           /\ body'[r] = 1..offset'[r]
      /\ pc'[r] # "send" => offset'[r] = 0
      /\ pc'[r] = "done" /\ outcome'[r] = "ok" => body'[r] = Block
  <2>1. CASE Open(r)
    <3>1. Complete(cached[path[r]]) /\ offset[r] = 0 /\ body[r] = {}
      BY <1>2, <2>1 DEF Open, Move, IInv, CachedComplete, NothingSent
    <3>2. /\ pc'[r] = "send" /\ fd'[r] = cached[path[r]]
          /\ length'[r] = size[cached[path[r]]]
          /\ offset' = offset /\ body' = body /\ fd'[r] \in Inodes
      BY <1>2, <2>1 DEF Open, Move
    <3>3. size[cached[path[r]]] = Blocks /\ 1..0 = {}
      BY <3>1 DEF Complete
    <3> QED BY <3>1, <3>2, <3>3
  <2>2. CASE OpenMissing(r)
    BY <1>2, <2>2 DEF OpenMissing, Reply, Move, ioVars, IInv, NothingSent
  <2>3. CASE SendBlock(r)
    <3>1. /\ pc[r] = "send" /\ Complete(fd[r]) /\ fd[r] \in Inodes
          /\ length[r] = Blocks /\ body[r] = 1..offset[r]
      BY <2>3 DEF SendBlock, IInv, SendingWhole
    <3>2. offset[r] + 1 \in Block
      BY <1>2, <2>3, <3>1 DEF SendBlock, Block
    <3>3. /\ pc' = pc /\ fd' = fd /\ length' = length
          /\ offset'[r] = offset[r] + 1
          /\ body'[r] = body[r] \cup {offset[r] + 1}
      BY <1>2, <2>3, <3>1, <3>2 DEF SendBlock, Complete
    <3>4. 1..(offset[r] + 1) = (1..offset[r]) \cup {offset[r] + 1}
      BY <1>2
    <3> QED BY <3>1, <3>3, <3>4
  <2>4. CASE SendDone(r)
    <3>1. /\ pc[r] = "send" /\ body[r] = 1..offset[r] /\ length[r] = Blocks
      BY <2>4 DEF SendDone, Reply, Move, IInv, SendingWhole
    <3>2. /\ pc'[r] = "done" /\ body' = body /\ offset'[r] = 0
          /\ offset[r] = length[r]
      BY <1>2, <2>4 DEF SendDone, Reply, Move, CloseFile
    <3> QED BY <3>1, <3>2 DEF Block
  <2>5. CASE SendBreaks(r)
    BY <1>2, <2>5 DEF SendBreaks, Reply, Move, CloseFile
  <2> QED BY <2>1, <2>2, <2>3, <2>4, <2>5 DEF Serve
<1>8. SendingWhole'
  BY <1>3, <1>7 DEF IInv, SendingWhole, Complete
<1>9. NothingSent' /\ ServedComplete'
  BY <1>3, <1>5, <1>7 DEF IInv, NothingSent, ServedComplete
<1> QED BY <1>1, <1>4, <1>6, <1>8, <1>9 DEF IInv

LEMMA NextIntegrity == Sound /\ IInv /\ [Next]_vars => IInv'
<1> SUFFICES ASSUME Sound, IInv, [Next]_vars PROVE IInv'
  OBVIOUS
<1>1. TypeInv' /\ TempPrivate'
  BY NextType, NextPrivate DEF IInv
<1>2. pc \in [Requests -> Locations] /\ cached \in [Paths -> Inodes \cup {NoFile}]
  BY DEF IInv, TypeInv, TypeOK
<1> DEFINE Rest == /\ CachedComplete /\ WholeDownloads /\ NoCopying
                   /\ SendingWhole /\ NothingSent /\ ServedComplete
<1>3. ASSUME NEW r \in Requests,
             LookupHit(r) \/ LookupMiss(r) \/ \E p \in Paths : Arrive(r, p)
      PROVE  Rest'
  <2>1. /\ UNCHANGED <<diskVars, ioVars, tempVars>>
        /\ \A q \in Requests : q # r => /\ pc'[q] = pc[q]
                                        /\ outcome'[q] = outcome[q]
        /\ pc[r] \in {"idle", "lookup"}
        /\ pc'[r] \in {"lookup", "open", "acquire"}
    BY <1>2, <1>3 DEF LookupHit, LookupMiss, Arrive, Move, replyVars, IInv,
                      TypeInv, TypeOK
  <2> QED BY <2>1 DEF IInv, CachedComplete, WholeDownloads, NoCopying,
                      SendingWhole, NothingSent, ServedComplete, Downloaded, Complete,
                      diskVars, ioVars, tempVars
<1>4. ASSUME NEW r \in Requests, Leave(r)
      PROVE  Rest'
  <2>1. /\ UNCHANGED <<replyVars, diskVars, fd, offset, length, tempVars>>
        /\ \A q \in Requests : q # r => /\ pc'[q] = pc[q]
                                        /\ body'[q] = body[q]
        /\ pc[r] = "done" /\ pc'[r] = "idle" /\ body'[r] = {}
    BY <1>2, <1>4 DEF Leave, Move, IInv, TypeInv, TypeOK
  <2> QED BY <2>1 DEF IInv, CachedComplete, WholeDownloads, NoCopying,
                      SendingWhole, NothingSent, ServedComplete, Downloaded, Complete,
                      replyVars, diskVars, tempVars
<1>5. ASSUME Recover \/ UNCHANGED vars
      PROVE  Rest'
  <2>1. UNCHANGED <<pc, replyVars, diskVars, ioVars, tempVars>>
    BY <1>5 DEF Recover, vars
  <2>2. CachedComplete' /\ (WholeDownloads /\ NoCopying)'
    BY <2>1 DEF IInv, CachedComplete, WholeDownloads, NoCopying, Downloaded,
                Complete, replyVars, diskVars, tempVars
  <2>3. SendingWhole' /\ NothingSent' /\ ServedComplete'
    BY <2>1 DEF IInv, SendingWhole, NothingSent, ServedComplete, Complete,
                replyVars, diskVars, ioVars
  <2> QED BY <2>2, <2>3
<1>6. ASSUME NEW p \in Paths, CleanupRemoves(p)
      PROVE  Rest'
  BY <1>2, <1>6 DEF CleanupRemoves, IInv, CachedComplete, WholeDownloads,
              NoCopying, SendingWhole, NothingSent, ServedComplete, Downloaded, Complete,
              replyVars, ioVars, tempVars
<1>7. ASSUME Crash
      PROVE  Rest'
  <2>1. CachedComplete'
    BY <1>7 DEF Crash, IInv, CachedComplete, Complete, diskVars
  <2>2. \A r \in Requests : pc'[r] = "idle" /\ offset'[r] = 0 /\ body'[r] = {}
    BY <1>7 DEF Crash
  <2> QED BY <2>1, <2>2 DEF WholeDownloads, NoCopying, SendingWhole, NothingSent,
                            ServedComplete, Downloaded
<1>8. ASSUME NEW r \in Requests, Fetch(r) \/ Put(r) \/ Serve(r)
      PROVE  IInv'
  BY <1>8, FetchIntegrity, PutIntegrity, ServeIntegrity
<1> QED BY <1>1, <1>3, <1>4, <1>5, <1>6, <1>7, <1>8 DEF IInv, Next, Handle

LEMMA Integrity ==
  ASSUME Sound
  PROVE  Spec => []IInv
<1>1. IInv /\ [Next]_vars => IInv'
  BY NextIntegrity
<1> QED BY InitIntegrity, <1>1, PTL DEF Spec

(* Whatever else fails, no file in the cache is partial, at any moment, as *)
(* long as renames do not fail.                                            *)
THEOREM CacheIntegrity ==
  ASSUME Sound
  PROVE  Spec => []CachedComplete
<1>1. IInv => CachedComplete
  BY DEF IInv
<1> QED BY Integrity, <1>1, PTL

(* No client takes a partial file for a whole one, not even when the file  *)
(* is replaced or removed while it is being sent.                          *)
THEOREM ServedCompleteHolds ==
  ASSUME Sound
  PROVE  Spec => []ServedComplete
<1>1. IInv => ServedComplete
  BY DEF IInv
<1> QED BY Integrity, <1>1, PTL

-----------------------------------------------------------------------------
(* The refinement.  With whole files only, what is available is what is    *)
(* cached, and a step moves the phase of one request at most.              *)
phaseOf == [r \in Requests |-> Phase(r)]

LEMMA AvailableIsCached ==
  CachedComplete => Available = {p \in Paths : cached[p] # NoFile}
BY DEF CachedComplete, Available

LEMMA OnePhase ==
  ASSUME NEW r \in Requests, \A q \in Requests : q # r => Phase(q)' = Phase(q)
  PROVE  phaseOf' = [phaseOf EXCEPT ![r] = Phase(r)']
BY DEF phaseOf

LEMMA SamePhase ==
  ASSUME \A q \in Requests : Phase(q)' = Phase(q)
  PROVE  phaseOf' = phaseOf
BY DEF phaseOf

(* A handler that is fetching is waiting for its file, or has failed.      *)
LEMMA FetchRefines ==
  ASSUME Sound, IInv, IInv', NEW r \in Requests, Fetch(r)
  PROVE  Promise!Next \/ UNCHANGED Promise!vars
<1>1. /\ pc \in [Requests -> Locations]
      /\ outcome \in [Requests -> Outcomes]
  BY DEF IInv, TypeInv, TypeOK
<1>2. /\ cached' = cached /\ path' = path /\ body' = body
      /\ \A q \in Requests : q # r => /\ pc'[q] = pc[q]
                                      /\ outcome'[q] = outcome[q]
  BY <1>1 DEF Fetch, AcquireKey, RejectDuplicate, SelectMirror, NoMirrorLeft,
              BeginAttempt, TempFails, ReceiveBody, AttemptFails, Retry,
              GiveUp, Record, Release, Reply, Move,
              replyVars, diskVars, ioVars
<1>3. /\ pc[r] \notin {"idle", "send", "done"}
      /\ \/ pc'[r] \notin {"idle", "send", "done"}
         \/ pc'[r] = "done" /\ outcome'[r] = "error"
  BY <1>1 DEF Fetch, AcquireKey, RejectDuplicate, SelectMirror, NoMirrorLeft,
              BeginAttempt, TempFails, ReceiveBody, AttemptFails, Retry,
              GiveUp, Record, Release, Reply, Move, replyVars
<1>4. Available' = Available
  BY <1>2, AvailableIsCached DEF IInv, CachedComplete, Available
<1>5. \A q \in Requests : q # r => Phase(q)' = Phase(q)
  BY <1>2 DEF Phase
<1>6. Phase(r) = "waiting"
  BY <1>3 DEF Phase
<1>7. CASE pc'[r] \notin {"idle", "send", "done"}
  <2>1. Phase(r)' = "waiting"
    BY <1>7 DEF Phase
  <2> QED BY <1>2, <1>4, <1>5, <1>6, <2>1, SamePhase DEF Promise!vars, phaseOf
<1>8. CASE pc'[r] = "done" /\ outcome'[r] = "error"
  <2>1. Phase(r)' = "failed"
    BY <1>8 DEF Phase
  <2>2. Promise!Fail(r)
    BY <1>2, <1>4, <1>5, <1>6, <2>1, OnePhase
       DEF Promise!Fail, Promise!Move, phaseOf
  <2> QED BY <2>2 DEF Promise!Next
<1> QED BY <1>3, <1>7, <1>8

(* Storing fills the cache, or fails the request.                          *)
LEMMA PutRefines ==
  ASSUME Sound, IInv, IInv', NEW r \in Requests, Put(r)
  PROVE  Promise!Next \/ UNCHANGED Promise!vars
<1>1. /\ pc \in [Requests -> Locations]
      /\ outcome \in [Requests -> Outcomes]
      /\ cached \in [Paths -> Inodes \cup {NoFile}]
      /\ path[r] \in Paths
  BY DEF IInv, TypeInv, TypeOK
<1>2. PutRename(r) \/ PutFails(r)
  BY DEF Put, CreateDest, CopyBlock, CopyDone, Move, Sound, IInv,
         WholeDownloads, NoCopying
<1>3. /\ pc[r] = "put" /\ path' = path /\ body' = body
      /\ \A q \in Requests : q # r => /\ pc'[q] = pc[q]
                                      /\ outcome'[q] = outcome[q]
  BY <1>1, <1>2 DEF PutRename, PutFails, Reply, Move, replyVars, ioVars, IInv,
                    WholeDownloads, NoCopying
<1>4. \A q \in Requests : q # r => Phase(q)' = Phase(q)
  BY <1>3 DEF Phase
<1>5. Phase(r) = "waiting"
  BY <1>3 DEF Phase
<1>6. CASE PutRename(r)
  <2>1. pc'[r] = "open"
    BY <1>1, <1>6 DEF PutRename, Move
  <2>2. Phase(r)' = "waiting"
    BY <2>1 DEF Phase
  <2>3. cached' = [cached EXCEPT ![path[r]] = temp[r]] /\ temp[r] # NoFile
    BY <1>6, PackageServerAssumption
       DEF PutRename, Move, IInv, TypeInv, TempOwned, Downloaded
  <2>4. Available' = Available \cup {path[r]}
    BY <1>1, <2>3, AvailableIsCached DEF IInv, CachedComplete, Available
  <2>5. Promise!Fill(path[r])
    BY <1>3, <1>4, <1>5, <2>2, <2>4, SamePhase DEF Promise!Fill, phaseOf
  <2> QED BY <1>1, <2>5 DEF Promise!Next
<1>7. CASE PutFails(r)
  <2>1. cached' = cached /\ pc'[r] = "done" /\ outcome'[r] = "error"
    BY <1>1, <1>7 DEF PutFails, Reply, Move, diskVars
  <2>2. Phase(r)' = "failed"
    BY <2>1 DEF Phase
  <2>3. Available' = Available
    BY <2>1, AvailableIsCached DEF IInv, CachedComplete, Available
  <2>4. Promise!Fail(r)
    BY <1>3, <1>4, <1>5, <2>2, <2>3, OnePhase
       DEF Promise!Fail, Promise!Move, phaseOf
  <2> QED BY <2>4 DEF Promise!Next
<1> QED BY <1>2, <1>6, <1>7

(* Opening the file pins the request to it, the last byte delivers it.     *)
LEMMA ServeRefines ==
  ASSUME Sound, IInv, IInv', NEW r \in Requests, Serve(r)
  PROVE  Promise!Next \/ UNCHANGED Promise!vars
<1>1. /\ pc \in [Requests -> Locations]
      /\ outcome \in [Requests -> Outcomes]
      /\ path \in [Requests -> Paths]
      /\ body \in [Requests -> SUBSET Block]
  BY DEF IInv, TypeInv, TypeOK
<1>2. /\ cached' = cached /\ path' = path
      /\ \A q \in Requests : q # r => /\ pc'[q] = pc[q]
                                      /\ outcome'[q] = outcome[q]
                                      /\ body'[q] = body[q]
  BY <1>1 DEF Serve, Open, OpenMissing, SendBlock, SendDone, SendBreaks,
              Reply, Move, replyVars, diskVars, ioVars
<1>3. Available' = Available
  BY <1>2, AvailableIsCached DEF IInv, CachedComplete, Available
<1>4. \A q \in Requests : q # r => Phase(q)' = Phase(q)
  BY <1>2 DEF Phase
<1>5. CASE Open(r)
  <2>1. pc[r] = "open" /\ pc'[r] = "send" /\ cached[path[r]] # NoFile
    BY <1>1, <1>5 DEF Open, Move
  <2>2. /\ Phase(r) = "waiting" /\ Phase(r)' = "pinned"
        /\ path[r] \in Available
    BY <1>1, <2>1, AvailableIsCached DEF Phase, IInv
  <2>3. Promise!Pin(r)
    BY <1>2, <1>3, <1>4, <2>2, OnePhase DEF Promise!Pin, Promise!Move, phaseOf
  <2> QED BY <2>3 DEF Promise!Next
<1>6. CASE OpenMissing(r)
  <2>1. pc[r] = "open" /\ pc'[r] = "done" /\ outcome'[r] = "missing"
    BY <1>1, <1>6 DEF OpenMissing, Reply, Move
  <2>2. Phase(r) = "waiting" /\ Phase(r)' = "failed"
    BY <2>1 DEF Phase
  <2>3. Promise!Fail(r)
    BY <1>2, <1>3, <1>4, <2>2, OnePhase DEF Promise!Fail, Promise!Move, phaseOf
  <2> QED BY <2>3 DEF Promise!Next
<1>7. CASE SendBlock(r)
  <2>1. pc[r] = "send" /\ pc' = pc
    BY <1>7 DEF SendBlock
  <2>2. Phase(r)' = Phase(r)
    BY <2>1 DEF Phase
  <2> QED BY <1>2, <1>3, <1>4, <2>2, SamePhase DEF Promise!vars, phaseOf
<1>8. CASE SendDone(r)
  <2>1. pc[r] = "send" /\ pc'[r] = "done" /\ outcome'[r] = "ok"
    BY <1>1, <1>8 DEF SendDone, Reply, Move
  <2>2. body'[r] = Block
    BY <2>1 DEF IInv, ServedComplete
  <2>3. Phase(r) = "pinned" /\ Phase(r)' = "full"
    BY <2>1, <2>2 DEF Phase, Block
  <2>4. Promise!Deliver(r)
    BY <1>2, <1>3, <1>4, <2>3, OnePhase
       DEF Promise!Deliver, Promise!Move, phaseOf
  <2> QED BY <2>4 DEF Promise!Next
<1>9. CASE SendBreaks(r)
  <2>1. pc[r] = "send" /\ pc'[r] = "done" /\ outcome'[r] = "broken"
    BY <1>1, <1>9 DEF SendBreaks, Reply, Move
  <2>2. Phase(r) = "pinned" /\ Phase(r)' = "failed"
    BY <2>1 DEF Phase
  <2>3. Promise!Fail(r)
    BY <1>2, <1>3, <1>4, <2>2, OnePhase DEF Promise!Fail, Promise!Move, phaseOf
  <2> QED BY <2>3 DEF Promise!Next
<1> QED BY <1>5, <1>6, <1>7, <1>8, <1>9 DEF Serve

LEMMA NextRefines ==
  ASSUME Sound, IInv, IInv', [Next]_vars
  PROVE  Promise!Next \/ UNCHANGED Promise!vars
<1>1. /\ pc \in [Requests -> Locations]
      /\ cached \in [Paths -> Inodes \cup {NoFile}]
      /\ outcome \in [Requests -> Outcomes]
      /\ path \in [Requests -> Paths]
  BY DEF IInv, TypeInv, TypeOK
<1>2. cached' = cached => Available' = Available
  BY AvailableIsCached DEF IInv, CachedComplete, Available
<1>3. ASSUME NEW r \in Requests, NEW p \in Paths, Arrive(r, p)
      PROVE  Promise!Next
  <2>1. /\ cached' = cached /\ body' = body
        /\ path' = [path EXCEPT ![r] = p]
        /\ pc[r] = "idle" /\ pc'[r] = "lookup"
        /\ \A q \in Requests : q # r => /\ pc'[q] = pc[q]
                                        /\ outcome'[q] = outcome[q]
    BY <1>1, <1>3 DEF Arrive, Move, diskVars, ioVars
  <2>2. /\ Phase(r) = "idle" /\ Phase(r)' = "waiting"
        /\ \A q \in Requests : q # r => Phase(q)' = Phase(q)
    BY <2>1 DEF Phase
  <2>3. Promise!Ask(r, p)
    BY <1>2, <2>1, <2>2, OnePhase DEF Promise!Ask, Promise!Move, phaseOf
  <2> QED BY <2>3 DEF Promise!Next
<1>4. ASSUME NEW r \in Requests, LookupHit(r) \/ LookupMiss(r)
      PROVE  UNCHANGED Promise!vars
  <2>1. /\ cached' = cached /\ body' = body /\ path' = path /\ outcome' = outcome
        /\ pc[r] = "lookup" /\ pc'[r] \in {"open", "acquire"}
        /\ \A q \in Requests : q # r => pc'[q] = pc[q]
    BY <1>1, <1>4 DEF LookupHit, LookupMiss, Move, replyVars, diskVars, ioVars
  <2>2. \A q \in Requests : Phase(q)' = Phase(q)
    BY <2>1 DEF Phase
  <2> QED BY <1>2, <2>1, <2>2, SamePhase DEF Promise!vars, phaseOf
<1>5. ASSUME NEW r \in Requests, Leave(r)
      PROVE  Promise!Next
  <2>1. /\ cached' = cached /\ path' = path /\ outcome' = outcome
        /\ pc[r] = "done" /\ pc'[r] = "idle"
        /\ \A q \in Requests : q # r => pc'[q] = pc[q] /\ body'[q] = body[q]
    BY <1>1, <1>5 DEF Leave, Move, replyVars, diskVars, IInv, TypeInv, TypeOK
  <2>2. /\ Phase(r) \in {"full", "failed"} /\ Phase(r)' = "idle"
        /\ \A q \in Requests : q # r => Phase(q)' = Phase(q)
    BY <2>1 DEF Phase, IInv, ServedComplete
  <2>3. Promise!Leave(r)
    BY <1>2, <2>1, <2>2, OnePhase DEF Promise!Leave, Promise!Move, phaseOf
  <2> QED BY <2>3 DEF Promise!Next
<1>6. ASSUME Recover \/ UNCHANGED vars
      PROVE  UNCHANGED Promise!vars
  <2>1. UNCHANGED <<pc, path, outcome, cached, body>>
    BY <1>6 DEF Recover, vars, replyVars, diskVars, ioVars
  <2>2. \A q \in Requests : Phase(q)' = Phase(q)
    BY <2>1 DEF Phase
  <2> QED BY <1>2, <2>1, <2>2, SamePhase DEF Promise!vars, phaseOf
<1>7. ASSUME NEW p \in Paths, CleanupRemoves(p)
      PROVE  Promise!Next
  <2>1. /\ UNCHANGED <<pc, path, outcome, body>>
        /\ cached' = [cached EXCEPT ![p] = NoFile]
        /\ Conditions \cap {"cleanup", "evict"} # {}
    BY <1>7 DEF CleanupRemoves, replyVars, ioVars
  <2>2. \A q \in Requests : Phase(q)' = Phase(q)
    BY <2>1 DEF Phase
  <2>3. Available' = Available \ {p}
    BY <1>1, <2>1, AvailableIsCached DEF IInv, CachedComplete, Available
  <2>4. Promise!Evict(p)
    BY <2>1, <2>2, <2>3, SamePhase DEF Promise!Evict, phaseOf
  <2> QED BY <2>4 DEF Promise!Next
<1>8. ASSUME Crash
      PROVE  Promise!Next
  <2>1. cached' = cached /\ path' = path /\ pc' = [r \in Requests |-> "idle"]
    BY <1>8 DEF Crash, diskVars
  <2>2. \A q \in Requests : Phase(q)' = "idle"
    BY <2>1 DEF Phase
  <2>3. Promise!Restart
    BY <1>2, <2>1, <2>2 DEF Promise!Restart
  <2> QED BY <2>3 DEF Promise!Next
<1> QED BY <1>3, <1>4, <1>5, <1>6, <1>7, <1>8, FetchRefines, PutRefines,
           ServeRefines DEF Next, Handle

(* The server keeps the promise of a read-through cache, with every        *)
(* failure of mirrors, disk, clients and process it is exposed to, except  *)
(* renames that fail.                                                      *)
THEOREM ImplementsReadThroughCache ==
  ASSUME Sound
  PROVE  Spec => KeepsPromise
<1>1. Init => Promise!Init
  <2> SUFFICES ASSUME Init PROVE Promise!Init
    OBVIOUS
  <2>1. Available = {} /\ \A r \in Requests : Phase(r) = "idle"
    BY DEF Init, Available, Phase
  <2> QED BY <2>1 DEF Init, Promise!Init
<1>2. IInv /\ [Next]_vars => IInv'
  BY NextIntegrity
<1>3. IInv /\ IInv' /\ [Next]_vars => [Promise!Next]_(Promise!vars)
  BY NextRefines
<1> QED BY InitIntegrity, <1>1, <1>2, <1>3, PTL DEF Spec, KeepsPromise, Promise!Spec

-----------------------------------------------------------------------------
(* Copying after a failed rename shows partial files, but on a disk that   *)
(* is sound otherwise, with honest mirrors, no block stays missing: a      *)
(* handler that truncates a file starts over from its first block, also    *)
(* when another handler is copying into the same file, and what it copies  *)
(* is whole.                                                               *)
Rewound == \A r \in Requests : pc[r] \notin {"copy", "send"} => offset[r] = 0

CInv ==
  /\ TypeInv /\ TempPrivate
  /\ FileInUse /\ NoOrphans
  /\ WholeDownloads /\ Rewound
  /\ WrittenOut

LEMMA InitWritten == Init => CInv
<1> SUFFICES ASSUME Init PROVE CInv
  OBVIOUS
<1>1. TypeInv
  BY InitType
<1>2. TempPrivate /\ FileInUse /\ NoOrphans
  BY DEF Init, TempPrivate, FileInUse, NoOrphans, Downloaded
<1>3. WholeDownloads /\ Rewound /\ WrittenOut
  BY DEF Init, WholeDownloads, Downloaded, Rewound, WrittenOut
<1> QED BY <1>1, <1>2, <1>3 DEF CInv

(* A step that keeps the cached files, the temporary files and the copies. *)
LEMMA KeepsWritten ==
  ASSUME CInv, NEW r \in Requests, cached' = cached,
         \A i \in Inodes : InUse(i, r) => good'[i] = good[i],
         \A q \in Requests :
           pc[q] = "copy" => /\ pc'[q] = "copy" /\ fd'[q] = fd[q]
                             /\ offset'[q] = offset[q]
  PROVE  WrittenOut'
BY DEF CInv, TypeInv, TypeOK, WrittenOut, InUse

LEMMA FetchWritten ==
  ASSUME Honest, CInv, NEW r \in Requests, Fetch(r)
  PROVE  WholeDownloads' /\ Rewound' /\ WrittenOut'
<1>1. /\ pc \in [Requests -> Locations]
      /\ outcome \in [Requests -> Outcomes]
      /\ temp \in [Requests -> Inodes \cup {NoFile}]
  BY DEF CInv, TypeInv, TypeOK
<1>2. /\ cached' = cached /\ fd' = fd /\ offset' = offset
      /\ \A q \in Requests : q # r => /\ pc'[q] = pc[q]
                                      /\ outcome'[q] = outcome[q]
                                      /\ temp'[q] = temp[q]
      /\ pc[r] \notin {"copy", "send"} /\ pc'[r] \notin {"copy", "send"}
  BY <1>1 DEF Fetch, AcquireKey, RejectDuplicate, SelectMirror, NoMirrorLeft,
              BeginAttempt, TempFails, ReceiveBody, AttemptFails, Retry,
              GiveUp, Record, Release, Reply, Move,
              replyVars, diskVars, ioVars, tempVars
<1>3. \A i \in Inodes :
        InUse(i, r) => size'[i] = size[i] /\ good'[i] = good[i]
  BY FetchKeepsFiles DEF CInv
<1>4. WholeDownloads'
  <2>1. Downloaded(r)' => Complete(temp[r])'
    BY FetchWhole DEF CInv, WholeDownloads
  <2>2. ASSUME NEW q \in Requests, q # r, Downloaded(q)'
        PROVE  Complete(temp[q])'
    <3>1. Downloaded(q)
      BY <1>2, <2>2 DEF Downloaded
    <3>2. temp[q] \in Inodes /\ Complete(temp[q])
      BY <3>1 DEF CInv, TypeInv, TempOwned, WholeDownloads
    <3> QED BY <1>2, <1>3, <2>2, <3>2 DEF InUse, Complete
  <2> QED BY <2>1, <2>2 DEF WholeDownloads
<1>5. Rewound'
  BY <1>2 DEF CInv, Rewound
<1>6. WrittenOut'
  BY <1>2, <1>3, KeepsWritten
<1> QED BY <1>4, <1>5, <1>6

LEMMA RenameWritten ==
  ASSUME CInv, NEW r \in Requests, PutRename(r)
  PROVE  WholeDownloads' /\ Rewound' /\ WrittenOut'
<1>1. /\ pc \in [Requests -> Locations]
      /\ temp \in [Requests -> Inodes \cup {NoFile}]
      /\ cached \in [Paths -> Inodes \cup {NoFile}]
  BY DEF CInv, TypeInv, TypeOK
<1>2. /\ pc[r] = "put" /\ pc' = [pc EXCEPT ![r] = "open"]
      /\ cached' = [cached EXCEPT ![path[r]] = temp[r]]
      /\ temp' = [temp EXCEPT ![r] = NoFile]
      /\ UNCHANGED <<outcome, fd, offset, size, good>>
  BY DEF PutRename, Move, replyVars, ioVars
<1>3. good[temp[r]] = Block
  BY <1>2 DEF CInv, WholeDownloads, Downloaded, Complete
<1>4. WholeDownloads' /\ Rewound'
  BY <1>1, <1>2 DEF CInv, WholeDownloads, Downloaded, Complete, Rewound
<1>5. WrittenOut'
  BY <1>1, <1>2, <1>3 DEF CInv, WrittenOut
<1> QED BY <1>4, <1>5

(* The truncated file lacks every block, and this handler writes them all. *)
LEMMA CreateWritten ==
  ASSUME CInv, NEW r \in Requests, CreateDest(r)
  PROVE  WholeDownloads' /\ Rewound' /\ WrittenOut'
<1> DEFINE dest == IF cached[path[r]] # NoFile THEN cached[path[r]] ELSE NewInode
<1>1. /\ pc \in [Requests -> Locations]
      /\ size \in [Inodes -> 0..Blocks]
      /\ good \in [Inodes -> SUBSET Block]
      /\ temp \in [Requests -> Inodes \cup {NoFile}]
      /\ fd \in [Requests -> Inodes \cup {NoFile}]
      /\ cached \in [Paths -> Inodes \cup {NoFile}]
      /\ path[r] \in Paths
  BY DEF CInv, TypeInv, TypeOK
<1>2. /\ pc[r] = "put" /\ pc' = [pc EXCEPT ![r] = "copy"]
      /\ cached' = [cached EXCEPT ![path[r]] = dest]
      /\ size' = [size EXCEPT ![dest] = 0]
      /\ good' = [good EXCEPT ![dest] = {}]
      /\ fd' = [fd EXCEPT ![r] = dest]
      /\ UNCHANGED <<outcome, offset, temp>>
      /\ cached[path[r]] # NoFile \/ FreeInodes # {}
  BY DEF CreateDest, Move, replyVars, tempVars
<1>3. /\ dest \in Inodes
      /\ \A q \in Requests : temp[q] # NoFile => temp[q] # dest
  <2>1. CASE cached[path[r]] # NoFile
    BY <1>1, <2>1 DEF CInv, TempPrivate
  <2>2. CASE cached[path[r]] = NoFile
    <3>1. NewInode \in FreeInodes
      BY <1>2, <2>2, NewInodeType
    <3> HIDE DEF NewInode
    <3> QED BY <2>2, <3>1 DEF FreeInodes
  <2> QED BY <2>1, <2>2
<1> HIDE DEF dest
<1>4. WholeDownloads'
  <2> SUFFICES ASSUME NEW q \in Requests, Downloaded(q)' PROVE Complete(temp[q])'
    BY DEF WholeDownloads
  <2>1. Downloaded(q)
    BY <1>1, <1>2 DEF Downloaded
  <2>2. temp[q] \in Inodes /\ Complete(temp[q])
    BY <2>1 DEF CInv, TypeInv, TempOwned, WholeDownloads
  <2> QED BY <1>1, <1>2, <1>3, <2>2 DEF Complete
<1>5. Rewound'
  BY <1>1, <1>2 DEF CInv, Rewound
<1>6. WrittenOut'
  <2> SUFFICES ASSUME NEW p \in Paths, cached'[p] # NoFile,
                      NEW b \in Block \ good'[cached'[p]]
               PROVE  \E q \in Requests : /\ pc'[q] = "copy"
                                          /\ fd'[q] = cached'[p]
                                          /\ offset'[q] < b
    BY DEF WrittenOut
  <2>1. CASE cached'[p] = dest
    <3>1. pc'[r] = "copy" /\ fd'[r] = dest /\ offset'[r] = 0 /\ 0 < b
      BY <1>1, <1>2 DEF CInv, Rewound, Block
    <3> QED BY <2>1, <3>1
  <2>2. CASE cached'[p] # dest
    <3>1. /\ cached'[p] = cached[p] /\ cached[p] \in Inodes
          /\ good'[cached[p]] = good[cached[p]]
      BY <1>1, <1>2, <2>2
    <3>2. PICK q \in Requests :
            pc[q] = "copy" /\ fd[q] = cached[p] /\ offset[q] < b
      BY <3>1 DEF CInv, WrittenOut
    <3> QED BY <1>1, <1>2, <3>1, <3>2
  <2> QED BY <2>1, <2>2
<1> QED BY <1>4, <1>5, <1>6

(* One missing block less, and it was the next one of this handler.        *)
LEMMA BlockWritten ==
  ASSUME CInv, NEW r \in Requests, CopyBlock(r)
  PROVE  WholeDownloads' /\ Rewound' /\ WrittenOut'
<1>1. /\ pc \in [Requests -> Locations]
      /\ size \in [Inodes -> 0..Blocks]
      /\ good \in [Inodes -> SUBSET Block]
      /\ temp \in [Requests -> Inodes \cup {NoFile}]
      /\ cached \in [Paths -> Inodes \cup {NoFile}]
      /\ offset \in [Requests -> 0..Blocks]
  BY DEF CInv, TypeInv, TypeOK
<1>2. /\ pc[r] = "copy" /\ temp[r] \in Inodes /\ Complete(temp[r])
      /\ fd[r] \in Inodes
  BY DEF CopyBlock, CInv, FileInUse, WholeDownloads, Downloaded, TypeInv,
         TempOwned
<1>3. offset[r] + 1 \in Block /\ offset[r] + 1 \in good[temp[r]]
  BY <1>1, <1>2 DEF CopyBlock, Complete, Block
<1>4. /\ size' = [size EXCEPT ![fd[r]] = IF @ < offset[r] + 1
                                        THEN offset[r] + 1 ELSE @]
      /\ good' = [good EXCEPT ![fd[r]] = @ \cup {offset[r] + 1}]
      /\ offset' = [offset EXCEPT ![r] = offset[r] + 1]
      /\ UNCHANGED <<pc, outcome, temp, fd, cached>>
  BY <1>3 DEF CopyBlock, replyVars, tempVars
<1>5. WholeDownloads'
  <2> SUFFICES ASSUME NEW q \in Requests, Downloaded(q)' PROVE Complete(temp[q])'
    BY DEF WholeDownloads
  <2>1. Downloaded(q)
    BY <1>4 DEF Downloaded
  <2>2. temp[q] \in Inodes /\ Complete(temp[q])
    BY <2>1 DEF CInv, TypeInv, TempOwned, WholeDownloads
  <2>3. temp[q] # fd[r]
    BY <2>2 DEF CInv, TempPrivate
  <2> QED BY <1>1, <1>4, <2>2, <2>3 DEF Complete
<1>6. Rewound'
  BY <1>1, <1>2, <1>4 DEF CInv, Rewound
<1>7. WrittenOut'
  <2> SUFFICES ASSUME NEW p \in Paths, cached[p] # NoFile,
                      NEW b \in Block \ good'[cached[p]]
               PROVE  \E q \in Requests :
                        pc[q] = "copy" /\ fd[q] = cached[p] /\ offset'[q] < b
    BY <1>4 DEF WrittenOut
  <2>1. cached[p] \in Inodes /\ b \notin good[cached[p]]
    BY <1>1, <1>4
  <2>2. PICK q \in Requests :
          pc[q] = "copy" /\ fd[q] = cached[p] /\ offset[q] < b
    BY <2>1 DEF CInv, WrittenOut
  <2>3. CASE q = r
    <3>1. b # offset[r] + 1
      BY <1>1, <1>2, <1>4, <2>2, <2>3
    <3>2. offset'[r] = offset[r] + 1 /\ offset[r] + 1 < b
      BY <1>1, <1>4, <2>2, <2>3, <3>1 DEF Block
    <3> QED BY <2>2, <2>3, <3>2
  <2>4. CASE q # r
    BY <1>1, <1>4, <2>2, <2>4
  <2> QED BY <2>3, <2>4
<1> QED BY <1>5, <1>6, <1>7

(* A copy that is done has written the last block.                         *)
LEMMA DoneWritten ==
  ASSUME CInv, NEW r \in Requests, CopyDone(r)
  PROVE  WholeDownloads' /\ Rewound' /\ WrittenOut'
<1>1. /\ pc \in [Requests -> Locations]
      /\ temp \in [Requests -> Inodes \cup {NoFile}]
      /\ fd \in [Requests -> Inodes \cup {NoFile}]
      /\ offset \in [Requests -> 0..Blocks]
  BY DEF CInv, TypeInv, TypeOK
<1>2. /\ pc[r] = "copy" /\ pc' = [pc EXCEPT ![r] = "open"]
      /\ fd' = [fd EXCEPT ![r] = NoFile]
      /\ offset' = [offset EXCEPT ![r] = 0]
      /\ temp' = [temp EXCEPT ![r] = NoFile]
      /\ UNCHANGED <<outcome, cached, size, good>>
      /\ offset[r] = size[temp[r]]
  BY DEF CopyDone, CloseFile, Move, replyVars, diskVars
<1>3. offset[r] = Blocks
  BY <1>2 DEF CInv, WholeDownloads, Downloaded, Complete
<1>4. WholeDownloads' /\ Rewound'
  BY <1>1, <1>2 DEF CInv, WholeDownloads, Downloaded, Complete, Rewound
<1>5. ASSUME NEW b \in Block
      PROVE  ~(offset[r] < b)
  BY <1>3 DEF Block
<1>6. WrittenOut'
  BY <1>1, <1>2, <1>5 DEF CInv, WrittenOut
<1> QED BY <1>4, <1>6

LEMMA NextWritten ==
  ASSUME SoundDisk, Honest, CInv, [Next]_vars
  PROVE  CInv'
<1>1. TypeInv' /\ TempPrivate' /\ FileInUse' /\ NoOrphans'
  BY NextType, NextPrivate, NextInUse DEF CInv
<1>2. ASSUME NEW r \in Requests, Put(r)
      PROVE  WholeDownloads' /\ Rewound' /\ WrittenOut'
  <2>1. ~PutFails(r)
    BY DiskKeeps DEF CInv, TypeInv
  <2> QED BY <1>2, <2>1, RenameWritten, CreateWritten, BlockWritten,
             DoneWritten DEF Put
<1>3. ASSUME NEW r \in Requests,
             LookupHit(r) \/ LookupMiss(r) \/ Serve(r) \/ Leave(r)
               \/ \E p \in Paths : Arrive(r, p)
      PROVE  WholeDownloads' /\ Rewound' /\ WrittenOut'
  <2>1. /\ UNCHANGED <<diskVars, temp>>
        /\ \A q \in Requests : q # r => /\ pc'[q] = pc[q]
                                        /\ outcome'[q] = outcome[q]
                                        /\ fd'[q] = fd[q]
                                        /\ offset'[q] = offset[q]
        /\ pc[r] # "copy"
        /\ pc'[r] \notin {"copy", "release", "record", "put"}
        /\ pc'[r] # "send" => offset'[r] = 0
    BY <1>3 DEF LookupHit, LookupMiss, Serve, Open, OpenMissing, SendBlock,
                SendDone, SendBreaks, Leave, Arrive, CloseFile, Reply, Move,
                replyVars, ioVars, tempVars, CInv, TypeInv, TypeOK, Rewound
  <2>2. WholeDownloads' /\ Rewound'
    BY <2>1 DEF CInv, WholeDownloads, Downloaded, Complete, Rewound, diskVars
  <2>3. WrittenOut'
    BY <2>1, KeepsWritten DEF diskVars
  <2> QED BY <2>2, <2>3
<1>4. CASE Recover \/ (\E p \in Paths : CleanupRemoves(p)) \/ UNCHANGED vars
  <2>1. /\ UNCHANGED <<pc, outcome, size, good, temp, fd, offset>>
        /\ \A p \in Paths : cached'[p] \in {cached[p], NoFile}
    BY <1>4 DEF Recover, CleanupRemoves, vars, replyVars, diskVars, ioVars,
                tempVars, CInv, TypeInv, TypeOK
  <2>2. WholeDownloads' /\ Rewound'
    BY <2>1 DEF CInv, WholeDownloads, Downloaded, Complete, Rewound
  <2>3. WrittenOut'
    BY <2>1 DEF CInv, WrittenOut
  <2> QED BY <1>1, <2>2, <2>3 DEF CInv
<1>5. ~Crash
  BY DiskKeeps DEF CInv, TypeInv
<1> QED BY <1>1, <1>2, <1>3, <1>4, <1>5, FetchWritten DEF CInv, Next, Handle

(* While the disk does not fail, a file that is being copied into the      *)
(* cache lacks no block that no handler is going to write.                 *)
THEOREM WrittenOutHolds ==
  ASSUME SoundDisk, Honest
  PROVE  Spec => []WrittenOut
<1>1. CInv => WrittenOut
  BY DEF CInv
<1> QED BY InitWritten, NextWritten, <1>1, PTL DEF Spec
=============================================================================
