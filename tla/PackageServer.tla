---------------------------- MODULE PackageServer ----------------------------
(***************************************************************************)
(* The on-demand path of Trinity-cache, from a pacman request to the bytes *)
(* the client receives: the HTTP handlers of internal/server, the          *)
(* FetchManager and the HTTPDownloader of internal/downloader, and the     *)
(* PutRepoFile of internal/cache, with every handler goroutine interleaved *)
(* with the others, with failing mirrors and disks, and with restarts.     *)
(*                                                                         *)
(* Mirror weights are abstracted to the set of mirrors whose effective     *)
(* weight is positive, which is all Select distinguishes when it decides   *)
(* between a mirror and an error.  Files are inodes: a directory entry can *)
(* be replaced while an open descriptor still reads the old inode.         *)
(***************************************************************************)
EXTENDS Naturals, FiniteSets

CONSTANTS
  Requests,       \* handler goroutines
  Paths,          \* files under storage_path: <repo>/os/<arch>/<filename>
  Keys,           \* keys of FetchManager.inProgress, "name:version"
  KeyOf,          \* KeyOf[p]: the key the handler derives for path p
  Mirrors,        \* configured mirrors, every base weight positive
  MaxRetries,     \* HTTPDownloader.retries
  Blocks,         \* length of a complete file, in blocks
  Inodes,         \* capacity of the disk, in files
  NoFile,         \* no inode
  NoMirror,       \* no mirror
  SameDevice,     \* TRUE iff temp_dir and storage_path share a filesystem
  DeclaredLength, \* TRUE iff mirrors send a Content-Length
  Conditions      \* what the server is exposed to, a subset of AllConditions

AllConditions ==
  {"refuse",      \* a mirror may refuse, time out or answer with an error
   "short",       \* a mirror may close the connection early
   "corrupt",     \* a mirror may send a damaged body of the right length
   "drain",       \* penalties may bring a mirror's weight down to zero
   "storage",     \* the disk may refuse any operation but a rename
   "rename",      \* it may refuse a rename within one filesystem
   "cutoff",      \* the client or server.write_timeout may end a response
   "crash",       \* the process may die and be started again
   "cleanup",     \* FilesystemCache.Cleanup may run at any time
   "evict"}       \* Cleanup may run while no handler is in PutRepoFile

ASSUME PackageServerAssumption ==
  /\ KeyOf \in [Paths -> Keys]
  /\ MaxRetries \in Nat \ {0}
  /\ Blocks \in Nat \ {0}
  /\ NoFile \notin Inodes
  /\ NoMirror \notin Mirrors
  /\ SameDevice \in BOOLEAN
  /\ DeclaredLength \in BOOLEAN
  /\ Conditions \subseteq AllConditions

VARIABLES
  pc,         \* pc[r]: where handler r is
  path,       \* path[r]: the file request r asks for
  outcome,    \* outcome[r]: how the request ended, as its client sees it
  inProgress, \* FetchManager.inProgress, the keys being fetched
  tracked,    \* the versions InMemoryTracker knows
  usable,     \* mirrors with a positive effective weight
  chosen,     \* chosen[r]: the mirror FetchVersion selected
  current,    \* current[r]: the mirror Download is trying
  attempt,    \* attempt[r]: how many attempts Download has begun
  inFlight,   \* Mirror.InFlightDownloads
  cached,     \* cached[p]: the inode at path p, or NoFile
  size,       \* size[i]: length of inode i, in blocks
  good,       \* good[i]: the blocks of inode i that hold the right bytes
  temp,       \* temp[r]: the temporary file handler r owns
  fd,         \* fd[r]: the inode handler r writes to or reads from
  offset,     \* offset[r]: blocks copied or sent so far
  length,     \* length[r]: the Content-Length announced to the client
  body,       \* body[r]: the right blocks the client has received
  orphaned    \* TRUE once a temporary file was left with no owner

replyVars  == <<path, outcome>>
lockVars   == <<inProgress, tracked>>
mirrorVars == <<usable, chosen, current, attempt, inFlight>>
diskVars   == <<cached, size, good>>
ioVars     == <<fd, offset, length, body>>
tempVars   == <<temp, orphaned>>
vars == <<pc, replyVars, lockVars, mirrorVars, diskVars, ioVars, tempVars>>

Block == 1..Blocks

Locations ==
  {"idle", "lookup", "acquire", "select", "begin", "receive", "retry",
   "record", "release", "put", "copy", "open", "send", "done"}

(* Where a handler holds its key: between the two critical sections of     *)
(* FetchVersion.                                                           *)
Fetching == {"select", "begin", "receive", "retry", "record", "release"}

Outcomes == {"none", "ok", "error", "missing", "broken", "aborted"}

TypeOK ==
  /\ pc \in [Requests -> Locations]
  /\ path \in [Requests -> Paths]
  /\ outcome \in [Requests -> Outcomes]
  /\ inProgress \in SUBSET Keys
  /\ tracked \in SUBSET Keys
  /\ usable \in SUBSET Mirrors
  /\ chosen \in [Requests -> Mirrors \cup {NoMirror}]
  /\ current \in [Requests -> Mirrors \cup {NoMirror}]
  /\ attempt \in [Requests -> 0..MaxRetries]
  /\ inFlight \in [Mirrors -> Nat]
  /\ cached \in [Paths -> Inodes \cup {NoFile}]
  /\ size \in [Inodes -> 0..Blocks]
  /\ good \in [Inodes -> SUBSET Block]
  /\ temp \in [Requests -> Inodes \cup {NoFile}]
  /\ fd \in [Requests -> Inodes \cup {NoFile}]
  /\ offset \in [Requests -> 0..Blocks]
  /\ length \in [Requests -> 0..Blocks]
  /\ body \in [Requests -> SUBSET Block]
  /\ orphaned \in BOOLEAN

(* A server starts on the storage it finds, here an empty one; Crash shows *)
(* it starting on what an earlier process left behind.                     *)
Init ==
  /\ pc = [r \in Requests |-> "idle"]
  /\ path \in [Requests -> Paths]
  /\ outcome = [r \in Requests |-> "none"]
  /\ inProgress = {}
  /\ tracked = {}
  /\ usable = Mirrors
  /\ chosen = [r \in Requests |-> NoMirror]
  /\ current = [r \in Requests |-> NoMirror]
  /\ attempt = [r \in Requests |-> 0]
  /\ inFlight = [m \in Mirrors |-> 0]
  /\ cached = [p \in Paths |-> NoFile]
  /\ size = [i \in Inodes |-> 0]
  /\ good = [i \in Inodes |-> {}]
  /\ temp = [r \in Requests |-> NoFile]
  /\ fd = [r \in Requests |-> NoFile]
  /\ offset = [r \in Requests |-> 0]
  /\ length = [r \in Requests |-> 0]
  /\ body = [r \in Requests |-> {}]
  /\ orphaned = FALSE

Move(r, from, to) ==
  /\ pc[r] = from
  /\ pc' = [pc EXCEPT ![r] = to]

(* The handler writes its last response byte, or an error status.          *)
Reply(r, from, result) ==
  /\ Move(r, from, "done")
  /\ outcome' = [outcome EXCEPT ![r] = result]
  /\ UNCHANGED path

(* Inodes that no directory entry, temporary file or descriptor refers to; *)
(* which of them a new file gets makes no difference to the program.       *)
FreeInodes ==
  {i \in Inodes :
     /\ \A p \in Paths : cached[p] # i
     /\ \A r \in Requests : temp[r] # i /\ fd[r] # i}

NewInode == CHOOSE i \in FreeInodes : TRUE

DiskRefuses == "storage" \in Conditions \/ FreeInodes = {}

(* The descriptor, if any, and the progress kept with it.                  *)
CloseFile(r) ==
  /\ fd' = [fd EXCEPT ![r] = NoFile]
  /\ offset' = [offset EXCEPT ![r] = 0]
  /\ length' = [length EXCEPT ![r] = 0]

-----------------------------------------------------------------------------
(* A request that parses enters handlePacmanRequest.                       *)
Arrive(r, p) ==
  /\ Move(r, "idle", "lookup")
  /\ path' = [path EXCEPT ![r] = p]
  /\ outcome' = [outcome EXCEPT ![r] = "none"]
  /\ UNCHANGED <<lockVars, mirrorVars, diskVars, ioVars, tempVars>>

(* tryServePackageFromCache and tryServeRepoFileFromCache only stat the    *)
(* path; the file is opened by a later step, which may find it gone.       *)
LookupHit(r) ==
  /\ cached[path[r]] # NoFile
  /\ Move(r, "lookup", "open")
  /\ UNCHANGED <<replyVars, lockVars, mirrorVars, diskVars, ioVars, tempVars>>

LookupMiss(r) ==
  /\ cached[path[r]] = NoFile
  /\ Move(r, "lookup", "acquire")
  /\ UNCHANGED <<replyVars, lockVars, mirrorVars, diskVars, ioVars, tempVars>>

-----------------------------------------------------------------------------
(* Mutation: the map is not consulted before the key is added.             *)
AcquireKeyUnchecked(r) ==
  /\ Move(r, "acquire", "select")
  /\ inProgress' = inProgress \cup {KeyOf[path[r]]}
  /\ UNCHANGED <<replyVars, tracked, mirrorVars, diskVars, ioVars, tempVars>>

(* FetchVersion, first critical section: take the key, or fail at once.    *)
AcquireKey(r) ==
  /\ KeyOf[path[r]] \notin inProgress
  /\ Move(r, "acquire", "select")
  /\ inProgress' = inProgress \cup {KeyOf[path[r]]}
  /\ UNCHANGED <<replyVars, tracked, mirrorVars, diskVars, ioVars, tempVars>>

RejectDuplicate(r) ==
  /\ KeyOf[path[r]] \in inProgress
  /\ Reply(r, "acquire", "error")
  /\ UNCHANGED <<lockVars, mirrorVars, diskVars, ioVars, tempVars>>

(* Penalize lowers a weight, and may bring it down to zero.                *)
Penalize(m) ==
  \/ UNCHANGED usable
  \/ "drain" \in Conditions /\ usable' = usable \ {m}

SelectMirror(r) ==
  /\ Move(r, "select", "begin")
  /\ \E m \in usable :
       /\ chosen' = [chosen EXCEPT ![r] = m]
       /\ current' = [current EXCEPT ![r] = m]
  /\ attempt' = [attempt EXCEPT ![r] = 1]
  /\ UNCHANGED <<replyVars, lockVars, usable, inFlight, diskVars, ioVars,
                 tempVars>>

NoMirrorLeft(r) ==
  /\ usable = {}
  /\ Move(r, "select", "release")
  /\ outcome' = [outcome EXCEPT ![r] = "error"]
  /\ UNCHANGED <<path, lockVars, mirrorVars, diskVars, ioVars, tempVars>>

-----------------------------------------------------------------------------
(* downloadFromMirror, one attempt of Download.                            *)
Started(m) == inFlight' = [inFlight EXCEPT ![m] = @ + 1]

Finished(m) ==
  inFlight' = [inFlight EXCEPT ![m] = IF @ > 0 THEN @ - 1 ELSE 0]

BeginAttempt(r) ==
  /\ FreeInodes # {}
  /\ Move(r, "begin", "receive")
  /\ Started(current[r])
  /\ temp' = [temp EXCEPT ![r] = NewInode]
  /\ size' = [size EXCEPT ![NewInode] = 0]
  /\ good' = [good EXCEPT ![NewInode] = {}]
  /\ UNCHANGED <<replyVars, lockVars, usable, chosen, current, attempt,
                 cached, ioVars, orphaned>>

(* No temporary file: the attempt fails before it asks the mirror.         *)
TempFails(r) ==
  /\ DiskRefuses
  /\ Move(r, "begin", "retry")
  /\ Penalize(current[r])
  /\ UNCHANGED <<replyVars, lockVars, chosen, current, attempt, inFlight,
                 diskVars, ioVars, tempVars>>

(* Mutation: the length is not compared with the declared one.             *)
AcceptedBodiesAnyLength ==
  {[size |-> n, good |-> 1..n] : n \in 0..Blocks}

(* Bodies the mirror may send and downloadFromMirror accepts: the length   *)
(* is compared only if the mirror declared one, the checksum never.        *)
AcceptedBodies ==
  {[size |-> Blocks, good |-> Block]}
    \cup IF "corrupt" \in Conditions
         THEN {[size |-> Blocks, good |-> Block \ {b}] : b \in Block}
         ELSE {}
    \cup IF "short" \in Conditions /\ ~DeclaredLength
         THEN {[size |-> n, good |-> 1..n] : n \in 0..(Blocks - 1)}
         ELSE {}

ReceiveBody(r) ==
  /\ Move(r, "receive", "record")
  /\ \E b \in AcceptedBodies :
       /\ size' = [size EXCEPT ![temp[r]] = b.size]
       /\ good' = [good EXCEPT ![temp[r]] = b.good]
  /\ Finished(current[r])
  /\ Penalize(current[r])
  /\ UNCHANGED <<replyVars, lockVars, chosen, current, attempt, cached,
                 ioVars, tempVars>>

(* Mutation: the in-flight count is not taken back on an error.            *)
AttemptFailsCounted(r) ==
  /\ "refuse" \in Conditions
  /\ Move(r, "receive", "retry")
  /\ temp' = [temp EXCEPT ![r] = NoFile]
  /\ Penalize(current[r])
  /\ UNCHANGED <<replyVars, lockVars, chosen, current, attempt, inFlight,
                 diskVars, ioVars, orphaned>>

(* Mutation: the temporary file is not removed on an error.                *)
AttemptFailsLeaving(r) ==
  /\ "refuse" \in Conditions
  /\ Move(r, "receive", "retry")
  /\ temp' = [temp EXCEPT ![r] = NoFile]
  /\ orphaned' = TRUE
  /\ Finished(current[r])
  /\ Penalize(current[r])
  /\ UNCHANGED <<replyVars, lockVars, chosen, current, attempt, diskVars,
                 ioVars>>

(* The temporary file is removed, unless the error comes from closing it,  *)
(* which happens after the deferred removal has looked at err.             *)
AttemptFails(r) ==
  /\ \/ "refuse" \in Conditions
     \/ "short" \in Conditions /\ DeclaredLength
     \/ "storage" \in Conditions
  /\ Move(r, "receive", "retry")
  /\ temp' = [temp EXCEPT ![r] = NoFile]
  /\ \/ UNCHANGED orphaned
     \/ "storage" \in Conditions /\ orphaned' = TRUE
  /\ Finished(current[r])
  /\ Penalize(current[r])
  /\ UNCHANGED <<replyVars, lockVars, chosen, current, attempt, diskVars,
                 ioVars>>

(* Mutation: attempts are not counted.                                     *)
RetryForever(r) ==
  /\ Move(r, "retry", "begin")
  /\ UNCHANGED <<replyVars, lockVars, mirrorVars, diskVars, ioVars, tempVars>>

(* Every attempt after the first asks the selector again, and falls back   *)
(* on the mirror FetchVersion chose when it has none to give.              *)
Retry(r) ==
  /\ attempt[r] < MaxRetries
  /\ Move(r, "retry", "begin")
  /\ attempt' = [attempt EXCEPT ![r] = @ + 1]
  /\ \E m \in IF usable = {} THEN {chosen[r]} ELSE usable :
       current' = [current EXCEPT ![r] = m]
  /\ UNCHANGED <<replyVars, lockVars, usable, chosen, inFlight, diskVars,
                 ioVars, tempVars>>

GiveUp(r) ==
  /\ attempt[r] = MaxRetries
  /\ Move(r, "retry", "release")
  /\ outcome' = [outcome EXCEPT ![r] = "error"]
  /\ Penalize(chosen[r])
  /\ UNCHANGED <<path, lockVars, chosen, current, attempt, inFlight,
                 diskVars, ioVars, tempVars>>

(* Mutation: the tracker is not told.                                      *)
RecordNothing(r) ==
  /\ Move(r, "record", "release")
  /\ Penalize(chosen[r])
  /\ UNCHANGED <<replyVars, lockVars, chosen, current, attempt, inFlight,
                 diskVars, ioVars, tempVars>>

(* InMemoryTracker.Update, then the penalty for the mirror chosen first.   *)
Record(r) ==
  /\ Move(r, "record", "release")
  /\ tracked' = tracked \cup {KeyOf[path[r]]}
  /\ Penalize(chosen[r])
  /\ UNCHANGED <<replyVars, inProgress, chosen, current, attempt, inFlight,
                 diskVars, ioVars, tempVars>>

(* Mutation: the key is deleted on success only.                           *)
ReleaseOnSuccess(r) ==
  /\ Move(r, "release", IF outcome[r] = "error" THEN "done" ELSE "put")
  /\ inProgress' = IF outcome[r] = "error"
                   THEN inProgress ELSE inProgress \ {KeyOf[path[r]]}
  /\ chosen' = [chosen EXCEPT ![r] = NoMirror]
  /\ current' = [current EXCEPT ![r] = NoMirror]
  /\ attempt' = [attempt EXCEPT ![r] = 0]
  /\ UNCHANGED <<replyVars, tracked, usable, inFlight, diskVars, ioVars,
                 tempVars>>

(* Mutation: the result is not stored in the cache.                        *)
ReleaseUnstored(r) ==
  /\ Move(r, "release", IF outcome[r] = "error" THEN "done" ELSE "open")
  /\ inProgress' = inProgress \ {KeyOf[path[r]]}
  /\ chosen' = [chosen EXCEPT ![r] = NoMirror]
  /\ current' = [current EXCEPT ![r] = NoMirror]
  /\ attempt' = [attempt EXCEPT ![r] = 0]
  /\ temp' = [temp EXCEPT ![r] = NoFile]
  /\ UNCHANGED <<replyVars, tracked, usable, inFlight, diskVars, ioVars,
                 orphaned>>

(* The deferred critical section of FetchVersion, on every way out of it.  *)
Release(r) ==
  /\ Move(r, "release", IF outcome[r] = "error" THEN "done" ELSE "put")
  /\ inProgress' = inProgress \ {KeyOf[path[r]]}
  /\ chosen' = [chosen EXCEPT ![r] = NoMirror]
  /\ current' = [current EXCEPT ![r] = NoMirror]
  /\ attempt' = [attempt EXCEPT ![r] = 0]
  /\ UNCHANGED <<replyVars, tracked, usable, inFlight, diskVars, ioVars,
                 tempVars>>

-----------------------------------------------------------------------------
(* Mutation: a link instead of a rename, the temporary name stays.         *)
PutLink(r) ==
  /\ SameDevice
  /\ Move(r, "put", "open")
  /\ cached' = [cached EXCEPT ![path[r]] = temp[r]]
  /\ UNCHANGED <<replyVars, lockVars, mirrorVars, size, good, ioVars,
                 tempVars>>

(* PutRepoFile, after the key was released: os.MkdirAll and one os.Rename, *)
(* if both directories share a filesystem and nothing makes it fail.       *)
PutRename(r) ==
  /\ SameDevice
  /\ Move(r, "put", "open")
  /\ cached' = [cached EXCEPT ![path[r]] = temp[r]]
  /\ temp' = [temp EXCEPT ![r] = NoFile]
  /\ UNCHANGED <<replyVars, lockVars, mirrorVars, size, good, ioVars,
                 orphaned>>

(* Across filesystems a rename always fails, within one when the disk      *)
(* refuses it or when Cleanup has removed the directory since MkdirAll.    *)
RenameMayFail == ~SameDevice \/ Conditions \cap {"rename", "cleanup"} # {}

(* After any error of the rename, which changes nothing, copyFile creates  *)
(* the destination: os.Create truncates the file that is already there.    *)
(* The directory that Cleanup removed may have been made again meanwhile   *)
(* by another handler's MkdirAll.                                          *)
CreateDest(r) ==
  LET dest == IF cached[path[r]] # NoFile THEN cached[path[r]] ELSE NewInode
  IN /\ RenameMayFail
     /\ cached[path[r]] # NoFile \/ FreeInodes # {}
     /\ Move(r, "put", "copy")
     /\ cached' = [cached EXCEPT ![path[r]] = dest]
     /\ size' = [size EXCEPT ![dest] = 0]
     /\ good' = [good EXCEPT ![dest] = {}]
     /\ fd' = [fd EXCEPT ![r] = dest]
     /\ UNCHANGED <<replyVars, lockVars, mirrorVars, offset, length, body,
                    tempVars>>

(* io.Copy: one block of the temporary file at the descriptor's offset.    *)
CopyBlock(r) ==
  LET i == fd[r]
      b == offset[r] + 1
  IN /\ pc[r] = "copy"
     /\ b <= size[temp[r]]
     /\ size' = [size EXCEPT ![i] = IF @ < b THEN b ELSE @]
     /\ good' = [good EXCEPT ![i] = IF b \in good[temp[r]]
                                    THEN @ \cup {b} ELSE @ \ {b}]
     /\ offset' = [offset EXCEPT ![r] = b]
     /\ UNCHANGED <<pc, replyVars, lockVars, mirrorVars, cached, fd, length,
                    body, tempVars>>

(* Mutation: the copy stops before the end of the source.                  *)
CopyDoneEarly(r) ==
  /\ Move(r, "copy", "open")
  /\ CloseFile(r)
  /\ temp' = [temp EXCEPT ![r] = NoFile]
  /\ UNCHANGED <<replyVars, lockVars, mirrorVars, diskVars, body, orphaned>>

(* The source is removed only after a copy that succeeded; when removing   *)
(* it fails, that is only logged.                                          *)
CopyDone(r) ==
  /\ Move(r, "copy", "open")
  /\ offset[r] = size[temp[r]]
  /\ CloseFile(r)
  /\ temp' = [temp EXCEPT ![r] = NoFile]
  /\ \/ UNCHANGED orphaned
     \/ "storage" \in Conditions /\ orphaned' = TRUE
  /\ UNCHANGED <<replyVars, lockVars, mirrorVars, diskVars, body>>

(* Storing fails in MkdirAll, in os.Create after the rename has failed, or *)
(* in the middle of the copy.  Neither file is removed: what was copied    *)
(* stays at the destination, and the temporary file has no owner any more. *)
PutFails(r) ==
  /\ DiskRefuses \/ "cleanup" \in Conditions
  /\ pc[r] \in {"put", "copy"}
  /\ Reply(r, pc[r], "error")
  /\ CloseFile(r)
  /\ temp' = [temp EXCEPT ![r] = NoFile]
  /\ orphaned' = TRUE
  /\ UNCHANGED <<lockVars, mirrorVars, diskVars, body>>

-----------------------------------------------------------------------------
(* ServePackage: open, announce the length found, copy to the client.      *)
Open(r) ==
  /\ cached[path[r]] # NoFile
  /\ Move(r, "open", "send")
  /\ fd' = [fd EXCEPT ![r] = cached[path[r]]]
  /\ length' = [length EXCEPT ![r] = size[cached[path[r]]]]
  /\ UNCHANGED <<replyVars, lockVars, mirrorVars, diskVars, offset, body,
                 tempVars>>

(* Mutation: a file that has gone is answered with an empty success.       *)
OpenMissingAsEmpty(r) ==
  /\ cached[path[r]] = NoFile
  /\ Reply(r, "open", "ok")
  /\ UNCHANGED <<lockVars, mirrorVars, diskVars, ioVars, tempVars>>

OpenMissing(r) ==
  /\ cached[path[r]] = NoFile
  /\ Reply(r, "open", "missing")
  /\ UNCHANGED <<lockVars, mirrorVars, diskVars, ioVars, tempVars>>

SendBlock(r) ==
  LET b == offset[r] + 1
  IN /\ pc[r] = "send"
     /\ b <= length[r]
     /\ b <= size[fd[r]]
     /\ offset' = [offset EXCEPT ![r] = b]
     /\ body' = [body EXCEPT ![r] = IF b \in good[fd[r]]
                                    THEN @ \cup {b} ELSE @]
     /\ UNCHANGED <<pc, replyVars, lockVars, mirrorVars, diskVars, fd, length,
                    tempVars>>

(* Mutation: the response ends before the announced length.                *)
SendDoneEarly(r) ==
  /\ Reply(r, "send", "ok")
  /\ CloseFile(r)
  /\ UNCHANGED <<lockVars, mirrorVars, diskVars, body, tempVars>>

SendDone(r) ==
  /\ offset[r] = length[r]
  /\ Reply(r, "send", "ok")
  /\ CloseFile(r)
  /\ UNCHANGED <<lockVars, mirrorVars, diskVars, body, tempVars>>

(* The file ends before the announced length, or the connection does: the  *)
(* client sees a broken response.                                          *)
SendBreaks(r) ==
  /\ Reply(r, "send", "broken")
  /\ offset[r] < length[r]
  /\ "cutoff" \in Conditions \/ size[fd[r]] <= offset[r]
  /\ CloseFile(r)
  /\ UNCHANGED <<lockVars, mirrorVars, diskVars, body, tempVars>>

Leave(r) ==
  /\ Move(r, "done", "idle")
  /\ body' = [body EXCEPT ![r] = {}]
  /\ UNCHANGED <<replyVars, lockVars, mirrorVars, diskVars, fd, offset,
                 length, tempVars>>

-----------------------------------------------------------------------------
(* recoverWeights raises every weight below its base, so above zero.       *)
Recover ==
  /\ usable # Mirrors
  /\ usable' = Mirrors
  /\ UNCHANGED <<pc, replyVars, lockVars, chosen, current, attempt, inFlight,
                 diskVars, ioVars, tempVars>>

(* Cleanup removes a repository's whole directory: its files are not       *)
(* direct entries ending in ".pkg", so it always looks empty.  Open        *)
(* descriptors keep the inode alive.                                       *)
CleanupRemoves(p) ==
  /\ \/ "cleanup" \in Conditions
     \/ "evict" \in Conditions /\ \A r \in Requests : pc[r] \notin {"put", "copy"}
  /\ cached[p] # NoFile
  /\ cached' = [cached EXCEPT ![p] = NoFile]
  /\ UNCHANGED <<pc, replyVars, lockVars, mirrorVars, size, good, ioVars,
                 tempVars>>

(* The process dies and a new one starts on the same disk.                 *)
Crash ==
  /\ "crash" \in Conditions
  /\ pc' = [r \in Requests |-> "idle"]
  /\ outcome' = [r \in Requests |->
                   IF pc[r] = "idle" THEN outcome[r] ELSE "aborted"]
  /\ inProgress' = {}
  /\ tracked' = {}
  /\ usable' = Mirrors
  /\ chosen' = [r \in Requests |-> NoMirror]
  /\ current' = [r \in Requests |-> NoMirror]
  /\ attempt' = [r \in Requests |-> 0]
  /\ inFlight' = [m \in Mirrors |-> 0]
  /\ fd' = [r \in Requests |-> NoFile]
  /\ offset' = [r \in Requests |-> 0]
  /\ length' = [r \in Requests |-> 0]
  /\ body' = [r \in Requests |-> {}]
  /\ temp' = [r \in Requests |-> NoFile]
  /\ orphaned' = (orphaned \/ \E r \in Requests : temp[r] # NoFile)
  /\ UNCHANGED <<path, diskVars>>

-----------------------------------------------------------------------------
Fetch(r) ==
  \/ AcquireKey(r) \/ RejectDuplicate(r)
  \/ SelectMirror(r) \/ NoMirrorLeft(r)
  \/ BeginAttempt(r) \/ TempFails(r)
  \/ ReceiveBody(r) \/ AttemptFails(r)
  \/ Retry(r) \/ GiveUp(r)
  \/ Record(r) \/ Release(r)

Put(r) ==
  \/ PutRename(r) \/ CreateDest(r) \/ CopyBlock(r) \/ CopyDone(r)
  \/ PutFails(r)

Serve(r) ==
  \/ Open(r) \/ OpenMissing(r)
  \/ SendBlock(r) \/ SendDone(r) \/ SendBreaks(r)

Handle(r) ==
  LookupHit(r) \/ LookupMiss(r) \/ Fetch(r) \/ Put(r) \/ Serve(r)

Next ==
  \/ \E r \in Requests : (\E p \in Paths : Arrive(r, p)) \/ Handle(r) \/ Leave(r)
  \/ Recover
  \/ \E p \in Paths : CleanupRemoves(p)
  \/ Crash

(* A handler goroutine keeps running: it holds no lock while it waits, and *)
(* every network operation has a deadline (http.Client.Timeout towards the *)
(* mirror, WriteTimeout towards the client).                               *)
Fairness == \A r \in Requests : WF_vars(Handle(r) \/ Leave(r))

Spec == Init /\ [][Next]_vars /\ Fairness

-----------------------------------------------------------------------------
Holds(r) == pc[r] \in Fetching

(* FetchManager.inProgress lists exactly the keys that handlers inside     *)
(* FetchVersion hold, and no key is held twice: an entry that outlived its *)
(* handler would make the package unfetchable for good.                    *)
SingleFlight ==
  /\ inProgress = {KeyOf[path[r]] : r \in {q \in Requests : Holds(q)}}
  /\ \A r, q \in Requests :
       Holds(r) /\ Holds(q) /\ r # q => KeyOf[path[r]] # KeyOf[path[q]]

(* A mirror's in-flight count is the number of handlers downloading from   *)
(* it, through every retry and error; Select's scores rely on it.          *)
InFlightExact ==
  \A m \in Mirrors :
    inFlight[m] = Cardinality({r \in Requests :
                                 pc[r] = "receive" /\ current[r] = m})

Complete(i) == size[i] = Blocks /\ good[i] = Block

(* As long as no rename fails, no file in the cache is partial or damaged, *)
(* at any moment: a handler that stats the path serves whatever is there.  *)
CachedComplete == \A p \in Paths : cached[p] # NoFile => Complete(cached[p])

(* As long as no rename fails, a client that was told the transfer         *)
(* succeeded has the whole file.                                           *)
ServedComplete ==
  \A r \in Requests : pc[r] = "done" /\ outcome[r] = "ok" => body[r] = Block

(* No two files the program uses share an inode, so a handler that writes  *)
(* its temporary file changes no other file.                               *)
TempPrivate ==
  \A r \in Requests : temp[r] # NoFile =>
    /\ \A p \in Paths : cached[p] # temp[r]
    /\ \A q \in Requests : fd[q] # temp[r] /\ (q # r => temp[q] # temp[r])

(* As long as the disk and the process do not fail, every temporary file   *)
(* is renamed into the cache or removed.                                   *)
NoOrphans == ~orphaned

(* Every file in the cache was downloaded by this process or tracked when  *)
(* it was: LatestVersion knows each cached version until a restart.        *)
CachedTracked == \A p \in Paths : cached[p] # NoFile => KeyOf[p] \in tracked

(* A file that is copied into the cache, because it could not be renamed,  *)
(* may be partial, but while nothing else fails some handler is still      *)
(* going to write each block that is missing.                              *)
WrittenOut ==
  \A p \in Paths : cached[p] # NoFile =>
    \A b \in Block \ good[cached[p]] :
      \E r \in Requests :
        pc[r] = "copy" /\ fd[r] = cached[p] /\ offset[r] < b

(* Every request is answered, whatever the mirrors and the disk do.        *)
RequestsAnswered ==
  \A r \in Requests : pc[r] = "lookup" ~> pc[r] \in {"done", "idle"}

(* A key that is being fetched becomes free again: a failed download never *)
(* blocks the package for later requests.                                  *)
KeyReleased ==
  \A k \in Keys : k \in inProgress ~> k \notin inProgress

(* While disk and process live, a miss leads to the file being cached or   *)
(* to a fetch that fails with every attempt: a request that is rejected as *)
(* a duplicate has been rejected for the sake of one that does no worse.   *)
FetchFails(p) ==
  \E r \in Requests :
    pc[r] = "release" /\ outcome[r] = "error" /\ KeyOf[path[r]] = KeyOf[p]

MissFillsCache ==
  \A r \in Requests, p \in Paths :
    pc[r] = "acquire" /\ path[r] = p ~> cached[p] # NoFile \/ FetchFails(p)

-----------------------------------------------------------------------------
(* What ReadThroughCache sees of the server.                               *)
Available == {p \in Paths : cached[p] # NoFile /\ Complete(cached[p])}

(* A successful answer with a wrong body has no counterpart there.         *)
Phase(r) ==
  CASE pc[r] = "idle" -> "idle"
    [] pc[r] = "send" -> "pinned"
    [] pc[r] = "done" /\ outcome[r] # "ok" -> "failed"
    [] pc[r] = "done" /\ outcome[r] = "ok" ->
         IF body[r] = Block THEN "full" ELSE "truncated"
    [] OTHER -> "waiting"

Promise ==
  INSTANCE ReadThroughCache
    WITH available <- Available,
         wanted <- path,
         phase <- [r \in Requests |-> Phase(r)],
         Evicts <- Conditions \cap {"cleanup", "evict"} # {}

(* The handlers, the downloader and the disk together keep the promise of  *)
(* ReadThroughCache, if no rename fails: whole files or a failure, and     *)
(* files that stay.                                                        *)
KeepsPromise == Promise!Spec
=============================================================================
