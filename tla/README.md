# Trinity-cache in TLA+

Trinity-cache sits between pacman and the Arch Linux mirrors. It serves package
and repository files from a local directory, fetches what is missing from a
weighted choice of mirrors, and is meant to keep only the newest versions. The
modules here describe what its goroutines do to the state they share, from the
configuration file to the exit status; TLC checks them on small instances, and
TLAPS proves the central safety properties for instances of every size.

    tlasany PackageServer.tla                              # parse
    tlc -config rename_faults.cfg MCPackageServer.tla      # check one run
    tlapm PackageServer_proof.tla                          # check the proofs

`PROJECT.json` lists, for each definition, the source lines it stands for; for
each run, what it asks; for each property, a mutation of the code that the
property catches; the hazards of the code; and where code and documentation
disagree.

## The system

| Part | State | Operations | Talks to |
|---|---|---|---|
| HTTP handlers, `internal/server/http_server.go` | one goroutine per request | parse a path, look it up, fetch on a miss, store, send | cache, fetch manager |
| HTTP server, the same file | mutex, `running`, `shutdownChan`, `allDone`, `activeRequests` | `Start`, `Shutdown`, `WaitForShutdown` | `net/http`, handlers |
| `FetchManager`, `internal/downloader/fetch_manager.go` | `inProgress` and `lastCheckTimes` maps, a mutex for each | `FetchVersion`, `FetchIfNeeded`, `CheckForUpdates` | selector, downloader, tracker |
| `HTTPDownloader`, `http_downloader.go` | none of its own; temporary files, in-flight counts of mirrors | `Download`: attempts, retries | selector, network, disk |
| `FilesystemCache`, `internal/cache/filesystem_cache.go` | the files under `storage_path`; no lock | `PutRepoFile`, `Add`, `ListVersions`, `RetainMostRecent`, `Remove`, `Cleanup`; counts for the metrics | disk, metrics |
| `RetentionManager`, `retention_manager.go` | mutex, `running`, `stopChan`, ticker | `EnforceNow`, `StartPeriodicEnforcement`, `Stop`, `SetRetentionCount` | cache |
| `WeightedSelector`, `internal/mirror/mirror.go` | mirrors with weight, last use, in-flight count; `recoveryRunning`, `stopChan`, ticker | `Add`, `Select`, `Penalize`, `StartRecovery`, `Stop` | used by fetch manager, downloader, pool |
| `WorkerPool`, `worker_pool.go` | `taskQueue`, `stopChan`, `running`, counters | `Start`, `Stop`, `Queue`, workers | selector, downloader |
| `InMemoryTracker`, `internal/versiontracker` | versions known per package | `Update`, `LatestVersion`, queries | used by fetch manager |
| `Application`, `cmd/trinity-cache/main.go` | all of the above | build, run, shut down in order | signals |
| configuration, `internal/config/config.go` | one record | `Load` with its defaults, `Validate` | read once by `main` |
| metrics, logger, version | constants and counters | | |

What is hard about it: every request is a goroutine, and the only thing that
keeps two of them off one file is the in-progress map, which is released before
the file is stored; the disk layout is shared with `Cleanup` and the retention
manager without a lock; a store is a rename or, when that fails, a copy into the final
path; mirrors refuse, stop early, and run out of weight; three
components have a background goroutine with a stop channel and a `running` flag
that do not change together; a graceful shutdown races its deadline, with one
context for the whole of it; and a daemon may die between any two steps.

What makes each part correct:

- serving: a client that is told of success has the whole file; every request is
  answered; a failed fetch does not block the next one;
- storing: what is at a path is whole, also after a crash, and stays until it is
  evicted; temporary files are stored or removed;
- retention: only versions with enough newer ones go, the surplus does go, and
  enforcement happens when it should;
- selection: the best usable mirror is taken, and no mirror is lost for good;
- pool: an accepted task is run once and answered, and shutdown terminates;
- background goroutines: one at a time, started when started, ended when stopped;
- server: after a clean shutdown nothing runs, after any nobody listens, whoever
  waits is released, and a key of a fetch stands for one file name;
- cache: a package disappears only when it is told to, and the counts recover from
  calls that overlap;
- daemon: a configuration that is accepted can be run, no component is stopped
  twice, the exit status says what happened, and a signal ends it.

## Modules

| Module | Models | Abstract from |
|---|---|---|
| `ReadThroughCache` | the promise to a client: the whole file or a failure, and files that stay | everything behind it |
| `PackageServer` | handlers, `FetchVersion`, `Download`, `PutRepoFile`, `ServePackage`, `Cleanup`, crash and restart | mirror weights, bytes |
| `PacmanRequest` | `parsePacmanRequest`, `parsePackageName` and the key of a fetch, as operators on the parts of a path | characters |
| `HTTPServer` | `Start`, `Shutdown`, `WaitForShutdown` and `net/http` around the handlers | what a handler does, which `PackageServer` has |
| `FilesystemCache` | `Add`, `Remove`, `RetainMostRecent`, `Cleanup` call against call, each system call a step | file contents |
| `RetentionManager` | mutex, periodic loop, `EnforceNow` step by step, files added meanwhile | file names |
| `MirrorSelector` | scores, selection, penalties, recovery loop | the logarithm, at four ages |
| `TaskService` | the promise to those who queue: a task is refused, or accepted, run once and answered | everything behind it |
| `WorkerPool` | queue, workers, start, stop, restart | what a download does |
| `Configuration` | `Default`, the defaults of `Load`, `Validate`, as operators on a record | YAML |
| `Application` | `main`, `NewApplication`, `Run`, `Shutdown`, composed with the pool, the retention manager, the selector and the server | the data of the components |
| `..._proof` | theorems about the module they are named after | |
| `MC...` | small instances: model values, symmetry sets, constant functions | |

### PackageServer

`pc[r]` is where the goroutine of request `r` is. Between "select" and "release"
it holds its key of `inProgress` (`AcquireKey` and `Release` are the two
critical sections of `FetchVersion`); "begin", "receive" and "retry" are one
attempt of `Download`; "put" and "copy" are `PutRepoFile`; "open" and "send" are
`ServePackage`. Files are inodes: `cached[p]` is what a directory entry refers to,
`fd[r]` an open descriptor, `temp[r]` the temporary file that `Download` returns.
`size` and `good` say how long an inode is and which of its blocks hold the right
bytes, so that a partial, a damaged and a replaced file can be told apart.
`orphaned` is a history variable. `usable` is the set of mirrors whose weight is
positive; `MirrorSelector` has the weights. `Conditions` is what the environment
may do: refuse, close early, damage a body, bring weights to zero, fail disk
operations, fail renames, cut off clients, crash, run `Cleanup` at any time or only
while no handler is in `PutRepoFile`.

Two requests share a key when `KeyOf` says so. This is what happens when one file
name is asked for in two repositories or for two architectures, since the key is
name and version only.

`PutRepoFile` copies into the final path after any error of the rename. Across
filesystems that is every time. On one filesystem it takes an error of the disk, or
a `Cleanup` that removed the directory after `MkdirAll`, and another handler whose
`MkdirAll` makes it again before the copy begins; `RenameMayFail` says when
`CreateDest` is possible. `PutFails` is any error of the store: before the copy it
leaves the path as it was, inside the copy it leaves what was copied. `Crash` keeps
the disk and drops the rest. `Open` fails only for a file that is gone.

### HTTPServer and PacmanRequest

`pc[c]` is where a goroutine that uses the server is: "closing", "select", "done"
and "stopped" are the stretches of `Shutdown` between its look at `running`, the
two channels it closes and the select over the result of `http.Server.Shutdown`
and the context. `doneChan` is the goroutine inside. `listener` and `inShutdown`
belong to `net/http`, modelled from its documentation: `ListenAndServe` runs in a
goroutine of its own, and after a shutdown never listens again. `stage[r]` is how
far a connection has come; "entered", "fetch" and "serve" lie between the two
updates of `activeRequests`, and "aside" stands for the handlers of statistics,
metrics and health. `misused` is a history variable: two calls of `Shutdown` have
overlapped, or `Start` came a second time.

A path is its directories and a file, and a file name is its parts between
hyphens. `Version` is the search of `parsePackageName`, which goes backwards and
stops at the first part that begins with a digit, so the release number alone.
`Key` is the string `name:version` as a pair: a release has no colon, so the last
colon separates them.

### FilesystemCache

The layout `name/name-version.pkg`, which `PackageServer` does not use: the
handlers store under the repository. What `PutRepoFile` does in this layout is part
of it: the directory it makes, which `Cleanup` finds empty and the counts take for a
package, and the count at its end. A call of `Add` is `MakeDir`, `Move` and the
count of what is there, directory by directory (`List`, `Count`, `Store...`), and
`Cleanup` looks into a directory before it removes it. `late` is a history
variable: the versions that came into a directory after a `Cleanup` found it
empty. `shared` and `settled` say whether a call ran alone, and what it counted
can be trusted. Directories can always be read; the daemon owns them.

### Application and Configuration

`main` is where the main goroutine is: one location for each call it makes that
can fail, block or be overtaken, in the order of the source. The components are
instances of their own modules with `Main` as their only caller. The daemon never
queues a task on the pool, calls `EnforceNow` or adds a package, so the variables
about these are constants of the instances. `deadline` is the 30 seconds of
`Application.Shutdown`, which start before the pool and the retention manager are
waited for. `Duration` is the conversion of the recovery interval into nanoseconds,
modulo 2^64; when what comes of it is not positive, `time.NewTicker` panics in the
main goroutine and the process exits with status 2 (`RecoveryPanics`). A
configuration is a record whose numbers below the top level, which
are all checked and defaulted alike, are one function.

### RetentionManager

A goroutine is a caller or the loop; `mu` is `rm.mu` with its holder. `EnforceNow`
is several steps, because files are added without the mutex: it reads the
directories once (`BeginScan`), counts one (`CountPackage`), lists it again
(`ListVersions`), and removes the surplus, newest first. `dirty` is a history
variable: the directories that changed since `EnforceNow` last looked, or that it
failed to trim. Versions are numbers in the lexicographic order of their strings,
which is the order the code uses. `Nested` are directories with the layout the
server uses.

### MirrorSelector

Weights are tenths; every base weight and penalty of the code is a multiple. A
recovery step is rounded up to a tenth: in the code's floating point a weight
below its base always moves. Every critical section of `ws.mu` is one action.
`calculateScore` reads the in-flight counts without their mutex. `Select` holds
`ws.mu` for reading all the while, and every download is followed by a `Penalize`,
which needs it for writing: until `Select` is done each other goroutine can begin
one download and end one. So a count is at most that of the downloads under way or
just ended when `Select` is done, and may be anything below (`MostRead`, `Reads`),
whatever the number of goroutines.

### WorkerPool

`QueueChecks` and `QueueSends` are the halves of `Queue`, which unlocks between
them. The stop channel is the number of the `Start` that made it, and a worker
watches the one it read last: `wp.stopChan` is read without the mutex, so `Report`
lets a worker keep an older one. Start of a running pool, Stop of a stopped one
and an invalid task return an error and change nothing; they have no action.
`Done` has a buffer, as `Queue` and every caller in the tests make it.

`Service` is `TaskService` with `state[t]` computed from where the task is
(`Progress`): refused when `Queue` said so or gave up, accepted while it is in the
queue, running while a worker has it, then its outcome. A task that is in two
places, or in one where it should not be, is "astray", which no step of
`TaskService` leads to. Start, Stop and the goroutines that come and go are
stutters, so `KeepsTasks` says that none of them touches a task.

## Runs

| Run | Shows | States |
|---|---|---|
| `rename_faults` | with every failure but a damaged body and a failed rename: whole files, at the path and at the client; `PackageServer` implements `ReadThroughCache` | 724 000 |
| `copy_network` | with mirrors that refuse, and renames that fail on a disk that is sound otherwise: missing blocks are still going to be written, no orphan, private temporary files, exact in-flight counts, tracked versions, and a miss whose fetch does not fail fills the cache | 257 000 |
| `answers` | paths that share a key, a disk that fills, `Cleanup` at any time: one handler holds the key; every request answered, every key given back | 156 000 |
| `retention_safety` | one loop, newest kept, surplus gone; calls return, a stopped loop ends | 149 000 |
| `pool_answers` | `WorkerPool` implements `TaskService`; counters, cap; answers, end | 27 000 |
| `mirror_select` | the best mirror is selected; one recovery loop, no starvation, recovery ends | 853 000 |
| `http_server` | what `Shutdown` promises by each of its ways out, and to those who wait; misuse is what it takes to panic; keys and file names | 698 000 |
| `filesystem_cache` | nothing disappears but what is named or what a `Cleanup` found empty; the counts settle | 297 000 |
| `application` | the daemon from good and bad configurations to its exit status | 96 000 |
| `viol_retention_tick` | the first tick of the retention loop locks the mutex twice, and the manager hangs | |
| `viol_retention_layout` | retention looks for files where the server does not put them | |
| `viol_pool_race` | `Stop` between the halves of `Queue` makes it send on a closed channel | |

The runs check the type invariants of `MirrorSelector` and `Application`, which
rounding and the instances of other modules make the least obvious; the other type
invariants are proved only. `EachTaskOnce` follows from `KeepsTasks` and is not a
property of its own there.

The runs named `viol_...` each check what a comment or a document says and the
code does not do; "findings" in `PROJECT.json` quotes the line.

Other places where the models follow the code and a comment or document says
something else, none of which has a run:

- a store whose rename fails, across filesystems or on one, copies into the final
  path, and a request that finds the path meanwhile gets the part that is there, as
  a success; an error or a crash in the copy leaves the part for good
  (`filesystem_cache.go:327`; the integrity runs and theorems assume that no rename
  fails). No code of the daemon calls `Cleanup`, which is one cause of it;
- a request for a key that is being fetched gets 500 although nothing failed
  (`fetch_manager.go:96`), and the key is released before the file is stored, so
  that one file may be downloaded twice (`http_downloader.go:23` promises
  deduplication);
- the SHA256 sum is computed and compared with nothing (`http_downloader.go:211`,
  against line 21);
- a start after `Stop` that comes before the goroutine has ended returns as if it
  had started something (`retention_manager.go:119`, `mirror.go:206`), and a second
  `Stop` there closes a closed channel;
- removals that failed are counted as made (`retention_manager.go:91`);
- tasks in the queue may never be answered after `Stop` (`worker_pool.go:154`,
  against "gracefully", line 88), and a pool that is started again has a closed
  queue, no lasting worker, and says it is running (`worker_pool.go:75`);
- a recovery rate of zero means 5% (`mirror.go:211`, against line 200), and a
  mirror that was never used gets no boost (`mirror.go:161`, against line 139);
- the version is parsed without the part before the release (`http_server.go:521`,
  against line 498), and a package named `...-any` under `x86_64`, where Arch
  Linux keeps it, gets 404;
- `Start` of the server returns nil whatever comes of `ListenAndServe`, which
  runs later (`http_server.go:92`; the interface at `server.go:12` says that an
  error is returned). A `Start` after a `Shutdown` sets `running` and never
  listens, and the next `Shutdown` closes a closed channel; so do two that overlap;
- once the retention loop has ticked, `retention.Stop` in `Application.Shutdown`
  waits for ever, so the server is never shut down, and further signals are not
  received (`main.go:291`). `ShutdownEnds` is stated with this exception;
- the 30 seconds of the shutdown begin before the pool and the retention manager
  are waited for, so the server may get a context that has expired
  (`main.go:268`);
- a daemon without a configuration file exits with status 1, for want of mirrors,
  though `CONFIG.md:112` says that defaults are used;
- `CONFIG.md:103` says of the recovery interval "Minutes; must be ≥1", and nothing
  bounds it from above: 153722868 minutes or more do not fit a `time.Duration`, and when the product
  wraps around to one that is not positive, the daemon panics while it is built
  (`main.go:159`, `mirror.go:216`). Timeouts that wrap around mean no timeout or the
  default, and the interval of retention is guarded (`retention_manager.go:124`);
- `Validate` compares the numbers that may be fractions with `<`, which YAML's `.nan`
  passes (`config.go:81`, 107, 115, 118); the model has integers;
- `CONFIG.md:91` allows a concurrency of up to 10000, and the pool silently takes at
  most 100 workers (`worker_pool.go:52`);
- `Validate` lets zero pass for most numbers; that none reaches a component is due
  to the defaults of `Load`, which `FailureHasCause` depends on;
- the daemon starts the worker pool and queues nothing on it;
- `Add` of a file that is not there returns nil (`filesystem_cache.go:104`), a
  failed `Add` and `Cleanup` leave the counts as they were, the counts are zero
  after a restart, and directories of repositories are counted as packages;
- `Cleanup` removes the directory of a repository, since it sees no package
  directly in it (`filesystem_cache.go:296`);
- versions are compared as strings, so 1.10 is older than 1.9
  (`filesystem_cache.go:163`).

Bounds. Two requests are enough for every race of the serving path: each property
is about one or two handlers, and the environment (`Cleanup`, crashes, recovery)
is separate. Two paths give the cases "same path", "same key" and "nothing in
common". Two blocks are the least that tell empty, partial and whole apart, and
two attempts the least with a retry; `answers` uses one block, since it follows
phases and not bytes. `rename_faults` and `copy_network` have inodes for all that requests and cache can
hold at once, `answers` has fewer, so that the disk fills. `copy_network` sets `SameDevice` and
lets renames fail, which includes every behaviour of two filesystems, where
all of them do. Retention has two
callers, two names for loops, three versions with a count of one or two, so that
there is always a case with a surplus of two. The selector has two mirrors of
weights 0.1 and 0.3, no more than what a fetch or two cost, so that both are
exhausted, one rate and two names for loops. The pool has one worker, a queue of
two and three tasks, so that callers find the queue full; a second `Start` is the
least that restarts, and two of `Stop` the least that close a channel twice. The server has two goroutines that call it, which is what it
takes to overlap, two starts, two clients, and four paths: two packages whose
names begin alike, one whose name does not end with the architecture of its
directory, and a repository file in the shortest path that is accepted. The cache has two callers with four calls between them, two names and two
versions, from every set of files on disk. The daemon has two workers, one client,
and configuration files that leave out all they can but differ in one field, at and
beyond its bounds. A `Duration` there counts to 1024 instead of 2^63 and a minute
is 6, so that the intervals 170, 171, 342 and 1024 are the last that fits, one that
wraps around to a negative duration, one to a positive, and one to zero. `MaxAdds`, `MaxStops`, `MaxStarts` and `MaxCalls` bound what
may happen without end; nothing else in the models grows.

Deadlock checking is off where the system really stops: a retention manager whose
loop has locked the mutex twice, a process that has panicked or exited, a pool
whose tasks are done, a caller of `WaitForShutdown` that nobody shuts down for,
and where the bound on calls is used up. Symmetry is used in runs without liveness only: requests
and mirrors in `rename_faults`, callers and names in `filesystem_cache`; no
operator compares any of them.

Fairness. A handler goroutine is scheduled, waits for no lock for longer than a
map operation, and each network wait ends: `http.Client.Timeout` and the context
of the request towards the mirror, `WriteTimeout` towards the client. Hence weak
fairness of `Handle` for each request. A caller of the retention manager may wait
for the mutex; `sync.Mutex` serves a starving waiter first, hence strong fairness
of `Acquire`. Tickers tick, except that of retention in `Application`, which may come or not.
The goroutines of a shutdown are scheduled and its timer fires; nothing is assumed
of the handlers and clients of the server, so that `ShutdownReleases` and
`ShutdownEnds` hold of handlers that never end. No fairness is assumed of
arrivals, `Start`, `Stop`, signals, crashes, `Cleanup`, penalties, or of weight
recovery in `PackageServer`: requests are answered without it.

## Proofs

Every theorem holds for all values of the constants that satisfy the assumption
of its module; what else is assumed is said here and in its statement. Each proof
has an inductive invariant, one step per action, and one step per conjunct that
the action can disturb. Every safety invariant and action property of a passing
run, and both refinements, are stated by a theorem.

`PackageServer_proof`:

- `TypeCorrect`: `TypeOK` is not inductive: the step that stores a file needs
  `temp[r]` to be a file, so `TypeInv` adds that a handler between "receive" and
  "copy" owns one (`TempOwned`), and that a handler that is past a successful
  download has no error outcome (`Downloaded`).
- `SingleFlightHolds`, given `TypeInv`.
- `TempPrivateHolds`: a new file takes an inode that nothing refers to; a rename
  gives up the temporary name in the same step.
- `InFlightExactHolds`: `CountInv` adds that a handler in an attempt has chosen a
  mirror (`MirrorKnown`); the count changes only in the steps that enter or leave
  "receive", and there by the mirror that is being tried.
- `CachedTrackedHolds`, if the process does not crash: the tracker is told before
  the key is released, so what is about to be stored is tracked (`Recorded`). A
  restart forgets the versions and keeps the files.
- `NoOrphansHolds`, for a `SoundDisk`: the disk refuses nothing but a rename, no
  `Cleanup` runs and the process does not crash, and there are more inodes than
  paths and twice the handlers. `FileInUse` says at which locations a handler has a
  temporary file or a descriptor; since it refers to two inodes at most, the disk
  is never full (`DiskNotFull`). Each part is needed: a failed removal, a directory
  that is gone, a crash and a full disk all leave a temporary file behind.

`PackageServerIntegrity_proof`, for `Sound` constants (no rename fails, mirrors do not
damage bodies, and they declare a length if they may stop early):

- `CacheIntegrity` and `ServedCompleteHolds`. The inductive invariant `IInv` says
  in addition that a downloaded temporary file is whole, that the file a handler
  sends is whole and its announced length is the full one, that the blocks received
  are those sent so far, and that no handler ever is in "copy".
- `ImplementsReadThroughCache`: `Spec => KeepsPromise`. Each action is a step of
  the abstract cache or leaves its variables alone: a rename is `Fill`, `Open` is
  `Pin`, `SendDone` is `Deliver`, `CleanupRemoves` is `Evict`.
- `WrittenOutHolds`, whichever renames fail, on one filesystem or two, with a
  `SoundDisk` and `Honest` mirrors (the rest of `Sound`): a block that a cached file
  lacks is still going to be written. Two handlers may copy into one file, and the second
  truncates what the first has written; `CInv` says that whoever truncates starts
  from the first block (`Rewound`) with a whole file (`WholeDownloads`).

Each part of `Sound` is needed. Where a rename fails, a partial file is served as a
success; without a declared length a short body is stored; damaged bodies are
stored because the checksum is compared with nothing.

`HTTPServer_proof`: `TypeCorrect` comes with `Counted` (`activeRequests` is the
number of handlers between its two updates, so it never goes below zero); that
step counts with cardinalities and needs the set of clients to be finite, which
the assumption says. `IInv` adds what a goroutine inside `Shutdown` knows at each
of its steps (`Closing`), what a shutdown without an error leaves (`Clean`), that
whoever uses the server as intended finds no channel closed (`Careful`), and that
a request that went past the parser has a valid path (`Parsed`). From it follow
`DrainedHolds`, `DownForGoodHolds` and `NoPanicHolds`. `KeyNamesFileHolds` is about
the key of a fetch and needs `RepoFilesNamed`: a repository file is not named like
the part of a package's name that begins with a digit. Its lemmas are about
`Version`, which takes the last such part.

`RetentionManager_proof`: `LockInv` ties `mu` to the locations that are inside the
mutex, and the loop to `running`, `stopChan` and the ticker (`OneLoop`, `LoopsWait`,
`Trimming`); `OneLoopHolds` is one of its conjuncts.
`TickHangs` says why `viol_retention_tick` is violated, whatever the callers do:
the loop never reads a directory, and once it is at the mutex for `EnforceNow` it
holds that mutex and no step, its own or another's, gets anyone past it.
`NewestKeptHolds` is an action property: the list that `EnforceNow` works through
is what it read, and what it removes has enough newer ones in it (`Spared`).
`AtMostKeptHolds` assumes that no directory has the server's layout
(`Nested = {}`): `viol_retention_layout` shows that this is needed.

`WorkerPool_proof`: `PlaceInv` says that the tasks accepted and not answered are
those in the queue or with a worker, each in one place. `EachTaskOnceHolds`
follows, and `KeepsTasksHolds`, the refinement: under `PlaceInv` what `TaskService`
sees of a task is its `Stage`, which `QueueChecks`, `QueueSends`, `QueueTimesOut`,
`Take` and `Report` change for one task each, as `Refuse`, `Accept`, `Run` and
`Answer` do, and the other steps for none.
`CountInv` relates the counters to the cardinalities of the sets of workers at each
location, whence `AccountedHolds` and `BoundedHolds`; it needs finitely many
goroutines.

`MirrorSelector_proof`:

- `OneRecoveryHolds`, and `WeightsInRangeHolds`: a weight stays between zero and its
  base under any interleaving of penalties and recovery.
- `TypeCorrect`, by these and two invariants more: who is charged still owes
  something (`OwedType`), and no mirror is listed twice (`UseType`).
- `SelectsBestHolds`, an action property: the loop of `Select` is a recursive
  function over the list of mirrors. That it is defined for every list, and that
  after `i` mirrors it has the best of the first `i`, are inductions; the rules of
  the library that take a predicate cannot be instantiated by the provers, so `UpTo`
  derives induction over a set from the least number outside it. A mirror scores the
  less the more downloads it has (`Grows`), so what holds of the counts that were
  read holds of the bounds `ReadType` gives for them.

`FilesystemCache_proof`: `IInv` says of each call where it is in its list of
directories, and of a `Cleanup` about to remove one, that what is in it came after
it looked (`Late`). `NothingLostHolds`, an action property, follows: a version
disappears only when it is named, is surplus, or came in late. `StatsSettleHolds`:
two calls that run at once are both marked shared (`Alone`), so one that is not has
counted what is there (`Counts`) and wipes only what is empty (`Quiet`), and until
the next call counts, the metric is right (`Trusted`).

`Application_proof`: `AppInv` relates the location of `main` to what each component
has been told: the configuration it was built from is validated (`ConfigInv`), the
pool, the recovery loop and the retention manager are started before and stopped
after, once (`PoolInv`, `HealInv`, `KeepInv`), and the server likewise (`ServerInv`).
`ComponentsImplemented` says that the composition is one: the daemon starts as each
of the four components does and takes only steps of its `Next`. What the server
promises is therefore not proved again: `Application_proof` instantiates
`HTTPServer_proof` with the variables of the daemon's server, and uses its
invariant. An accepted number is in its range (`AcceptedNumbers`), and an interval
that fits a `Duration` is converted exactly (`DurationExact`), so that a panic of the
ticker means it did not fit. `NeverPanicsHolds`, `FailureHasCauseHolds`, `CleanExitHolds` and
`TypeCorrect` follow, for every configuration file and every set of paths, mirrors
and clients of the right type. `AcceptedExactly` is about `Load`: a file is
accepted exactly if, defaults filled in, all its numbers are in the ranges of
`CONFIG.md` and it lists a mirror. `Validate` alone lets zeros pass.

Some properties name an exception, because the code does what they would forbid:
`NoPanic` excuses the misuse of `Shutdown`, `StatsSettle` calls that overlap,
`NothingLost` versions that came after `Cleanup` looked, `LoopEnds` and `CallsReturn` a
loop that has locked the mutex twice or a panic. What they show is that these are
the only causes. `CachedTracked` is about files this process stored; that the tracker
forgets what was evicted, or learns what was there before, holds of no code.

Only model-checked: the liveness properties, since the prover has no rule for
fairness and `ENABLED`. That TLC's small instances are representative is argued
for them under "Bounds" alone.

## Not modelled

- The handlers for another `CacheManager`, and for a server without a fetch
  manager (`http_server.go:423` to 484, with their own `moveFileToCache`): `main`
  builds the server with a `FilesystemCache` and a fetch manager.
- `FetchIfNeeded`'s five minutes and `CheckForUpdates`: the daemon calls neither,
  and neither asks a mirror for anything yet. The queries of the tracker and
  `LoadFromCache`, which is empty, likewise; `Update` is part of `FetchVersion`.
- The metrics and their text, the statistics, health and metrics handlers beyond
  their part in a shutdown, the logger and the version strings: nothing in the
  daemon depends on them. The counters are atomic or under one mutex. A hit is
  counted also after the fetch of a miss (`http_server.go:324` and 407).
- `SetFetchManager`, `SetCache` and `FetchAndServe`, which log or assign a field
  before the server is started.
- Characters: the text of paths, names, configuration files and headers.
- Bytes: a block stands for many, and no checksum is computed.

## Plan

Done, in this order: `PackageServer` with its abstract specification and proofs,
`RetentionManager`, `WorkerPool`, `MirrorSelector`, `PacmanRequest` and `HTTPServer`,
`FilesystemCache`, `Configuration` and `Application`, each with its proofs. Left:

1. A theorem that a call of Shutdown, once its context has expired, needs no step
   of a client or handler to return: the safety part of `ShutdownReleases`, which
   says which step is enabled at each location.
2. Update checking with the five minutes, once the daemon calls it: two callers
   that both find the time expired, and how far the tracker drifts from a cache
   that retention trims.
