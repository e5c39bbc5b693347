---------------------------- MODULE FilesystemCache ----------------------------
(***************************************************************************)
(* internal/cache/filesystem_cache.go in its own layout, name/             *)
(* name-version.pkg: Add, Remove, RetainMostRecent, Cleanup and what       *)
(* PutRepoFile does there, called by any goroutines.  There is no lock:    *)
(* each system call is an action; the storage directory and those in it    *)
(* can always be read.                                                     *)
(***************************************************************************)
EXTENDS Integers, FiniteSets, FiniteSetsExt

CONSTANTS
  Callers,  \* goroutines that use the cache
  Names,    \* package names
  NoName,
  Versions, \* versions, in the lexicographic order of their strings
  Keeps,    \* what RetainMostRecent may be called with
  MaxCalls  \* bound on the calls

ASSUME FilesystemCacheAssumption ==
  /\ NoName \notin Names /\ IsFiniteSet(Names)
  /\ Versions \subseteq Int /\ IsFiniteSet(Versions)
  /\ Keeps \subseteq Nat
  /\ MaxCalls \in Nat

VARIABLES
  dirs,     \* directories under storage_path
  stored,   \* stored[n]: versions in the directory of n
  packages, versions, \* the metrics PackagesInCache and VersionsInCache
  pc,       \* pc[c]: where caller c is
  name,     \* name[c]: the package it works on
  victims,  \* victims[c]: versions it adds or is going to remove
  left,     \* left[c]: directories it has read the names of, but not yet read
  counted,  \* counted[c]: packages and versions it has counted
  late,     \* late[c]: versions that came after c found their directory empty
  shared,   \* shared[c]: another call overlaps with that of c
  settled,  \* the last call that counted was alone, as were all since
  calls

diskVars == <<dirs, stored>>
metricVars == <<packages, versions>>
callVars == <<name, victims, left, counted>>
ghostVars == <<late, shared, settled, calls>>
vars == <<diskVars, metricVars, pc, callVars, ghostVars>>

TypeOK ==
  /\ dirs \subseteq Names
  /\ stored \in [Names -> SUBSET Versions]
  /\ \A n \in Names \ dirs : stored[n] = {}
  /\ packages \in 0..Cardinality(Names) /\ versions \in Nat
  /\ pc \in [Callers -> {"idle", "make", "move", "remove", "list", "count",
                         "store", "stored", "clean", "look", "wipe"}]
  /\ name \in [Callers -> Names \cup {NoName}]
  /\ victims \in [Callers -> SUBSET Versions]
  /\ left \in [Callers -> SUBSET Names]
  /\ counted \in [Callers -> Nat \X Nat]
  /\ late \in [Callers -> SUBSET Versions]
  /\ shared \in [Callers -> BOOLEAN]
  /\ settled \in BOOLEAN
  /\ calls \in 0..MaxCalls

(* A daemon that starts on files of an earlier one counts from zero.       *)
Init ==
  /\ dirs = Names
  /\ stored \in [Names -> SUBSET Versions]
  /\ packages = 0 /\ versions = 0
  /\ pc = [c \in Callers |-> "idle"]
  /\ name = [c \in Callers |-> NoName]
  /\ victims = [c \in Callers |-> {}]
  /\ left = [c \in Callers |-> {}]
  /\ counted = [c \in Callers |-> <<0, 0>>]
  /\ late = [c \in Callers |-> {}]
  /\ shared = [c \in Callers |-> FALSE]
  /\ settled = FALSE
  /\ calls = 0

Idle(c) == pc[c] = "idle"

Goto(c, location) == pc' = [pc EXCEPT ![c] = location]

Begin(c, location, n, vs) ==
  /\ Idle(c) /\ calls < MaxCalls
  /\ calls' = calls + 1
  /\ Goto(c, location)
  /\ name' = [name EXCEPT ![c] = n]
  /\ victims' = [victims EXCEPT ![c] = vs]
  /\ shared' = [d \in Callers |-> IF d = c THEN \E e \in Callers : ~Idle(e)
                                  ELSE shared[d] \/ ~Idle(d)]
  /\ UNCHANGED <<diskVars, metricVars, left, counted, late, settled>>

(* The call returns; what it counted, if it did, is in the metrics.        *)
End(c, trusted) ==
  /\ Goto(c, "idle")
  /\ name' = [name EXCEPT ![c] = NoName]
  /\ victims' = [victims EXCEPT ![c] = {}]
  /\ left' = [left EXCEPT ![c] = {}]
  /\ counted' = [counted EXCEPT ![c] = <<0, 0>>]
  /\ late' = [late EXCEPT ![c] = {}]
  /\ shared' = [shared EXCEPT ![c] = FALSE]
  /\ settled' = (~shared[c] /\ trusted)
  /\ UNCHANGED calls

-----------------------------------------------------------------------------
(* Add.  MkdirAll comes first, and may have to be undone by nobody.        *)
MakeDir(c) ==
  /\ pc[c] = "make"
  /\ dirs' = dirs \cup {name[c]}
  /\ Goto(c, "move")
  /\ UNCHANGED <<stored, metricVars, callVars, ghostVars>>

(* os.Rename into the directory, if it is still there.                     *)
Move(c) ==
  /\ pc[c] = "move" /\ name[c] \in dirs
  /\ stored' = [stored EXCEPT ![name[c]] = @ \cup victims[c]]
  /\ late' = [d \in Callers |-> IF pc[d] = "wipe" /\ name[d] = name[c]
                                THEN late[d] \cup victims[c] ELSE late[d]]
  /\ victims' = [victims EXCEPT ![c] = {}]
  /\ Goto(c, "count")
  /\ UNCHANGED <<dirs, metricVars, name, left, counted, shared, settled, calls>>

(* There is no file to move: Add goes on as if it had added one.           *)
NothingToMove(c) ==
  /\ pc[c] = "move"
  /\ victims' = [victims EXCEPT ![c] = {}]
  /\ Goto(c, "count")
  /\ UNCHANGED <<diskVars, metricVars, name, left, counted, ghostVars>>

MoveFails(c) ==
  /\ pc[c] = "move"
  /\ End(c, settled)
  /\ UNCHANGED <<diskVars, metricVars>>

-----------------------------------------------------------------------------
(* RetainMostRecent lists the versions, and removes all but the greatest.  *)
ListVersions(c, keep) ==
  LET S == stored[name[c]] IN
  /\ pc[c] = "list"
  /\ victims' = [victims EXCEPT ![c] =
                   {v \in S : Cardinality({w \in S : w > v}) >= keep}]
  /\ Goto(c, "remove")
  /\ UNCHANGED <<diskVars, metricVars, name, left, counted, ghostVars>>

(* Remove, and the count that follows each removal.                        *)
Remove(c) ==
  /\ pc[c] = "remove" /\ victims[c] # {}
  /\ LET v == Max(victims[c]) IN
       /\ victims' = [victims EXCEPT ![c] = @ \ {v}]
       /\ stored' = [stored EXCEPT ![name[c]] = @ \ {v}]
       /\ Goto(c, IF v \in stored[name[c]] THEN "count" ELSE "remove")
  /\ UNCHANGED <<dirs, metricVars, name, left, counted, ghostVars>>

RemoveFails(c) ==
  /\ pc[c] = "remove" /\ victims[c] # {}
  /\ victims' = [victims EXCEPT ![c] = @ \ {Max(@)}]
  /\ UNCHANGED <<diskVars, metricVars, pc, name, left, counted, ghostVars>>

NoVictimLeft(c) ==
  /\ pc[c] = "remove" /\ victims[c] = {}
  /\ End(c, settled)
  /\ UNCHANGED <<diskVars, metricVars>>

-----------------------------------------------------------------------------
(* countPackagesAndVersions reads the directories one after the other.     *)
BeginCount(c) ==
  /\ pc[c] = "count"
  /\ left' = [left EXCEPT ![c] = dirs]
  /\ counted' = [counted EXCEPT ![c] = <<Cardinality(dirs), 0>>]
  /\ Goto(c, "store")
  /\ UNCHANGED <<diskVars, metricVars, name, victims, ghostVars>>

CountDir(c, n) ==
  /\ pc[c] = "store" /\ n \in left[c]
  /\ left' = [left EXCEPT ![c] = @ \ {n}]
  /\ counted' = [counted EXCEPT ![c][2] = @ + Cardinality(stored[n])]
  /\ UNCHANGED <<diskVars, metricVars, pc, name, victims, ghostVars>>

(* Mutation: the directories need not all have been read.                  *)
StorePackagesEarly(c) ==
  /\ pc[c] = "store"
  /\ packages' = counted[c][1]
  /\ Goto(c, "stored")
  /\ UNCHANGED <<diskVars, versions, callVars, ghostVars>>

(* metrics.UpdateCacheStats stores one gauge, then the other.               *)
StorePackages(c) ==
  /\ pc[c] = "store" /\ left[c] = {}
  /\ packages' = counted[c][1]
  /\ Goto(c, "stored")
  /\ UNCHANGED <<diskVars, versions, callVars, ghostVars>>

(* Add ends here, RetainMostRecent may have more to remove.                *)
StoreVersions(c) ==
  /\ pc[c] = "stored"
  /\ versions' = counted[c][2]
  /\ IF victims[c] = {} THEN End(c, TRUE)
     ELSE Goto(c, "remove") /\ UNCHANGED <<callVars, ghostVars>>
  /\ UNCHANGED <<diskVars, packages>>

-----------------------------------------------------------------------------
(* Cleanup looks into one directory after the other, and removes those in  *)
(* which it has seen no package with all that is in them.                  *)
BeginCleanup(c) ==
  /\ pc[c] = "clean"
  /\ left' = [left EXCEPT ![c] = dirs]
  /\ Goto(c, "look")
  /\ UNCHANGED <<diskVars, metricVars, name, victims, counted, ghostVars>>

(* Mutation: the last package of a directory is not looked at.             *)
IsNearlyEmpty(n) == Cardinality(stored[n]) <= 1

IsEmpty(n) == stored[n] = {}

LookInto(c, n) ==
  LET found == n \in dirs /\ IsEmpty(n) IN
  /\ pc[c] = "look" /\ n \in left[c]
  /\ left' = [left EXCEPT ![c] = @ \ {n}]
  /\ name' = [name EXCEPT ![c] = IF found THEN n ELSE @]
  /\ Goto(c, IF found THEN "wipe" ELSE "look")
  /\ UNCHANGED <<diskVars, metricVars, victims, counted, ghostVars>>

RemoveAll(c) ==
  /\ pc[c] = "wipe"
  /\ dirs' = dirs \ {name[c]}
  /\ stored' = [stored EXCEPT ![name[c]] = {}]
  /\ name' = [name EXCEPT ![c] = NoName]
  /\ late' = [late EXCEPT ![c] = {}]
  /\ Goto(c, "look")
  /\ UNCHANGED <<metricVars, victims, left, counted, shared, settled, calls>>

RemoveAllFails(c) ==
  /\ pc[c] = "wipe"
  /\ name' = [name EXCEPT ![c] = NoName]
  /\ late' = [late EXCEPT ![c] = {}]
  /\ Goto(c, "look")
  /\ UNCHANGED <<diskVars, metricVars, victims, left, counted, shared, settled, calls>>

EndCleanup(c) ==
  /\ pc[c] = "look" /\ left[c] = {}
  /\ End(c, settled)
  /\ UNCHANGED <<diskVars, metricVars>>

-----------------------------------------------------------------------------
Add(c) == \E n \in Names, v \in Versions : Begin(c, "make", n, {v})
(* PutRepoFile makes the directory of a repository, where            *)
(* countPackagesAndVersions and Cleanup find no package: they do not look  *)
(* into os/<arch>, where it puts the file.                                 *)
PutRepoFile(c) == \E n \in Names : Begin(c, "make", n, {})
RemoveVersion(c) == \E n \in Names, v \in Versions : Begin(c, "remove", n, {v})
RetainMostRecent(c) == \E n \in Names : Begin(c, "list", n, {})
Cleanup(c) == Begin(c, "clean", NoName, {})

Adding(c) ==
  \/ Add(c) \/ PutRepoFile(c)
  \/ MakeDir(c) \/ Move(c) \/ NothingToMove(c) \/ MoveFails(c)
Removing(c) ==
  \/ RemoveVersion(c) \/ RetainMostRecent(c)
  \/ \E keep \in Keeps : ListVersions(c, keep)
  \/ Remove(c) \/ RemoveFails(c) \/ NoVictimLeft(c)
Counting(c) ==
  \/ BeginCount(c)
  \/ \E n \in left[c] : CountDir(c, n)
  \/ StorePackages(c) \/ StoreVersions(c)
Cleaning(c) ==
  \/ Cleanup(c) \/ BeginCleanup(c)
  \/ \E n \in left[c] : LookInto(c, n)
  \/ RemoveAll(c) \/ RemoveAllFails(c) \/ EndCleanup(c)

Next == \E c \in Callers :
          Adding(c) \/ Removing(c) \/ Counting(c) \/ Cleaning(c)

Spec == Init /\ [][Next]_vars

-----------------------------------------------------------------------------
Stored(n) == {<<n, v>> : v \in stored[n]}

(* A stored version disappears only by a Remove or RetainMostRecent that   *)
(* names it, or by a Cleanup of its directory that looked before it was    *)
(* moved there: between ReadDir and RemoveAll nothing stops an Add.        *)
NothingLost ==
  [][\A n \in Names, v \in Versions :
       v \in stored[n] /\ v \notin stored'[n] =>
         \E c \in Callers :
           /\ name[c] = n
           /\ \/ pc[c] = "remove" /\ v \in victims[c]
              \/ pc[c] = "wipe" /\ v \in late[c]]_vars

(* Once no call is running, VersionsInCache is the number of files stored, *)
(* if the last call that counted them, and all since, ran alone: the next  *)
(* call alone repairs what overlapping ones have left.                     *)
StatsSettle ==
  settled /\ (\A c \in Callers : Idle(c)) =>
    versions = Cardinality(UNION {Stored(n) : n \in Names})

=============================================================================
