------------------------- MODULE FilesystemCache_proof -------------------------
(***************************************************************************)
(* Proofs about FilesystemCache, for any callers, packages and versions:   *)
(* the types, that no call loses a file that is not its own, and that the  *)
(* count of the versions is right again after a call alone.                *)
(***************************************************************************)
EXTENDS FilesystemCache, FiniteSetTheorems, WellFoundedInduction, TLAPS

USE FilesystemCacheAssumption

(* A call about a package has its name; what a Cleanup counts is in range. *)
Named == \A c \in Callers :
           pc[c] \notin {"idle", "clean", "look"} => name[c] \in Names

InRange == \A c \in Callers : counted[c][1] <= Cardinality(Names)

(* All that lies in a directory a Cleanup is going to wipe came after the  *)
(* Cleanup had looked into it.                                             *)
Late == \A c \in Callers : pc[c] = "wipe" => stored[name[c]] \subseteq late[c]

IInv == TypeOK /\ Named /\ InRange /\ Late

-----------------------------------------------------------------------------
(* Max is defined on what can be removed.                                  *)
LEMMA MaxExists ==
  ASSUME NEW S \in SUBSET Versions, S # {}
  PROVE  Max(S) \in S
<1> DEFINE Above(v) == {w \in S : w > v}
           T == {Cardinality(Above(v)) : v \in S}
<1>1. \A v \in S : IsFiniteSet(Above(v)) /\ Cardinality(Above(v)) \in Nat
  BY FS_Subset, FS_CardinalityType
<1>2. T \subseteq Nat /\ T # {}
  BY <1>1
<1>3. PICK n \in T : \A k \in T : ~ (<<k, n>> \in OpToRel(<, Nat))
  BY <1>2, NatLessThanWellFounded, WFMin
<1>4. PICK m \in S : n = Cardinality(Above(m))
  BY <1>3
<1>5. \A v \in S : ~(Cardinality(Above(v)) < Cardinality(Above(m)))
  <2> HIDE DEF Above
  <2> QED BY <1>1, <1>3, <1>4 DEF OpToRel
<1>6. \A v \in S : m >= v
  <2> SUFFICES ASSUME NEW v \in S, v > m PROVE FALSE
    <3>1. \A v \in S : v \in Int
      OBVIOUS
    <3> QED BY <3>1
  <2>1. Above(v) \in SUBSET Above(m) /\ v \in Above(m) /\ v \notin Above(v)
    <3>1. \A w \in S : w \in Int
      OBVIOUS
    <3>2. \A w \in S : w > v => w > m
      BY <3>1
    <3>3. ~(v > v)
      BY <3>1
    <3> QED BY <3>2, <3>3
  <2>2. /\ Cardinality(Above(v)) <= Cardinality(Above(m))
        /\ Cardinality(Above(v)) # Cardinality(Above(m))
    BY <1>1, <2>1, FS_Subset
  <2> HIDE DEF Above
  <2> QED BY <1>1, <1>5, <2>2
<1> QED BY <1>6 DEF Max

(* Sizes of sets of directories and of versions.                           *)
LEMMA Sizes ==
  /\ Cardinality(Names) \in Nat
  /\ \A D \in SUBSET Names : /\ Cardinality(D) \in Nat
                             /\ Cardinality(D) <= Cardinality(Names)
  /\ \A V \in SUBSET Versions : Cardinality(V) \in Nat
BY FS_Subset, FS_CardinalityType

(* The daemon starts on whatever the directories hold.                     *)
LEMMA InitIInv == Init => IInv
<1> SUFFICES ASSUME Init PROVE IInv
  OBVIOUS
<1>1. /\ packages \in 0..Cardinality(Names) /\ versions \in Nat
      /\ calls \in 0..MaxCalls
  BY Sizes DEF Init
<1>2. /\ counted \in [Callers -> Nat \X Nat]
      /\ stored \in [Names -> SUBSET Versions]
      /\ name \in [Callers -> Names \cup {NoName}]
  BY DEF Init
<1>3. settled \in BOOLEAN /\ shared \in [Callers -> BOOLEAN]
  BY DEF Init
<1>4. TypeOK
  BY <1>1, <1>2, <1>3 DEF Init, TypeOK
<1> QED BY <1>4, Sizes DEF Init, IInv, Named, InRange, Late

(* A call that returns forgets what it knew.                               *)
LEMMA EndKeeps ==
  ASSUME IInv, NEW c \in Callers, NEW trusted \in BOOLEAN, End(c, trusted),
         UNCHANGED diskVars,
         packages' \in 0..Cardinality(Names), versions' \in Nat
  PROVE  IInv'
<1> USE DEF IInv, TypeOK, End, Goto, diskVars
<1>1. TypeOK'
  <2>1. settled' \in BOOLEAN
    OBVIOUS
  <2>2. /\ name' \in [Callers -> Names \cup {NoName}]
        /\ victims' \in [Callers -> SUBSET Versions]
        /\ left' \in [Callers -> SUBSET Names]
        /\ counted' \in [Callers -> Nat \X Nat]
        /\ late' \in [Callers -> SUBSET Versions]
        /\ shared' \in [Callers -> BOOLEAN]
    OBVIOUS
  <2> QED BY <2>1, <2>2
<1>2. Named'
  BY DEF Named
<1>3. InRange'
  BY Sizes DEF InRange
<1>4. Late'
  BY DEF Late
<1> QED BY <1>1, <1>2, <1>3, <1>4

(* Calls begin.                                                            *)
LEMMA BeginKeeps ==
  ASSUME IInv, NEW c \in Callers, NEW location \in {"make", "remove", "list", "clean"},
         NEW n \in Names \cup {NoName}, n \in Names \/ location = "clean",
         NEW vs \in SUBSET Versions, Begin(c, location, n, vs)
  PROVE  IInv'
<1> USE DEF IInv, TypeOK, Begin, Goto, diskVars, metricVars, Idle
<1>1. TypeOK'
  <2>1. calls' \in 0..MaxCalls
    OBVIOUS
  <2>2. shared' \in [Callers -> BOOLEAN]
    <3>1. \A d \in Callers : (IF d = c THEN \E e \in Callers : ~Idle(e)
                              ELSE shared[d] \/ ~Idle(d)) \in BOOLEAN
      OBVIOUS
    <3> QED BY <3>1
  <2> QED BY <2>1, <2>2
<1>2. Named'
  BY DEF Named
<1>3. InRange' /\ Late'
  BY DEF InRange, Late
<1> QED BY <1>1, <1>2, <1>3

(* Add, up to the move.                                                    *)
LEMMA AddKeeps ==
  ASSUME IInv, NEW c \in Callers, MakeDir(c) \/ NothingToMove(c)
  PROVE  IInv'
<1> USE DEF IInv, TypeOK, Goto, diskVars, metricVars, callVars, ghostVars
<1>1. CASE MakeDir(c)
  <2>1. name[c] \in Names
    BY <1>1 DEF MakeDir, Named
  <2>2. TypeOK'
    BY <1>1, <2>1 DEF MakeDir
  <2>3. Named' /\ InRange' /\ Late'
    BY <1>1 DEF MakeDir, Named, InRange, Late
  <2> QED BY <2>2, <2>3
<1>2. CASE NothingToMove(c)
  <2>1. TypeOK'
    BY <1>2 DEF NothingToMove
  <2>2. Named' /\ InRange' /\ Late'
    BY <1>2 DEF NothingToMove, Named, InRange, Late
  <2> QED BY <2>1, <2>2
<1> QED BY <1>1, <1>2

(* Move tells every Cleanup that is about to wipe the directory.           *)
LEMMA MoveKeeps ==
  ASSUME IInv, NEW c \in Callers, Move(c)
  PROVE  IInv'
<1> USE DEF IInv, TypeOK, Goto, metricVars
<1>1. /\ pc[c] = "move" /\ name[c] \in dirs
      /\ stored' = [stored EXCEPT ![name[c]] = @ \cup victims[c]]
      /\ late' = [d \in Callers |-> IF pc[d] = "wipe" /\ name[d] = name[c]
                                    THEN late[d] \cup victims[c] ELSE late[d]]
      /\ victims' = [victims EXCEPT ![c] = {}]
      /\ pc' = [pc EXCEPT ![c] = "count"]
      /\ UNCHANGED <<dirs, packages, versions, name, left, counted, shared,
                     settled, calls>>
  BY DEF Move
<1>2. TypeOK'
  <2>1. late' \in [Callers -> SUBSET Versions]
    BY <1>1
  <2>2. /\ stored' \in [Names -> SUBSET Versions]
        /\ \A n \in Names \ dirs : stored'[n] = {}
    BY <1>1
  <2> QED BY <1>1, <2>1, <2>2
<1>3. Named' /\ InRange'
  BY <1>1 DEF Named, InRange
<1>4. Late'
  <2> SUFFICES ASSUME NEW d \in Callers, pc'[d] = "wipe"
               PROVE  stored'[name[d]] \subseteq late'[d]
    BY <1>1 DEF Late
  <2>1. pc[d] = "wipe" /\ name[d] \in Names
    BY <1>1 DEF Named
  <2>2. stored[name[d]] \subseteq late[d]
    BY <2>1 DEF Late
  <2>3. CASE name[d] = name[c]
    BY <1>1, <2>1, <2>2, <2>3
  <2>4. CASE name[d] # name[c]
    BY <1>1, <2>1, <2>2, <2>4
  <2> QED BY <2>3, <2>4
<1> QED BY <1>2, <1>3, <1>4

(* Removals only make directories smaller.                                 *)
LEMMA RemoveKeeps ==
  ASSUME IInv, NEW c \in Callers,
         (\E keep \in Keeps : ListVersions(c, keep)) \/ Remove(c) \/ RemoveFails(c)
  PROVE  IInv'
<1> USE DEF IInv, TypeOK, Goto, diskVars, metricVars, ghostVars
<1>1. CASE \E keep \in Keeps : ListVersions(c, keep)
  <2> PICK keep \in Keeps : ListVersions(c, keep)
    BY <1>1
  <2>1. name[c] \in Names
    BY DEF ListVersions, Named
  <2>2. victims' \in [Callers -> SUBSET Versions]
    BY <2>1 DEF ListVersions
  <2>3. TypeOK'
    BY <2>2 DEF ListVersions
  <2>4. Named' /\ InRange' /\ Late'
    BY DEF ListVersions, Named, InRange, Late
  <2> QED BY <2>3, <2>4
<1>2. CASE Remove(c)
  <2> DEFINE v == Max(victims[c])
  <2>1. name[c] \in Names
    BY <1>2 DEF Remove, Named
  <2>2. /\ victims' = [victims EXCEPT ![c] = @ \ {v}]
        /\ stored' = [stored EXCEPT ![name[c]] = @ \ {v}]
        /\ \E to \in {"count", "remove"} : pc' = [pc EXCEPT ![c] = to]
        /\ pc[c] = "remove"
        /\ UNCHANGED <<dirs, packages, versions, name, left, counted, late,
                       shared, settled, calls>>
    BY <1>2 DEF Remove
  <2> HIDE DEF v
  <2>3. /\ stored' \in [Names -> SUBSET Versions]
        /\ \A n \in Names : stored'[n] \subseteq stored[n]
    BY <2>1, <2>2
  <2>4. TypeOK'
    BY <2>2, <2>3
  <2>5. Named' /\ InRange'
    BY <2>2 DEF Named, InRange
  <2>6. Late'
    BY <2>2, <2>3, <2>5 DEF Late, Named
  <2> QED BY <2>4, <2>5, <2>6
<1>3. CASE RemoveFails(c)
  <2>1. victims' \in [Callers -> SUBSET Versions]
    BY <1>3 DEF RemoveFails
  <2>2. TypeOK'
    BY <1>3, <2>1 DEF RemoveFails
  <2>3. Named' /\ InRange' /\ Late'
    BY <1>3 DEF RemoveFails, Named, InRange, Late
  <2> QED BY <2>2, <2>3
<1> QED BY <1>1, <1>2, <1>3

(* Counting changes nothing on disk.                                       *)
LEMMA CountKeeps ==
  ASSUME IInv, NEW c \in Callers,
         BeginCount(c) \/ (\E n \in left[c] : CountDir(c, n)) \/ StorePackages(c)
  PROVE  IInv'
<1> USE DEF IInv, TypeOK, Goto, diskVars, metricVars, callVars, ghostVars
<1>1. CASE BeginCount(c)
  <2>1. /\ left' \in [Callers -> SUBSET Names]
        /\ counted' \in [Callers -> Nat \X Nat]
        /\ counted' = [counted EXCEPT ![c] = <<Cardinality(dirs), 0>>]
    BY <1>1, Sizes DEF BeginCount
  <2>2. TypeOK'
    BY <1>1, <2>1 DEF BeginCount
  <2>3. InRange'
    BY <2>1, Sizes DEF InRange
  <2>4. Named' /\ Late'
    BY <1>1 DEF BeginCount, Named, Late
  <2> QED BY <2>2, <2>3, <2>4
<1>2. CASE \E n \in left[c] : CountDir(c, n)
  <2> PICK n \in left[c] : CountDir(c, n)
    BY <1>2
  <2>1. Cardinality(stored[n]) \in Nat
    BY Sizes
  <2>2. counted' = [counted EXCEPT ![c][2] = @ + Cardinality(stored[n])]
    BY DEF CountDir
  <2>3. /\ counted' \in [Callers -> Nat \X Nat]
        /\ \A d \in Callers : counted'[d][1] = counted[d][1]
    BY <2>1, <2>2
  <2>4. left' \in [Callers -> SUBSET Names]
    BY DEF CountDir
  <2>5. TypeOK'
    BY <2>3, <2>4 DEF CountDir
  <2>6. InRange'
    BY <2>3 DEF InRange
  <2>7. Named' /\ Late'
    BY DEF CountDir, Named, Late
  <2> QED BY <2>5, <2>6, <2>7
<1>3. CASE StorePackages(c)
  <2>1. packages' \in 0..Cardinality(Names)
    BY <1>3, Sizes DEF StorePackages, InRange
  <2>2. TypeOK'
    BY <1>3, <2>1 DEF StorePackages
  <2>3. Named' /\ InRange' /\ Late'
    BY <1>3 DEF StorePackages, Named, InRange, Late
  <2> QED BY <2>2, <2>3
<1> QED BY <1>1, <1>2, <1>3

(* The metrics are stored, and the call ends or removes the next version.  *)
LEMMA StoreKeeps ==
  ASSUME IInv, NEW c \in Callers, StoreVersions(c)
  PROVE  IInv'
<1> USE DEF IInv, TypeOK
<1>1. versions' \in Nat /\ packages' \in 0..Cardinality(Names) /\ UNCHANGED diskVars
  BY DEF StoreVersions
<1>2. CASE victims[c] = {}
  BY <1>1, <1>2, EndKeeps DEF StoreVersions
<1>3. CASE victims[c] # {}
  <2>1. /\ pc[c] = "stored" /\ pc' = [pc EXCEPT ![c] = "remove"]
        /\ UNCHANGED <<callVars, ghostVars, diskVars>>
    BY <1>3 DEF StoreVersions, Goto
  <2> USE DEF callVars, ghostVars, diskVars
  <2>2. TypeOK'
    BY <1>1, <2>1
  <2>3. Named' /\ InRange' /\ Late'
    BY <2>1 DEF Named, InRange, Late
  <2> QED BY <2>2, <2>3
<1> QED BY <1>2, <1>3

(* Cleanup takes a directory for empty only when it is.                    *)
LEMMA CleanKeeps ==
  ASSUME IInv, NEW c \in Callers,
         \/ BeginCleanup(c) \/ RemoveAll(c) \/ RemoveAllFails(c)
         \/ \E n \in left[c] : LookInto(c, n)
  PROVE  IInv'
<1> USE DEF IInv, TypeOK, Goto, diskVars, metricVars, ghostVars
<1>1. CASE BeginCleanup(c)
  <2>1. TypeOK'
    BY <1>1 DEF BeginCleanup
  <2>2. Named' /\ InRange' /\ Late'
    BY <1>1 DEF BeginCleanup, Named, InRange, Late
  <2> QED BY <2>1, <2>2
<1>2. CASE RemoveAll(c)
  <2>1. name[c] \in Names
    BY <1>2 DEF RemoveAll, Named
  <2>2. /\ stored' \in [Names -> SUBSET Versions]
        /\ \A n \in Names : stored'[n] \subseteq stored[n]
        /\ \A n \in Names \ dirs' : stored'[n] = {}
    BY <1>2, <2>1 DEF RemoveAll
  <2>3. TypeOK'
    BY <1>2, <2>2 DEF RemoveAll
  <2>4. Named' /\ InRange'
    BY <1>2 DEF RemoveAll, Named, InRange
  <2>5. Late'
    BY <1>2, <2>2 DEF RemoveAll, Late, Named
  <2> QED BY <2>3, <2>4, <2>5
<1>3. CASE RemoveAllFails(c)
  <2>1. TypeOK'
    BY <1>3 DEF RemoveAllFails
  <2>2. Named' /\ InRange' /\ Late'
    BY <1>3 DEF RemoveAllFails, Named, InRange, Late
  <2> QED BY <2>1, <2>2
<1>4. CASE \E n \in left[c] : LookInto(c, n)
  <2> PICK n \in left[c] : LookInto(c, n)
    BY <1>4
  <2>1. TypeOK'
    BY DEF LookInto
  <2>2. CASE n \in dirs /\ stored[n] = {}
    <3>1. pc' = [pc EXCEPT ![c] = "wipe"] /\ name' = [name EXCEPT ![c] = n]
          /\ UNCHANGED <<stored, counted, late>>
      BY <2>2 DEF LookInto, IsEmpty
    <3> QED BY <2>1, <2>2, <3>1 DEF Named, InRange, Late
  <2>3. CASE ~(n \in dirs /\ stored[n] = {})
    <3>1. pc' = [pc EXCEPT ![c] = "look"] /\ name' = name
          /\ UNCHANGED <<stored, counted, late>>
      BY <2>3 DEF LookInto, IsEmpty
    <3> QED BY <2>1, <3>1 DEF Named, InRange, Late
  <2> QED BY <2>2, <2>3
<1> QED BY <1>1, <1>2, <1>3, <1>4

(* The invariant is inductive.                                             *)
LEMMA NextIInv == IInv /\ [Next]_vars => IInv'
<1> SUFFICES ASSUME IInv, [Next]_vars PROVE IInv'
  OBVIOUS
<1>1. CASE UNCHANGED vars
  BY <1>1 DEF IInv, TypeOK, Named, InRange, Late, vars, diskVars, metricVars,
              callVars, ghostVars
<1>2. ASSUME NEW c \in Callers, MoveFails(c) \/ NoVictimLeft(c) \/ EndCleanup(c)
      PROVE  IInv'
  <2>1. End(c, settled) /\ UNCHANGED <<diskVars, metricVars>>
    BY <1>2 DEF MoveFails, NoVictimLeft, EndCleanup
  <2> QED BY <2>1, EndKeeps DEF IInv, TypeOK, metricVars
<1>3. ASSUME NEW c \in Callers,
             \/ Add(c) \/ PutRepoFile(c)
             \/ RemoveVersion(c) \/ RetainMostRecent(c) \/ Cleanup(c)
      PROVE  IInv'
  <2>1. PICK location \in {"make", "remove", "list", "clean"},
             n \in Names \cup {NoName}, vs \in SUBSET Versions :
          /\ n \in Names \/ location = "clean"
          /\ Begin(c, location, n, vs)
    BY <1>3 DEF Add, PutRepoFile, RemoveVersion, RetainMostRecent, Cleanup
  <2> QED BY <2>1, BeginKeeps
<1> QED BY <1>1, <1>2, <1>3, AddKeeps, MoveKeeps, RemoveKeeps, CountKeeps,
           StoreKeeps, CleanKeeps
        DEF Next, Adding, Removing, Counting, Cleaning

(* The inductive invariant.                                                *)
THEOREM Invariant == Spec => []IInv
BY InitIInv, NextIInv, PTL DEF Spec

(* Every variable keeps its type; a file lies only in a directory that     *)
(* exists.                                                                 *)
THEOREM TypeCorrect == Spec => []TypeOK
BY Invariant, PTL DEF IInv

-----------------------------------------------------------------------------
(* Two steps make a version disappear, and both may.                       *)
LEMMA NextLoses ==
  ASSUME IInv, [Next]_vars, NEW n \in Names, NEW v \in Versions,
         v \in stored[n], v \notin stored'[n]
  PROVE  \E c \in Callers : /\ name[c] = n
                            /\ \/ pc[c] = "remove" /\ v \in victims[c]
                               \/ pc[c] = "wipe" /\ v \in late[c]
<1> USE DEF IInv, TypeOK
<1>1. PICK c \in Callers : Remove(c) \/ RemoveAll(c) \/ Move(c)
  <2>1. stored' # stored
    OBVIOUS
  <2>2. PICK c \in Callers : Adding(c) \/ Removing(c) \/ Counting(c) \/ Cleaning(c)
    BY <2>1, Zenon DEF Next, vars, diskVars
  <2>3. CASE Adding(c)
    BY <2>1, <2>3, Zenon DEF Adding, Add, PutRepoFile, Begin, MakeDir, NothingToMove,
                             MoveFails, End, diskVars
  <2>4. CASE Removing(c)
    BY <2>1, <2>4, Zenon DEF Removing, RemoveVersion, RetainMostRecent, Begin,
                             ListVersions, RemoveFails, NoVictimLeft, diskVars
  <2>5. CASE Counting(c)
    BY <2>1, <2>5, Zenon DEF Counting, BeginCount, CountDir, StorePackages,
                             StoreVersions, diskVars
  <2>6. CASE Cleaning(c)
    BY <2>1, <2>6, Zenon DEF Cleaning, Cleanup, Begin, BeginCleanup, LookInto,
                             RemoveAllFails, EndCleanup, diskVars
  <2> QED BY <2>2, <2>3, <2>4, <2>5, <2>6
<1>2. CASE Move(c)
  BY <1>2 DEF Move
<1>3. CASE Remove(c)
  <2>1. Max(victims[c]) \in victims[c]
    BY <1>3, MaxExists DEF Remove
  <2>2. name[c] = n /\ v = Max(victims[c]) /\ pc[c] = "remove"
    BY <1>3 DEF Remove
  <2> QED BY <2>1, <2>2
<1>4. CASE RemoveAll(c)
  <2>1. name[c] = n /\ pc[c] = "wipe"
    BY <1>4 DEF RemoveAll
  <2>2. v \in late[c]
    BY <2>1 DEF Late
  <2> QED BY <2>1, <2>2
<1> QED BY <1>1, <1>2, <1>3, <1>4

(* A stored version disappears only by a call that names it, or by a       *)
(* Cleanup that had looked into the directory before the version came.     *)
THEOREM NothingLostHolds == Spec => NothingLost
<1>1. IInv /\ [Next]_vars =>
        [\A n \in Names, v \in Versions :
           v \in stored[n] /\ v \notin stored'[n] =>
             \E c \in Callers :
               /\ name[c] = n
               /\ \/ pc[c] = "remove" /\ v \in victims[c]
                  \/ pc[c] = "wipe" /\ v \in late[c]]_vars
  BY NextLoses
<1> QED BY <1>1, Invariant, PTL DEF Spec, NothingLost

-----------------------------------------------------------------------------
(* The files in some of the directories.                                   *)
Files(D) == UNION {Stored(n) : n \in D}

LEMMA FilesFinite ==
  ASSUME TypeOK, NEW D \in SUBSET Names
  PROVE  IsFiniteSet(Files(D))
<1>1. IsFiniteSet(Names \X Versions)
  BY FS_Product
<1>2. Files(D) \subseteq Names \X Versions
  BY DEF Files, Stored, TypeOK
<1> QED BY <1>1, <1>2, FS_Subset

LEMMA StoredSize ==
  ASSUME TypeOK, NEW n \in Names
  PROVE  IsFiniteSet(Stored(n)) /\ Cardinality(Stored(n)) = Cardinality(stored[n])
<1> DEFINE f == [v \in stored[n] |-> <<n, v>>]
<1>1. f \in Bijection(stored[n], Stored(n))
  BY DEF Stored, Bijection, Injection, Surjection, IsInjective
<1>2. IsFiniteSet(stored[n])
  BY FS_Subset DEF TypeOK
<1> QED BY <1>1, <1>2, FS_Bijection DEF ExistsBijection

(* Reading one more directory adds its files to those read before.         *)
LEMMA OneMore ==
  ASSUME TypeOK, NEW D \in SUBSET Names, NEW n \in D
  PROVE  Cardinality(Files(Names \ (D \ {n}))) =
           Cardinality(Files(Names \ D)) + Cardinality(stored[n])
<1>1. Files(Names \ (D \ {n})) = Files(Names \ D) \cup Stored(n)
  <2>1. Names \ (D \ {n}) = (Names \ D) \cup {n}
    OBVIOUS
  <2> QED BY <2>1 DEF Files
<1>2. Files(Names \ D) \cap Stored(n) = {}
  BY DEF Files, Stored
<1>3. IsFiniteSet(Files(Names \ D))
  BY FilesFinite
<1>4. IsFiniteSet(Stored(n)) /\ Cardinality(Stored(n)) = Cardinality(stored[n])
  BY StoredSize
<1>5. Cardinality(Files(Names \ D)) \in Nat /\ Cardinality(Stored(n)) \in Nat
  BY <1>3, <1>4, FS_CardinalityType
<1>6. Cardinality(Files(Names \ D) \cup Stored(n)) =
        Cardinality(Files(Names \ D)) + Cardinality(Stored(n))
  <2> HIDE DEF Files, Stored
  <2>1. Cardinality(Files(Names \ D) \cap Stored(n)) = 0
    BY <1>2, FS_EmptySet
  <2>2. Cardinality(Files(Names \ D) \cup Stored(n)) =
          Cardinality(Files(Names \ D)) + Cardinality(Stored(n))
            - Cardinality(Files(Names \ D) \cap Stored(n))
    BY <1>3, <1>4, FS_Union
  <2> QED BY <1>5, <2>1, <2>2
<1> QED BY <1>1, <1>4, <1>6

-----------------------------------------------------------------------------
(* Of two calls that are running, both are known to be shared.             *)
Alone ==
  \A c, d \in Callers : c # d /\ ~Idle(c) /\ ~Idle(d) => shared[c] /\ shared[d]

CountingNow(c) == pc[c] \in {"count", "store", "stored"}

(* A call alone has counted the files of the directories it has read...    *)
Counts(c) ==
  ~shared[c] /\ pc[c] \in {"store", "stored"} =>
    /\ counted[c][2] = Cardinality(Files(Names \ left[c]))
    /\ pc[c] = "stored" => left[c] = {}

(* ... and wipes only directories that are empty.                          *)
Quiet(c) == ~shared[c] /\ pc[c] = "wipe" => stored[name[c]] = {}

(* The metric is right before a call alone counts again.                   *)
Trusted ==
  settled /\ (\A c \in Callers : Idle(c) \/ (~shared[c] /\ ~CountingNow(c)))
    => versions = Cardinality(Files(Names))

SInv == Alone /\ (\A c \in Callers : Counts(c) /\ Quiet(c)) /\ Trusted

(* A call that begins overlaps with every call that is running.            *)
LEMMA BeginSettles ==
  ASSUME IInv, SInv, NEW c \in Callers,
         NEW location \in {"make", "remove", "list", "clean"},
         NEW n \in Names \cup {NoName}, NEW vs \in SUBSET Versions,
         Begin(c, location, n, vs)
  PROVE  SInv'
<1> USE DEF IInv, TypeOK
<1>1. /\ Idle(c) /\ pc' = [pc EXCEPT ![c] = location]
      /\ UNCHANGED <<stored, versions, left, counted, settled>>
      /\ \A d \in Callers : d # c => name'[d] = name[d]
      /\ shared' \in [Callers -> BOOLEAN]
      /\ shared'[c] = \E e \in Callers : ~Idle(e)
      /\ \A d \in Callers : d # c => shared'[d] = (shared[d] \/ ~Idle(d))
  BY DEF Begin, Goto, diskVars, metricVars
<1>2. \A d \in Callers : d # c => (Idle(d)' <=> Idle(d))
  BY <1>1 DEF Idle
<1>3. Alone'
  BY <1>1, <1>2 DEF SInv, Alone
<1>4. ASSUME NEW d \in Callers
      PROVE  Counts(d)' /\ Quiet(d)'
  <2>1. CASE d = c
    BY <1>1, <2>1 DEF Counts, Quiet
  <2>2. CASE d # c /\ Idle(d)
    BY <1>1, <2>2 DEF Counts, Quiet, Idle
  <2>3. CASE d # c /\ ~Idle(d)
    BY <1>1, <2>3 DEF Counts, Quiet
  <2> QED BY <2>1, <2>2, <2>3
<1>5. Trusted'
  <2> SUFFICES ASSUME settled, ~shared'[c]
               PROVE  versions = Cardinality(Files(Names))
    BY <1>1 DEF Trusted, Idle, Files, Stored
  <2>1. \A d \in Callers : Idle(d)
    BY <1>1
  <2> QED BY <2>1 DEF SInv, Trusted
<1> QED BY <1>3, <1>4, <1>5 DEF SInv

(* What a step of a running call has to show: only its own claims matter,  *)
(* since the other calls that are running, if any, are shared.             *)
LEMMA StepSettles ==
  ASSUME IInv, IInv', SInv, NEW c \in Callers, ~Idle(c),
         \A d \in Callers : d # c => pc'[d] = pc[d] /\ shared'[d] = shared[d],
         Idle(c)' \/ shared'[c] = shared[c],
         Counts(c)', Quiet(c)',
         settled' => settled \/ ~shared[c],
         Idle(c)' /\ shared[c] => ~settled',
         \/ shared[c]
         \/ ~Idle(c)' /\ CountingNow(c)'
         \/ versions' = Cardinality(Files(Names))'
         \/ /\ ~CountingNow(c) /\ (settled' => settled)
            /\ versions' = versions /\ Files(Names)' = Files(Names)
  PROVE  SInv'
<1> USE DEF IInv, TypeOK
<1>1. \A d \in Callers : d # c => (Idle(d)' <=> Idle(d))
  BY DEF Idle
<1>2. Alone'
  BY <1>1 DEF SInv, Alone
<1>3. ASSUME NEW d \in Callers, d # c
      PROVE  Counts(d)' /\ Quiet(d)'
  <2>1. CASE Idle(d)
    BY <1>3, <2>1 DEF Counts, Quiet, Idle
  <2>2. CASE ~Idle(d)
    <3>1. shared'[d]
      BY <1>3, <2>2 DEF SInv, Alone
    <3> QED BY <3>1 DEF Counts, Quiet
  <2> QED BY <2>1, <2>2
<1>4. Trusted'
  <2> SUFFICES ASSUME settled',
                      \A d \in Callers : Idle(d)' \/ (~shared'[d] /\ ~CountingNow(d)')
               PROVE  versions' = Cardinality(Files(Names))'
    BY DEF Trusted
  <2>1. ~shared[c]
    OBVIOUS
  <2>2. CASE ~Idle(c)' /\ CountingNow(c)'
    BY <2>2
  <2>3. CASE /\ ~CountingNow(c) /\ settled
             /\ versions' = versions /\ Files(Names)' = Files(Names)
    <3>1. \A d \in Callers : Idle(d) \/ (~shared[d] /\ ~CountingNow(d))
      BY <1>1, <2>1, <2>3 DEF CountingNow
    <3> QED BY <2>3, <3>1 DEF SInv, Trusted
  <2> QED BY <2>1, <2>2, <2>3
<1> QED BY <1>2, <1>3, <1>4 DEF SInv

(* A call that returns without having counted again.                       *)
LEMMA EndSettles ==
  ASSUME IInv, IInv', SInv, NEW c \in Callers, ~Idle(c), ~CountingNow(c),
         End(c, settled), UNCHANGED <<diskVars, metricVars>>
  PROVE  SInv'
<1>1. /\ \A d \in Callers : d # c => pc'[d] = pc[d] /\ shared'[d] = shared[d]
      /\ pc'[c] = "idle" /\ settled' = (~shared[c] /\ settled)
      /\ stored' = stored /\ versions' = versions
  BY DEF IInv, TypeOK, End, Goto, diskVars, metricVars
<1>2. Idle(c)' /\ Counts(c)' /\ Quiet(c)' /\ Files(Names)' = Files(Names)
  BY <1>1 DEF Idle, Counts, Quiet, Files, Stored
<1> QED BY <1>1, <1>2, StepSettles

(* Steps before and after a count that change no file if the call is alone. *)
LEMMA OtherSettles ==
  ASSUME IInv, IInv', SInv, NEW c \in Callers,
         \/ MakeDir(c) \/ (\E keep \in Keeps : ListVersions(c, keep))
         \/ RemoveFails(c) \/ BeginCleanup(c) \/ RemoveAllFails(c)
         \/ \E n \in left[c] : LookInto(c, n)
  PROVE  SInv'
<1>1. /\ \A d \in Callers : d # c => pc'[d] = pc[d] /\ shared'[d] = shared[d]
      /\ shared' = shared /\ settled' = settled
      /\ stored' = stored /\ versions' = versions
      /\ pc[c] \notin {"idle", "count", "store", "stored"}
      /\ pc'[c] \notin {"idle", "count", "store", "stored"}
  BY DEF IInv, TypeOK, Goto, MakeDir, ListVersions, RemoveFails, BeginCleanup,
         RemoveAllFails, LookInto, diskVars, metricVars, ghostVars
<1>2. Quiet(c)'
  <2>1. pc'[c] = "wipe" => stored[name'[c]] = {}
    BY DEF IInv, TypeOK, Goto, MakeDir, ListVersions, RemoveFails,
           BeginCleanup, RemoveAllFails, LookInto, IsEmpty
  <2> QED BY <1>1, <2>1 DEF Quiet
<1>3. /\ ~Idle(c) /\ ~Idle(c)' /\ ~CountingNow(c) /\ Counts(c)'
      /\ Files(Names)' = Files(Names)
  BY <1>1 DEF Idle, CountingNow, Counts, Files, Stored
<1> QED BY <1>1, <1>2, <1>3, StepSettles

(* Files change before a count, or not at all.                             *)
LEMMA ChangeSettles ==
  ASSUME IInv, IInv', SInv, NEW c \in Callers,
         Move(c) \/ NothingToMove(c) \/ Remove(c) \/ RemoveAll(c)
  PROVE  SInv'
<1>1. /\ \A d \in Callers : d # c => pc'[d] = pc[d] /\ shared'[d] = shared[d]
      /\ shared' = shared /\ settled' = settled /\ versions' = versions
      /\ pc[c] \notin {"idle", "count", "store", "stored"}
      /\ pc'[c] \notin {"idle", "store", "stored", "wipe"}
  BY DEF IInv, TypeOK, Goto, Move, NothingToMove, Remove, RemoveAll, metricVars,
         ghostVars
<1>2. shared[c] \/ pc'[c] = "count" \/ stored' = stored
  <2>1. CASE Move(c) \/ NothingToMove(c)
    BY <2>1 DEF IInv, TypeOK, Goto, Move, NothingToMove
  <2>2. CASE Remove(c)
    <3> DEFINE v == Max(victims[c])
    <3>1. /\ stored' = [stored EXCEPT ![name[c]] = @ \ {v}]
          /\ v \in stored[name[c]] => pc'[c] = "count"
      BY <2>2 DEF IInv, TypeOK, Goto, Remove
    <3> HIDE DEF v
    <3> QED BY <3>1 DEF IInv, TypeOK
  <2>3. CASE RemoveAll(c)
    <3>1. ~shared[c] => stored[name[c]] = {}
      BY <2>3 DEF RemoveAll, SInv, Quiet
    <3> QED BY <2>3, <3>1 DEF RemoveAll, IInv, TypeOK
  <2> QED BY <2>1, <2>2, <2>3
<1>3. /\ ~Idle(c) /\ ~Idle(c)' /\ ~CountingNow(c) /\ Counts(c)' /\ Quiet(c)'
      /\ pc'[c] = "count" => CountingNow(c)'
      /\ stored' = stored => Files(Names)' = Files(Names)
  BY <1>1 DEF Idle, CountingNow, Counts, Quiet, Files, Stored
<1> QED BY <1>1, <1>2, <1>3, StepSettles

(* A call that is alone counts what there is.                              *)
LEMMA CountSettles ==
  ASSUME IInv, IInv', SInv, NEW c \in Callers,
         BeginCount(c) \/ (\E n \in left[c] : CountDir(c, n)) \/ StorePackages(c)
  PROVE  SInv'
<1>1. /\ \A d \in Callers : d # c => pc'[d] = pc[d]
      /\ shared' = shared /\ settled' = settled /\ stored' = stored
      /\ pc[c] \in {"count", "store"} /\ pc'[c] \in {"store", "stored"}
  BY DEF IInv, TypeOK, Goto, BeginCount, CountDir, StorePackages, diskVars,
         ghostVars
<1>2. Counts(c)'
  <2>1. CASE BeginCount(c)
    <3>1. /\ pc'[c] = "store" /\ left'[c] = dirs /\ counted'[c][2] = 0
      BY <2>1 DEF IInv, TypeOK, Goto, BeginCount
    <3>2. Files(Names \ dirs)' = {}
      BY <1>1, <2>1 DEF BeginCount, diskVars, Files, Stored, IInv, TypeOK
    <3>3. Cardinality(Files(Names \ left[c])') = 0
      BY <2>1, <3>1, <3>2, FS_EmptySet DEF BeginCount, diskVars
    <3> QED BY <3>1, <3>3 DEF Counts
  <2>2. CASE \E n \in left[c] : CountDir(c, n)
    <3> PICK n \in left[c] : CountDir(c, n)
      BY <2>2
    <3>1. /\ pc'[c] = "store" /\ pc[c] = "store"
          /\ left'[c] = left[c] \ {n} /\ left[c] \in SUBSET Names
          /\ counted'[c][2] = counted[c][2] + Cardinality(stored[n])
      BY DEF IInv, TypeOK, CountDir
    <3>2. Cardinality(Files(Names \ (left[c] \ {n}))) =
            Cardinality(Files(Names \ left[c])) + Cardinality(stored[n])
      BY <3>1, OneMore DEF IInv
    <3>3. Files(Names \ left[c])' = Files(Names \ (left[c] \ {n}))
      BY <1>1, <3>1 DEF Files, Stored
    <3> QED BY <1>1, <3>1, <3>2, <3>3 DEF SInv, Counts
  <2>3. CASE StorePackages(c)
    <3>1. pc[c] = "store" /\ left[c] = {} /\ left' = left /\ counted' = counted
      BY <2>3 DEF StorePackages, callVars
    <3>2. Files(Names \ left[c])' = Files(Names \ left[c])
      BY <1>1, <3>1 DEF Files, Stored
    <3> QED BY <1>1, <3>1, <3>2 DEF SInv, Counts
  <2> QED BY <2>1, <2>2, <2>3
<1>3. ~Idle(c) /\ ~Idle(c)' /\ CountingNow(c)' /\ Quiet(c)'
  BY <1>1 DEF Idle, CountingNow, Quiet
<1> QED BY <1>1, <1>2, <1>3, StepSettles

LEMMA StoreSettles ==
  ASSUME IInv, IInv', SInv, NEW c \in Callers, StoreVersions(c)
  PROVE  SInv'
<1>1. /\ pc[c] = "stored" /\ pc'[c] \in {"idle", "remove"}
      /\ \A d \in Callers : d # c => pc'[d] = pc[d] /\ shared'[d] = shared[d]
      /\ versions' = counted[c][2] /\ stored' = stored
      /\ \/ pc'[c] = "idle" /\ (settled' <=> ~shared[c])
         \/ /\ pc'[c] = "remove" /\ (settled' <=> settled)
            /\ shared'[c] = shared[c]
  BY DEF IInv, TypeOK, StoreVersions, End, Goto, diskVars, callVars, ghostVars
<1>2. shared[c] \/ versions' = Cardinality(Files(Names))'
  <2>1. ~shared[c] => left[c] = {} /\ versions' = Cardinality(Files(Names \ left[c]))
    BY <1>1 DEF SInv, Counts
  <2>2. Names \ {} = Names /\ Files(Names)' = Files(Names)
    BY <1>1 DEF Files, Stored
  <2> QED BY <2>1, <2>2
<1>3. ~Idle(c) /\ Counts(c)' /\ Quiet(c)'
  BY <1>1 DEF Idle, Counts, Quiet
<1>4. /\ Idle(c)' \/ shared'[c] = shared[c]
      /\ settled' => settled \/ ~shared[c]
      /\ Idle(c)' /\ shared[c] => ~settled'
  BY <1>1 DEF Idle
<1> QED BY <1>1, <1>2, <1>3, <1>4, StepSettles

LEMMA NextSettles == IInv /\ IInv' /\ SInv /\ [Next]_vars => SInv'
<1> SUFFICES ASSUME IInv, IInv', SInv, [Next]_vars PROVE SInv'
  OBVIOUS
<1>1. CASE UNCHANGED vars
  BY <1>1, SMTT(20)
     DEF SInv, Alone, Idle, CountingNow, Counts, Quiet, Trusted, Files,
         Stored, vars, diskVars, metricVars, callVars, ghostVars
<1>2. ASSUME NEW c \in Callers, MoveFails(c) \/ NoVictimLeft(c) \/ EndCleanup(c)
      PROVE  SInv'
  <2>1. End(c, settled) /\ UNCHANGED <<diskVars, metricVars>>
    BY <1>2 DEF MoveFails, NoVictimLeft, EndCleanup
  <2>2. ~Idle(c) /\ ~CountingNow(c)
    BY <1>2 DEF MoveFails, NoVictimLeft, EndCleanup, Idle, CountingNow
  <2> QED BY <2>1, <2>2, EndSettles
<1>3. ASSUME NEW c \in Callers,
             \/ Add(c) \/ PutRepoFile(c)
             \/ RemoveVersion(c) \/ RetainMostRecent(c) \/ Cleanup(c)
      PROVE  SInv'
  <2>1. PICK location \in {"make", "remove", "list", "clean"},
             n \in Names \cup {NoName}, vs \in SUBSET Versions :
          Begin(c, location, n, vs)
    BY <1>3 DEF Add, PutRepoFile, RemoveVersion, RetainMostRecent, Cleanup
  <2> QED BY <2>1, BeginSettles
<1> QED BY <1>1, <1>2, <1>3, OtherSettles, ChangeSettles, CountSettles, StoreSettles
        DEF Next, Adding, Removing, Counting, Cleaning

(* When no call is running, VersionsInCache is the number of files if the  *)
(* last call that counted, and all since, were alone.                      *)
THEOREM StatsSettleHolds == Spec => []StatsSettle
<1>1. Init => SInv
  BY DEF Init, SInv, Alone, Idle, Counts, Quiet, Trusted
<1>2. SInv => StatsSettle
  BY DEF SInv, Trusted, StatsSettle, Files
<1> QED BY <1>1, <1>2, NextSettles, Invariant, PTL DEF Spec

=============================================================================
