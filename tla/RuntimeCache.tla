---------------------------- MODULE RuntimeCache ----------------------------
(***************************************************************************)
(* The shared cache of runtime objects (src/runtime_cache.rs,              *)
(* runtime_cache/storage.rs, runtime_cache/identity.rs).  Compilers that   *)
(* run at the same time look an object up, or build and publish it, take a *)
(* hardlink snapshot of it (a lease), prune the cache to its bound, collect*)
(* what dead compilers left, and link against their snapshot.  Nothing     *)
(* coordinates them but the file system, one call of which is one step.    *)
(*                                                                         *)
(* A compiler has one lease at a time, so a lease is named by its owner.   *)
(* Names are never used twice: a collector that still holds the marker of  *)
(* an earlier lease can do no more harm and forgets it (Mark).             *)
(***************************************************************************)
EXTENDS Naturals, SequencesExt

CONSTANTS Compilers, Keys, Nobody,
          MaxObjects,    \* MAX_RUNTIME_CACHE_OBJECTS (8 in the code)
          LeaseTries,    \* attempts of lease_runtime_object (4 in the code)
          MaxCrashes     \* bound: compilers that are killed

ASSUME CacheAssumption ==
    /\ Nobody \notin Compilers \cup Keys /\ Compilers \cap Keys = {}
    /\ IsFiniteSet(Keys)
    /\ MaxObjects \in Nat \ {0}
    /\ LeaseTries \in Nat \ {0}
    /\ MaxCrashes \in Nat

VARIABLES
    pc, key,         \* what each compiler does, and the object it needs
    built, tries,    \* it built the object itself; attempts at a lease
    todo, at,        \* the markers still to look at, and the one in hand
    victims, gone,   \* the objects still to prune, in order; the one just removed
    object, digest,  \* the published objects and their .integrity files
    byAge,           \* the .o files, oldest first: an object's key, or the
                     \* compiler whose temporary it is
    temp,            \* compilers with any temporary of theirs in the directory
    marker,          \* compilers whose .lock file is in the directory
    shared, probed,  \* its lock: held by the owner; the collectors that hold it
    snapshot, seal,  \* the hardlinks of a lease: object and integrity
    crashes

procVars  == <<pc, key, built, tries, todo, at, victims, gone>>
cacheVars == <<object, digest, byAge>>
leaseVars == <<marker, shared, probed, snapshot, seal>>
vars      == <<procVars, cacheVars, leaseVars, temp, crashes>>

\* The object's checksum is its integrity file's.
Intact(o, d) == o = "good" /\ d = "good"

\* The compiler has its object: a prepared one that it was, or will be, given.
Leased == {"clean", "collect", "unlock", "unmark", "sweep", "list", "prune", "unseal", "link"}

TypeOK ==
    /\ pc \in [Compilers -> Leased \cup
                  {"idle", "lookup", "build", "rename", "read", "publish", "mark", "lock",
                   "visible", "linkObject", "linkDigest", "verify", "drop", "failed", "dead"}]
    /\ key \in [Compilers -> Keys]
    /\ built \in [Compilers -> BOOLEAN]
    /\ tries \in [Compilers -> 0 .. LeaseTries]
    /\ todo \in [Compilers -> SUBSET Compilers]
    /\ at \in [Compilers -> Compilers \cup {Nobody}]
    /\ victims \in [Compilers -> Seq(Keys)]
    /\ gone \in [Compilers -> Keys \cup {Nobody}]
    /\ object \in [Keys -> {"none", "good", "bad"}]
    /\ digest \in [Keys -> {"none", "good"}]
    /\ byAge \in Seq(Keys \cup Compilers) /\ IsInjective(byAge)
    /\ temp \subseteq Compilers /\ marker \subseteq Compilers /\ shared \subseteq Compilers
    /\ probed \in [Compilers -> SUBSET Compilers]
    /\ snapshot \in [Compilers -> {"none", "good", "bad"}]
    /\ seal \in [Compilers -> {"none", "good"}]
    /\ crashes \in 0 .. MaxCrashes

Objects == {k \in Keys : object[k] # "none"}

\* A cache within its bound; some of it damaged, or published by a compiler
\* that died before it wrote the integrity file.
Init ==
    /\ pc = [c \in Compilers |-> "idle"]
    /\ key \in [Compilers -> Keys]
    /\ built = [c \in Compilers |-> FALSE]
    /\ tries = [c \in Compilers |-> 0]
    /\ todo = [c \in Compilers |-> {}] /\ at = [c \in Compilers |-> Nobody]
    /\ victims = [c \in Compilers |-> << >>] /\ gone = [c \in Compilers |-> Nobody]
    /\ object \in [Keys -> {"none", "good", "bad"}]
    /\ digest \in [Keys -> {"none", "good"}]
    /\ \A k \in Keys : object[k] = "none" => digest[k] = "none"
    /\ Cardinality(Objects) <= MaxObjects
    /\ byAge \in SetToSeqs(Objects)
    /\ temp = {} /\ marker = {} /\ shared = {}
    /\ probed = [c \in Compilers |-> {}]
    /\ snapshot = [c \in Compilers |-> "none"] /\ seal = [c \in Compilers |-> "none"]
    /\ crashes = 0

Goes(c, from, to) == pc[c] = from /\ pc' = [pc EXCEPT ![c] = to]

-----------------------------------------------------------------------------
(***************************************************************************)
(* prepare_runtime_object_with_mode.                                       *)
(***************************************************************************)
Start(c) ==
    /\ \/ Goes(c, "idle", "lookup")
       \/ Goes(c, "failed", "lookup")
    /\ \E k \in Keys : key' = [key EXCEPT ![c] = k]
    /\ built' = [built EXCEPT ![c] = FALSE]
    /\ tries' = [tries EXCEPT ![c] = 0]
    /\ UNCHANGED <<todo, at, victims, gone, cacheVars, leaseVars, temp, crashes>>

Lookup(c) ==
    /\ IF Intact(object[key[c]], digest[key[c]])
          THEN Goes(c, "lookup", "mark") ELSE Goes(c, "lookup", "build")
    /\ UNCHANGED <<key, built, tries, todo, at, victims, gone, cacheVars, leaseVars, temp, crashes>>

\* The assembler writes the temporary object.
Build(c) ==
    /\ Goes(c, "build", "rename")
    /\ built' = [built EXCEPT ![c] = TRUE]
    /\ temp' = temp \cup {c}
    /\ byAge' = Append(byAge, c)
    /\ UNCHANGED <<key, tries, todo, at, victims, gone, object, digest, leaseVars, crashes>>

\* The members of S in q, in their order there.
Among(q, S) ==
    LET here   == {i \in DOMAIN q : q[i] \in S}
        Nth(n) == CHOOSE i \in here : Cardinality({j \in here : j <= i}) = n
    IN  [n \in 1 .. Cardinality(here) |-> q[Nth(n)]]

\* A file keeps its age when it is renamed over another.
Files      == Keys \cup Compilers
Without(f) == Among(byAge, Files \ {f})

Rename(c) ==
    /\ Goes(c, "rename", "read")
    /\ object' = [object EXCEPT ![key[c]] = "good"]
    /\ byAge' = ReplaceAll(Without(key[c]), c, key[c])
    /\ temp' = temp \ {c}
    /\ UNCHANGED <<key, built, tries, todo, at, victims, gone, digest, leaseVars, crashes>>

\* write_runtime_object_integrity reads the object back under its published
\* name, which may be gone, and writes the checksum to a temporary.
ReadBack(c) ==
    /\ IF object[key[c]] = "none"
          THEN Goes(c, "read", "failed") /\ UNCHANGED temp
          ELSE Goes(c, "read", "publish") /\ temp' = temp \cup {c}
    /\ UNCHANGED <<key, built, tries, todo, at, victims, gone, cacheVars, leaseVars, crashes>>

\* Mutant: the temporary is not renamed into place.
MutSealed(c) == digest[key[c]]
Sealed(c) == "good"

Publish(c) ==
    /\ Goes(c, "publish", "mark")
    /\ digest' = [digest EXCEPT ![key[c]] = Sealed(c)]
    /\ temp' = temp \ {c}
    /\ tries' = [tries EXCEPT ![c] = 0]
    /\ UNCHANGED <<key, built, todo, at, victims, gone, object, byAge, leaseVars, crashes>>

-----------------------------------------------------------------------------
(***************************************************************************)
(* lease_runtime_object.                                                   *)
(***************************************************************************)
Another(c) == tries[c] < LeaseTries

\* A marker with a new name.  Whoever holds the last one holds a dead name.
Mark(c) ==
    /\ pc[c] = "mark"
    /\ Another(c)
    /\ marker' = marker \cup {c}
    /\ tries' = [tries EXCEPT ![c] = @ + 1]
    /\ probed' = [probed EXCEPT ![c] = {}]
    /\ todo' = [d \in Compilers |-> todo[d] \ {c}]
    /\ at' = [d \in Compilers |-> IF at[d] = c THEN Nobody ELSE at[d]]
    /\ pc' = [d \in Compilers |-> CASE d = c -> "lock"
                                    [] d # c /\ at[d] = c -> "clean"
                                    [] OTHER -> pc[d]]
    /\ UNCHANGED <<key, built, victims, gone, cacheVars, shared, snapshot, seal, temp, crashes>>

GiveUp(c) ==
    /\ ~Another(c)
    /\ Goes(c, "mark", "failed")
    /\ UNCHANGED <<key, built, tries, todo, at, victims, gone, cacheVars, leaseVars, temp, crashes>>

\* lock_shared waits for a collector that holds the lock.
Lock(c) ==
    /\ probed[c] = {}
    /\ Goes(c, "lock", "visible")
    /\ shared' = shared \cup {c}
    /\ UNCHANGED <<key, built, tries, todo, at, victims, gone, cacheVars, marker, probed,
                   snapshot, seal, temp, crashes>>

\* Dropping a RuntimeObjectLease.
Released(c) ==
    /\ snapshot' = [snapshot EXCEPT ![c] = "none"]
    /\ seal' = [seal EXCEPT ![c] = "none"]
    /\ shared' = shared \ {c}
    /\ marker' = marker \ {c}
    /\ UNCHANGED probed

\* Ok(None): a hit goes on to build the object, a miss starts over.
Retry(c) ==
    /\ pc' = [pc EXCEPT ![c] = IF built[c] THEN "lookup" ELSE "build"]
    /\ built' = [built EXCEPT ![c] = FALSE]
    /\ tries' = [tries EXCEPT ![c] = 0]
    /\ Released(c)

\* "A stale-lease collector can win between marker creation and locking."
Visible(c) ==
    /\ \/ /\ c \in marker
          /\ Goes(c, "visible", "linkObject")
          /\ UNCHANGED leaseVars
       \/ /\ c \notin marker
          /\ Goes(c, "visible", "mark")
          /\ Released(c)
    /\ UNCHANGED <<key, built, tries, todo, at, victims, gone, cacheVars, temp, crashes>>

LinkObject(c) ==
    /\ pc[c] = "linkObject"
    /\ \/ /\ object[key[c]] = "none"
          /\ Retry(c)
       \/ /\ object[key[c]] # "none"
          /\ Goes(c, "linkObject", "linkDigest")
          /\ snapshot' = [snapshot EXCEPT ![c] = object[key[c]]]
          /\ UNCHANGED <<built, tries, marker, shared, probed, seal>>
    /\ UNCHANGED <<key, todo, at, victims, gone, cacheVars, temp, crashes>>

LinkDigest(c) ==
    /\ pc[c] = "linkDigest"
    /\ \/ /\ digest[key[c]] = "none"
          /\ Retry(c)
       \/ /\ digest[key[c]] # "none"
          /\ Goes(c, "linkDigest", "verify")
          /\ seal' = [seal EXCEPT ![c] = digest[key[c]]]
          /\ UNCHANGED <<built, tries, marker, shared, probed, snapshot>>
    /\ UNCHANGED <<key, todo, at, victims, gone, cacheVars, temp, crashes>>

\* The snapshot counts, not the cache.
Verified(c) == Intact(snapshot[c], seal[c])

\* The prepared object is there; read_dir for the stale leases.
Verify(c) ==
    /\ pc[c] = "verify"
    /\ \/ /\ ~Verified(c)
          /\ Retry(c)
          /\ UNCHANGED todo
       \/ /\ Verified(c)
          /\ Goes(c, "verify", "clean")
          /\ todo' = [todo EXCEPT ![c] = marker \ {c}]
          /\ UNCHANGED <<built, tries, leaseVars>>
    /\ UNCHANGED <<key, at, victims, gone, cacheVars, temp, crashes>>

-----------------------------------------------------------------------------
(***************************************************************************)
(* prune_runtime_cache_objects.                                            *)
(***************************************************************************)

\* try_lock_exclusive.  Mutant: the lock is not asked.
MutAbandoned(d) == TRUE
Abandoned(d) == d \notin shared /\ probed[d] = {}

Probe(c) ==
    /\ pc[c] = "clean"
    /\ \E d \in todo[c] :
          /\ todo' = [todo EXCEPT ![c] = @ \ {d}]
          /\ IF d \in marker /\ Abandoned(d)
                THEN /\ Goes(c, "clean", "collect")
                     /\ at' = [at EXCEPT ![c] = d]
                     /\ probed' = [probed EXCEPT ![d] = @ \cup {c}]
                ELSE UNCHANGED <<pc, at, probed>>
    /\ UNCHANGED <<key, built, tries, victims, gone, cacheVars, marker, shared, snapshot, seal,
                   temp, crashes>>

Collect(c) ==
    /\ Goes(c, "collect", "unlock")
    /\ snapshot' = [snapshot EXCEPT ![at[c]] = "none"]
    /\ seal' = [seal EXCEPT ![at[c]] = "none"]
    /\ UNCHANGED <<key, built, tries, todo, at, victims, gone, cacheVars, marker, shared, probed,
                   temp, crashes>>

Unlock(c) ==
    /\ Goes(c, "unlock", "unmark")
    /\ probed' = [probed EXCEPT ![at[c]] = @ \ {c}]
    /\ UNCHANGED <<key, built, tries, todo, at, victims, gone, cacheVars, marker, shared,
                   snapshot, seal, temp, crashes>>

\* The marker goes after its lock: its owner may have it by now.
Unmark(c) ==
    /\ Goes(c, "unmark", "clean")
    /\ marker' = marker \ {at[c]}
    /\ at' = [at EXCEPT ![c] = Nobody]
    /\ UNCHANGED <<key, built, tries, todo, victims, gone, cacheVars, shared, probed,
                   snapshot, seal, temp, crashes>>

\* runtime_cache_process_is_alive.  Mutant: kill's failure is taken for life.
MutDead == {}
Dead == {d \in Compilers : pc[d] = "dead"}

Sweep(c) ==
    /\ todo[c] = {}
    /\ Goes(c, "clean", "list")
    /\ temp' = temp \ Dead
    /\ byAge' = Among(byAge, Files \ Dead)
    /\ UNCHANGED <<key, built, tries, todo, at, victims, gone, object, digest, leaseVars, crashes>>

\* How many to remove.  Mutant: the bound plus one may stay.
MutExcess == IF Cardinality(Objects) > MaxObjects + 1 THEN Cardinality(Objects) - MaxObjects ELSE 0
Excess == IF Cardinality(Objects) > MaxObjects THEN Cardinality(Objects) - MaxObjects ELSE 0

\* The oldest but its own.
List(c) ==
    /\ Goes(c, "list", "prune")
    /\ LET others == Among(byAge, Keys \ {key[c]})
       IN  victims' = [victims EXCEPT
              ![c] = SubSeq(others, 1, IF Excess < Len(others) THEN Excess ELSE Len(others))]
    /\ UNCHANGED <<key, built, tries, todo, at, gone, cacheVars, leaseVars, temp, crashes>>

PruneObject(c) ==
    /\ pc[c] = "prune"
    /\ victims[c] # << >>
    /\ victims' = [victims EXCEPT ![c] = Tail(@)]
    /\ LET k == Head(victims[c])
       IN  \/ /\ object[k] = "none"
              /\ UNCHANGED <<pc, gone, object, byAge>>
           \/ /\ object[k] # "none"
              /\ object' = [object EXCEPT ![k] = "none"]
              /\ byAge' = Without(k)
              /\ gone' = [gone EXCEPT ![c] = k]
              /\ Goes(c, "prune", "unseal")
    /\ UNCHANGED <<key, built, tries, todo, at, digest, leaseVars, temp, crashes>>

PruneDigest(c) ==
    /\ Goes(c, "unseal", "prune")
    /\ digest' = [digest EXCEPT ![gone[c]] = "none"]
    /\ gone' = [gone EXCEPT ![c] = Nobody]
    /\ UNCHANGED <<key, built, tries, todo, at, victims, object, byAge, leaseVars, temp, crashes>>

\* The linker runs; then the lease is dropped, its marker last.
Link(c) ==
    /\ victims[c] = << >>
    /\ Goes(c, "prune", "link")
    /\ UNCHANGED <<key, built, tries, todo, at, victims, gone, cacheVars, leaseVars, temp, crashes>>

Drop(c) ==
    /\ Goes(c, "link", "drop")
    /\ snapshot' = [snapshot EXCEPT ![c] = "none"]
    /\ seal' = [seal EXCEPT ![c] = "none"]
    /\ shared' = shared \ {c}
    /\ UNCHANGED <<key, built, tries, todo, at, victims, gone, cacheVars, marker, probed,
                   temp, crashes>>

DropMarker(c) ==
    /\ Goes(c, "drop", "idle")
    /\ marker' = marker \ {c}
    /\ UNCHANGED <<key, built, tries, todo, at, victims, gone, cacheVars, shared, probed,
                   snapshot, seal, temp, crashes>>

\* The system takes back a dead compiler's locks and leaves its files.
Crash(c) ==
    /\ crashes < MaxCrashes
    /\ pc[c] \notin {"idle", "failed", "dead"}
    /\ pc' = [pc EXCEPT ![c] = "dead"]
    /\ crashes' = crashes + 1
    /\ shared' = shared \ {c}
    /\ probed' = [d \in Compilers |-> probed[d] \ {c}]
    /\ todo' = [todo EXCEPT ![c] = {}] /\ at' = [at EXCEPT ![c] = Nobody]
    /\ victims' = [victims EXCEPT ![c] = << >>] /\ gone' = [gone EXCEPT ![c] = Nobody]
    /\ UNCHANGED <<key, built, tries, cacheVars, marker, snapshot, seal, temp>>

-----------------------------------------------------------------------------
Step(c) ==
    \/ Lookup(c) \/ Build(c) \/ Rename(c) \/ ReadBack(c) \/ Publish(c)
    \/ Mark(c) \/ GiveUp(c) \/ Lock(c) \/ Visible(c) \/ LinkObject(c) \/ LinkDigest(c)
    \/ Verify(c) \/ Probe(c) \/ Collect(c) \/ Unlock(c) \/ Unmark(c) \/ Sweep(c) \/ List(c)
    \/ PruneObject(c) \/ PruneDigest(c) \/ Link(c) \/ Drop(c) \/ DropMarker(c)

Next == \E c \in Compilers : Start(c) \/ Step(c) \/ Crash(c)

Spec == Init /\ [][Next]_vars

\* Compilers are processes that get to run; nobody has to start one.
FairSpec == Spec /\ \A c \in Compilers : WF_vars(Step(c))

-----------------------------------------------------------------------------
(***************************************************************************)
(* Properties.                                                             *)
(***************************************************************************)

\* "Canonical pruning or replacement therefore cannot invalidate a prepared
\* object that another compiler still owns" (storage.rs): neither can any
\* number of collectors that found its marker before it was locked.
LeaseIsSound ==
    \A c \in Compilers : pc[c] \in Leased => Intact(snapshot[c], seal[c])

\* When every compiler that began has pruned, the cache is within its bound,
\* however their listings, removals and publications interleaved.
BoundHolds ==
    /\ TypeOK
    /\ (\A c \in Compilers : pc[c] \in {"idle", "failed", "link", "drop"})
        => Cardinality(Objects) <= MaxObjects

\* A dead compiler's files are collected as long as others compile, if its
\* marker is there to be found and no collector is about to remove it.
Found(d) == d \in marker /\ \A c \in Compilers : at[c] # d
LitterIsCollected ==
    \A d \in Compilers :
        (\E c \in Compilers \ {d} : []<>(pc[c] = "list"))
            => /\ (pc[d] = "dead" /\ Found(d)) ~> (d \notin marker /\ snapshot[d] = "none")
               /\ (pc[d] = "dead") ~> (d \notin temp)

\* A compilation ends, whatever it lost to others, once they leave it alone.
CompilationsEnd ==
    \A c \in Compilers :
        <>[](\A d \in Compilers \ {c} : pc[d] \in {"idle", "failed", "dead"})
            => (pc[c] = "lookup") ~> (pc[c] \in {"link", "failed", "dead"})

\* "Temporary assembly/object files are renamed into place to tolerate
\* concurrent compiler runs" (runtime_cache.rs): no run fails because of others.
RunsAreTolerated == \A c \in Compilers : pc[c] = "failed" => tries[c] = LeaseTries
=============================================================================
