------------------------- MODULE RuntimeCacheProofs -------------------------
(***************************************************************************)
(* Theorems about RuntimeCache, for any number of compilers and objects,   *)
(* any bound, any number of attempts and any number of crashes: a prepared *)
(* object stays intact for the linker, and the cache stays within its      *)
(* bound.                                                                  *)
(***************************************************************************)
EXTENDS RuntimeCache, SequenceTheorems, FiniteSetTheorems, TLAPS

\* What the argument needs of the types.
Kinds ==
    /\ pc = [c \in Compilers |-> pc[c]]
    /\ todo \in [Compilers -> SUBSET Compilers]
    /\ at \in [Compilers -> Compilers \cup {Nobody}]
    /\ marker \subseteq Compilers /\ shared \subseteq Compilers
    /\ probed \in [Compilers -> SUBSET Compilers]
    /\ snapshot = [c \in Compilers |-> snapshot[c]]
    /\ seal = [c \in Compilers |-> seal[c]]

\* From lock_shared to the drop of the lease.
Holding == {"visible", "linkObject", "linkDigest", "verify"} \cup Leased
HoldersLock == \A c \in Compilers : pc[c] \in Holding => c \in shared

\* A collector has a marker in hand only while it works on it, holds its lock
\* until Unlock, and never together with the owner.
Collecting == {"collect", "unlock", "unmark"}
CollectorsLock ==
    \A c \in Compilers :
        /\ at[c] # Nobody <=> pc[c] \in Collecting
        /\ pc[c] \in {"collect", "unlock"} => c \in probed[at[c]]
LocksExclude == \A c \in shared : probed[c] = {}

IInv ==
    /\ Kinds
    /\ HoldersLock
    /\ CollectorsLock
    /\ LocksExclude
    /\ LeaseIsSound
-----------------------------------------------------------------------------
\* Nobody holds anything at the start.
LEMMA InitInv == Init => IInv
BY CacheAssumption DEF Init, IInv, Kinds, HoldersLock, CollectorsLock, LocksExclude,
   LeaseIsSound, Leased, Holding, Collecting

\* A compiler that goes on without a look at a lease leaves them all as they are.
LEMMA GoOn ==
    ASSUME IInv, NEW c \in Compilers, NEW x,
           pc' = [pc EXCEPT ![c] = x],
           x \notin Collecting, pc[c] \notin Collecting,
           x \in Holding => pc[c] \in Holding,
           x \in Leased => pc[c] \in Leased,
           todo' \in [Compilers -> SUBSET Compilers], marker' \subseteq Compilers,
           UNCHANGED <<at, shared, probed, snapshot, seal>>
    PROVE  IInv'
<1> USE CacheAssumption DEF IInv, Kinds
<1>1. Kinds'
  OBVIOUS
<1>2. HoldersLock'
  BY DEF HoldersLock
<1>3. CollectorsLock' /\ LocksExclude'
  <2>1. x \notin {"collect", "unlock"}
    BY DEF Collecting
  <2> QED
    BY <2>1 DEF CollectorsLock, LocksExclude
<1>4. LeaseIsSound'
  BY DEF LeaseIsSound
<1> QED
  BY <1>1, <1>2, <1>3, <1>4

\* A lease that is given up, with the compiler or before it.
LEMMA LetGo ==
    ASSUME IInv, NEW c \in Compilers, NEW x,
           pc' = [pc EXCEPT ![c] = x],
           x \notin Collecting, x \notin Holding,
           at' = [at EXCEPT ![c] = Nobody],
           shared' = shared \ {c},
           probed' = probed \/ probed' = [d \in Compilers |-> probed[d] \ {c}],
           pc[c] \in Collecting => probed' # probed \/ pc[c] = "unmark",
           todo' \in [Compilers -> SUBSET Compilers], marker' \subseteq Compilers,
           snapshot' = [d \in Compilers |-> snapshot'[d]],
           seal' = [d \in Compilers |-> seal'[d]],
           \A d \in Compilers \ {c} : snapshot'[d] = snapshot[d] /\ seal'[d] = seal[d]
    PROVE  IInv'
<1> USE CacheAssumption DEF IInv, Kinds
<1>0. probed' \in [Compilers -> SUBSET Compilers]
  OBVIOUS
<1>1. Kinds'
  BY <1>0
<1>2. HoldersLock'
  BY DEF HoldersLock
<1>3. CollectorsLock'
  <2> SUFFICES ASSUME NEW d \in Compilers
               PROVE  /\ at'[d] # Nobody <=> pc'[d] \in Collecting
                      /\ pc'[d] \in {"collect", "unlock"} => d \in probed'[at'[d]]
    BY DEF CollectorsLock
  <2>1. x \notin {"collect", "unlock"}
    BY DEF Collecting
  <2>2. CASE d = c
    BY <2>1, <2>2
  <2>3. CASE d # c
    <3>1. pc'[d] = pc[d] /\ at'[d] = at[d]
      BY <2>3
    <3>2. ASSUME pc[d] \in {"collect", "unlock"}
          PROVE  at[d] \in Compilers /\ d \in probed[at[d]]
      BY <3>2 DEF CollectorsLock, Collecting
    <3>3. pc[d] \in {"collect", "unlock"} => d \in probed'[at[d]]
      BY <2>3, <3>2
    <3> QED
      BY <3>1, <3>3 DEF CollectorsLock
  <2> QED
    BY <2>2, <2>3
<1>4. LocksExclude'
  BY DEF LocksExclude
<1>5. LeaseIsSound'
  BY DEF LeaseIsSound, Holding
<1> QED
  BY <1>1, <1>2, <1>3, <1>4, <1>5

\* Preparing and publishing an object touches no lease.
LEMMA BuildPreserves ==
    ASSUME IInv, NEW c \in Compilers,
           Start(c) \/ Lookup(c) \/ Build(c) \/ Rename(c) \/ ReadBack(c) \/ Publish(c)
    PROVE  IInv'
<1>1. PICK x \in {"lookup", "mark", "build", "rename", "read", "publish", "failed"} :
          pc' = [pc EXCEPT ![c] = x]
  BY DEF Goes, Start, Lookup, Build, Rename, ReadBack, Publish
<1>2. pc[c] \notin Collecting
  BY DEF Goes, Start, Lookup, Build, Rename, ReadBack, Publish, Collecting
<1>3. x \notin Collecting /\ x \notin Holding /\ x \notin Leased
  BY DEF Collecting, Holding, Leased
<1>4. UNCHANGED <<todo, at, marker, shared, probed, snapshot, seal>>
  BY DEF Start, Lookup, Build, Rename, ReadBack, Publish, leaseVars
<1> QED
  BY <1>1, <1>2, <1>3, <1>4, GoOn DEF IInv, Kinds

\* A marker nobody knows: whoever had the last one forgets it.
LEMMA MarkPreserves ==
    ASSUME IInv, NEW c \in Compilers, Mark(c)
    PROVE  IInv'
<1> USE CacheAssumption DEF IInv, Kinds, Mark
<1>1. pc[c] \notin Collecting /\ pc[c] \notin Holding
  BY DEF Collecting, Holding, Leased
<1>2. at[c] = Nobody
  BY <1>1 DEF CollectorsLock
<1>3. \A d \in Compilers \ {c} :
          /\ at[d] = c => pc[d] \in Collecting /\ pc'[d] = "clean" /\ at'[d] = Nobody
          /\ at[d] # c => pc'[d] = pc[d] /\ at'[d] = at[d]
  BY DEF CollectorsLock
<1>4. pc'[c] = "lock" /\ at'[c] = Nobody /\ UNCHANGED <<shared, snapshot, seal>>
  BY <1>2
<1>5. /\ Collecting \subseteq Leased /\ Leased \subseteq Holding
      /\ "clean" \in Leased /\ "clean" \notin Collecting
      /\ "lock" \notin Collecting /\ "lock" \notin Holding
      /\ {"collect", "unlock"} \subseteq Collecting
  BY DEF Collecting, Holding, Leased
<1>6. Kinds'
  BY <1>4
<1>7. HoldersLock'
  BY <1>3, <1>4, <1>5 DEF HoldersLock
<1>8. LocksExclude'
  BY <1>4 DEF LocksExclude
<1>9. LeaseIsSound'
  BY <1>3, <1>4, <1>5 DEF LeaseIsSound
<1>10. CollectorsLock'
  <2> SUFFICES ASSUME NEW d \in Compilers
               PROVE  /\ at'[d] # Nobody <=> pc'[d] \in Collecting
                      /\ pc'[d] \in {"collect", "unlock"} => d \in probed'[at'[d]]
    BY DEF CollectorsLock
  <2>1. CASE d = c
    BY <2>1, <1>4, <1>5
  <2>2. CASE d # c /\ at[d] = c
    BY <2>2, <1>3, <1>5
  <2>3. CASE d # c /\ at[d] # c
    BY <2>3, <1>3 DEF CollectorsLock
  <2> QED
    BY <2>1, <2>2, <2>3
<1> QED
  BY <1>6, <1>7, <1>8, <1>9, <1>10

\* lock_shared waits for collectors.
LEMMA LockPreserves ==
    ASSUME IInv, NEW c \in Compilers, Lock(c)
    PROVE  IInv'
<1> USE CacheAssumption DEF IInv, Kinds, Lock, Goes
<1>1. /\ "visible" \notin Collecting /\ "visible" \notin Leased
      /\ "lock" \notin Collecting /\ "visible" \notin {"collect", "unlock"}
  BY DEF Collecting, Leased
<1>2. Kinds' /\ HoldersLock'
  BY DEF HoldersLock
<1>3. CollectorsLock' /\ LocksExclude' /\ LeaseIsSound'
  BY <1>1 DEF CollectorsLock, LocksExclude, LeaseIsSound
<1> QED
  BY <1>2, <1>3

\* A lease that is not to be: back to the start, with nothing held.
LEMMA RetryPreserves ==
    ASSUME IInv, NEW c \in Compilers, NEW x \in {"mark", "lookup", "build"},
           pc[c] \notin Collecting, pc' = [pc EXCEPT ![c] = x],
           Released(c), todo' = todo, at' = at
    PROVE  IInv'
<1>1. x \notin Collecting /\ x \notin Holding
  BY DEF Collecting, Holding, Leased
<1>2. at' = [at EXCEPT ![c] = Nobody]
  BY DEF IInv, Kinds, CollectorsLock
<1>3. /\ shared' = shared \ {c} /\ probed' = probed
      /\ todo' \in [Compilers -> SUBSET Compilers] /\ marker' \subseteq Compilers
      /\ snapshot' = [d \in Compilers |-> snapshot'[d]]
      /\ seal' = [d \in Compilers |-> seal'[d]]
      /\ \A d \in Compilers \ {c} : snapshot'[d] = snapshot[d] /\ seal'[d] = seal[d]
  BY DEF IInv, Kinds, Released
<1> QED
  BY <1>1, <1>2, <1>3, LetGo

\* A snapshot of what the cache holds counts only once it is verified.
LEMMA SnapshotPreserves ==
    ASSUME IInv, NEW c \in Compilers,
           GiveUp(c) \/ Visible(c) \/ LinkObject(c) \/ LinkDigest(c) \/ Verify(c)
    PROVE  IInv'
<1> USE CacheAssumption DEF Goes
<1>0. /\ {"mark", "visible", "linkObject", "linkDigest", "verify"} \cap Collecting = {}
      /\ {"visible", "linkObject", "linkDigest", "verify"} \subseteq Holding
      /\ {"visible", "linkObject", "linkDigest", "verify"} \cap Leased = {}
      /\ "clean" \notin Collecting /\ "clean" \in Holding /\ "clean" \in Leased
      /\ "failed" \notin Collecting /\ "failed" \notin Holding /\ "failed" \notin Leased
      /\ {"collect", "unlock"} \subseteq Collecting
  BY DEF Collecting, Holding, Leased
<1>1. CASE GiveUp(c)
  BY <1>0, <1>1, GoOn DEF GiveUp, IInv, Kinds, leaseVars
<1>2. CASE Visible(c) /\ c \in marker
  BY <1>0, <1>2, GoOn DEF Visible, IInv, Kinds, leaseVars
<1>3. CASE Visible(c) /\ c \notin marker
  BY <1>0, <1>3, RetryPreserves DEF Visible
<1>4. ASSUME pc[c] \in {"linkObject", "linkDigest", "verify"}, Retry(c), todo' = todo, at' = at
      PROVE  IInv'
  BY <1>0, <1>4, RetryPreserves DEF Retry
<1>5. ASSUME pc[c] \in {"linkObject", "linkDigest"}, NEW x \in {"linkDigest", "verify"},
             pc' = [pc EXCEPT ![c] = x], UNCHANGED <<todo, at, marker, shared, probed>>,
             snapshot' = [d \in Compilers |-> snapshot'[d]],
             seal' = [d \in Compilers |-> seal'[d]],
             \A d \in Compilers \ {c} : snapshot'[d] = snapshot[d] /\ seal'[d] = seal[d]
      PROVE  IInv'
  <2> USE <1>0, <1>5 DEF IInv, Kinds
  <2>1. Kinds' /\ HoldersLock'
    BY DEF HoldersLock
  <2>2. CollectorsLock' /\ LocksExclude'
    BY DEF CollectorsLock, LocksExclude
  <2>3. LeaseIsSound'
    BY DEF LeaseIsSound
  <2> QED
    BY <2>1, <2>2, <2>3
<1>6. CASE LinkObject(c)
  BY <1>4, <1>5, <1>6 DEF LinkObject, IInv, Kinds
<1>7. CASE LinkDigest(c)
  BY <1>4, <1>5, <1>7 DEF LinkDigest, IInv, Kinds
<1>8. CASE Verify(c)
  <2>1. CASE ~Verified(c)
    BY <1>4, <1>8, <2>1 DEF Verify
  <2>2. CASE Verified(c)
    <3> USE <1>0, <1>8, <2>2 DEF Verify, IInv, Kinds, leaseVars
    <3>1. todo' \in [Compilers -> SUBSET Compilers]
      OBVIOUS
    <3>2. Kinds' /\ HoldersLock' /\ CollectorsLock' /\ LocksExclude'
      BY <3>1 DEF HoldersLock, CollectorsLock, LocksExclude
    <3>3. LeaseIsSound'
      BY DEF LeaseIsSound, Verified
    <3> QED
      BY <3>2, <3>3
  <2> QED
    BY <2>1, <2>2
<1> QED
  BY <1>1, <1>2, <1>3, <1>6, <1>7, <1>8

\* A collector removes a snapshot only under the lock its owner would need.
LEMMA CollectPreserves ==
    ASSUME IInv, NEW c \in Compilers, Probe(c) \/ Collect(c) \/ Unlock(c) \/ Unmark(c)
    PROVE  IInv'
<1> USE CacheAssumption DEF IInv, Kinds, Goes, leaseVars
<1>0. /\ {"collect", "unlock"} \subseteq Collecting /\ "unmark" \in Collecting
      /\ Collecting \subseteq Leased /\ Leased \subseteq Holding
      /\ "clean" \notin Collecting /\ "clean" \in Leased
  BY DEF Collecting, Holding, Leased
<1>1. CASE Probe(c)
  <2> USE <1>0, <1>1 DEF Probe, Abandoned
  <2>1. PICK d \in todo[c] :
            /\ todo' = [todo EXCEPT ![c] = @ \ {d}]
            /\ IF d \in marker /\ Abandoned(d)
                  THEN /\ Goes(c, "clean", "collect")
                       /\ at' = [at EXCEPT ![c] = d]
                       /\ probed' = [probed EXCEPT ![d] = @ \cup {c}]
                  ELSE UNCHANGED <<pc, at, probed>>
    OBVIOUS
  <2>2. d \in Compilers
    OBVIOUS
  <2>3. CASE ~(d \in marker /\ Abandoned(d))
    BY <2>1, <2>3 DEF HoldersLock, CollectorsLock, LocksExclude, LeaseIsSound
  <2>4. CASE d \in marker /\ Abandoned(d)
    <3> USE <2>1, <2>2, <2>4
    <3>1. Kinds' /\ HoldersLock' /\ LocksExclude'
      BY DEF HoldersLock, LocksExclude
    <3>2. CollectorsLock'
      BY DEF CollectorsLock
    <3>3. LeaseIsSound'
      BY DEF LeaseIsSound
    <3> QED
      BY <3>1, <3>2, <3>3
  <2> QED
    BY <2>3, <2>4
<1>2. CASE Collect(c)
  <2> USE <1>0, <1>2 DEF Collect
  <2>1. at[c] \in Compilers /\ at[c] \notin shared
    BY DEF CollectorsLock, LocksExclude
  <2>2. Kinds' /\ HoldersLock' /\ LocksExclude'
    BY DEF HoldersLock, LocksExclude
  <2>3. CollectorsLock'
    BY DEF CollectorsLock
  <2>4. LeaseIsSound'
    BY <2>1 DEF LeaseIsSound, HoldersLock
  <2> QED
    BY <2>2, <2>3, <2>4
<1>3. CASE Unlock(c)
  <2> USE <1>0, <1>3 DEF Unlock
  <2>1. Kinds' /\ HoldersLock' /\ LocksExclude'
    BY DEF HoldersLock, LocksExclude
  <2>2. CollectorsLock'
    BY DEF CollectorsLock
  <2>3. LeaseIsSound'
    BY DEF LeaseIsSound
  <2> QED
    BY <2>1, <2>2, <2>3
<1>4. CASE Unmark(c)
  <2> USE <1>0, <1>4 DEF Unmark
  <2>1. Kinds' /\ HoldersLock' /\ LocksExclude'
    BY DEF HoldersLock, LocksExclude
  <2>2. CollectorsLock'
    BY DEF CollectorsLock
  <2>3. LeaseIsSound'
    BY DEF LeaseIsSound
  <2> QED
    BY <2>1, <2>2, <2>3
<1> QED
  BY <1>1, <1>2, <1>3, <1>4

\* Pruning the cache and linking touch no lease.
LEMMA PrunePreserves ==
    ASSUME IInv, NEW c \in Compilers,
           Sweep(c) \/ List(c) \/ PruneObject(c) \/ PruneDigest(c) \/ Link(c)
    PROVE  IInv'
<1>1. /\ pc[c] \in {"clean", "list", "prune", "unseal"}
      /\ UNCHANGED <<todo, at, marker, shared, probed, snapshot, seal>>
  BY DEF Goes, Sweep, List, PruneObject, PruneDigest, Link, leaseVars
<1>2. PICK x \in {"list", "prune", "unseal", "link"} : pc' = [pc EXCEPT ![c] = x]
  BY <1>1 DEF Goes, Sweep, List, PruneObject, PruneDigest, Link, IInv, Kinds
<1>3. /\ x \notin Collecting
      /\ pc[c] \notin Collecting /\ pc[c] \in Leased /\ pc[c] \in Holding
  BY <1>1, <1>2 DEF Collecting, Holding, Leased
<1> QED
  BY <1>1, <1>2, <1>3, GoOn DEF IInv, Kinds

\* The end of a compiler: its locks go, with it.
LEMMA EndPreserves ==
    ASSUME IInv, NEW c \in Compilers, Drop(c) \/ DropMarker(c) \/ Crash(c)
    PROVE  IInv'
<1>1. CASE Drop(c)
  <2>1. /\ "drop" \notin Collecting /\ "drop" \notin Holding
        /\ "link" \notin Collecting
    BY DEF Collecting, Holding, Leased
  <2>2. at' = [at EXCEPT ![c] = Nobody]
    BY <1>1, <2>1 DEF Drop, Goes, IInv, Kinds, CollectorsLock
  <2> QED
    BY <1>1, <2>1, <2>2, LetGo DEF Drop, Goes, IInv, Kinds
<1>2. CASE DropMarker(c)
  <2>1. /\ "idle" \notin Collecting /\ "idle" \notin Holding /\ "idle" \notin Leased
        /\ "drop" \notin Collecting
    BY DEF Collecting, Holding, Leased
  <2> QED
    BY <1>2, <2>1, GoOn DEF DropMarker, Goes, IInv, Kinds
<1>3. CASE Crash(c)
  <2>1. "dead" \notin Collecting /\ "dead" \notin Holding
    BY DEF Collecting, Holding, Leased
  <2>2. pc[c] \in Collecting => probed' # probed \/ pc[c] = "unmark"
    BY <1>3 DEF Crash, Collecting, IInv, Kinds, CollectorsLock
  <2> QED
    BY <1>3, <2>1, <2>2, LetGo DEF Crash, IInv, Kinds
<1> QED
  BY <1>1, <1>2, <1>3

\* The strengthening is inductive.
LEMMA NextPreserves == IInv /\ [Next]_vars => IInv'
<1> SUFFICES ASSUME IInv, [Next]_vars PROVE IInv'
  OBVIOUS
<1>1. CASE UNCHANGED vars
  BY <1>1 DEF IInv, Kinds, HoldersLock, CollectorsLock, LocksExclude, LeaseIsSound,
     vars, procVars, leaseVars
<1>2. ASSUME NEW c \in Compilers, Start(c) \/ Step(c) \/ Crash(c)
      PROVE  IInv'
  BY <1>2, BuildPreserves, MarkPreserves, LockPreserves, SnapshotPreserves, CollectPreserves,
     PrunePreserves, EndPreserves DEF Step
<1> QED
  BY <1>1, <1>2 DEF Next

\* A prepared object stays intact for the linker whatever other compilers
\* publish, prune and collect, and whenever they die.
THEOREM LeaseSound == Spec => []LeaseIsSound
<1>1. IInv => LeaseIsSound
  BY DEF IInv
<1> QED
  BY <1>1, InitInv, NextPreserves, PTL DEF Spec
-----------------------------------------------------------------------------
(* Files in a sequence without repetition: what Among, Append, ReplaceAll  *)
(* and a prefix do to the set of them.                                     *)

\* The places counted up to each of them: every number up to their count, once.
LEMMA RanksAreExact ==
    ASSUME NEW T \in SUBSET Nat, IsFiniteSet(T)
    PROVE  \A n \in 1 .. Cardinality(T) :
               \E i \in T : Cardinality({j \in T : j <= i}) = n
<1> DEFINE Upto(i) == {j \in T : j <= i}
           Rank == [i \in T |-> Cardinality(Upto(i))]
           m == Cardinality(T)
<1>1. m \in Nat /\ IsFiniteSet(1 .. m) /\ Cardinality(1 .. m) = m
  BY FS_CardinalityType, FS_Interval
<1>2. \A i \in T : IsFiniteSet(Upto(i)) /\ Cardinality(Upto(i)) \in Nat /\ Cardinality(Upto(i)) <= m
  BY FS_Subset, FS_CardinalityType
<1>3. \A i \in T : Cardinality(Upto(i)) # 0
  <2> SUFFICES ASSUME NEW i \in T, Cardinality(Upto(i)) = 0 PROVE FALSE
    OBVIOUS
  <2>1. i \in Nat /\ i \in Upto(i)
    OBVIOUS
  <2> HIDE DEF Upto
  <2> QED
    BY <1>2, <2>1, FS_EmptySet
<1>4. ASSUME NEW i \in T, NEW k \in T, i < k PROVE Cardinality(Upto(i)) # Cardinality(Upto(k))
  <2>1. i \in Nat /\ k \in Nat /\ \A j \in T : j \in Nat
    OBVIOUS
  <2>2. Upto(i) \subseteq Upto(k)
    <3>1. \A j \in T : j <= i => j <= k
      BY <1>4, <2>1
    <3> QED
      BY <3>1
  <2>4. k <= k /\ ~(k <= i)
    BY <1>4, <2>1
  <2>5. k \in Upto(k) /\ k \notin Upto(i)
    BY <2>4
  <2>3. Upto(i) \in SUBSET Upto(k) /\ Upto(i) # Upto(k)
    BY <2>2, <2>5
  <2> HIDE DEF Upto
  <2> QED
    BY <1>2, <2>3, FS_Subset
<1>5. Rank \in Injection(T, 1 .. m)
  <2> HIDE DEF Upto
  <2>1. \A i \in T : Cardinality(Upto(i)) \in 1 .. m
    BY <1>1, <1>2, <1>3
  <2>2. \A i, k \in T : i # k => Cardinality(Upto(i)) # Cardinality(Upto(k))
    <3>1. \A i \in T : i \in Nat
      OBVIOUS
    <3> QED
      BY <1>4, <3>1
  <2> QED
    BY <2>1, <2>2 DEF Injection, IsInjective
<1>6. Rank \in Surjection(T, 1 .. m)
  <2> HIDE DEF Rank
  <2> QED
    BY <1>1, <1>5, FS_Injection
<1> QED
  BY <1>6 DEF Surjection

\* The elements of an injective sequence are as many as it is long.
LEMMA LengthIsCount ==
    ASSUME NEW S, NEW q \in Seq(S), IsInjective(q)
    PROVE  IsFiniteSet(Range(q)) /\ Cardinality(Range(q)) = Len(q)
<1>1. Len(q) \in Nat /\ DOMAIN q = 1 .. Len(q) /\ q = [i \in 1 .. Len(q) |-> q[i]]
  BY LenProperties
<1>2. q \in Bijection(1 .. Len(q), Range(q))
  <2>1. \A i \in 1 .. Len(q) : q[i] \in Range(q)
    BY <1>1 DEF Range
  <2>2. q \in [1 .. Len(q) -> Range(q)]
    BY <1>1, <2>1
  <2>3. \A i, j \in 1 .. Len(q) : q[i] = q[j] => i = j
    BY <1>1 DEF IsInjective
  <2>4. \A y \in Range(q) : \E i \in 1 .. Len(q) : q[i] = y
    BY <1>1 DEF Range
  <2> QED
    BY <2>2, <2>3, <2>4, <1>1 DEF Bijection, Injection, Surjection, IsInjective
<1>3. IsFiniteSet(1 .. Len(q)) /\ Cardinality(1 .. Len(q)) = Len(q)
  <2>1. 1 \in Int /\ Len(q) \in Int
    BY <1>1
  <2>2. /\ IsFiniteSet(1 .. Len(q))
        /\ Cardinality(1 .. Len(q)) = IF 1 > Len(q) THEN 0 ELSE Len(q) - 1 + 1
    BY <2>1, FS_Interval
  <2> QED
    BY <1>1, <2>2
<1> QED
  BY <1>2, <1>3, FS_Bijection DEF ExistsBijection

\* Among keeps just the members of S.
LEMMA AmongIsSelection ==
    ASSUME NEW Q, NEW q \in Seq(Q), IsInjective(q), NEW S
    PROVE  /\ Among(q, S) \in Seq(Q) /\ IsInjective(Among(q, S))
           /\ Range(Among(q, S)) = Range(q) \cap S
<1> DEFINE here == {i \in DOMAIN q : q[i] \in S}
           Upto(i) == {j \in here : j <= i}
           Nth(n) == CHOOSE i \in here : Cardinality(Upto(i)) = n
           m == Cardinality(here)
           r == [n \in 1 .. m |-> q[Nth(n)]]
<1>1. Len(q) \in Nat /\ DOMAIN q = 1 .. Len(q)
  BY LenProperties
<1>2. here \in SUBSET Nat /\ IsFiniteSet(here) /\ m \in Nat
  <2>1. here \subseteq 1 .. Len(q) /\ IsFiniteSet(1 .. Len(q))
    BY <1>1, FS_Interval
  <2>2. here \in SUBSET Nat
    BY <1>1, <2>1
  <2> HIDE DEF here
  <2> QED
    BY <2>1, <2>2, FS_Subset, FS_CardinalityType
<1>3. \A n \in 1 .. m : Nth(n) \in here /\ Cardinality(Upto(Nth(n))) = n
  <2>1. \A n \in 1 .. m : \E i \in here : Cardinality(Upto(i)) = n
    <3> HIDE DEF here
    <3> QED
      BY <1>2, RanksAreExact
  <2> QED
    BY <2>1
<1>4. \A i \in here : Cardinality(Upto(i)) \in 1 .. m
  <2> SUFFICES ASSUME NEW i \in here PROVE Cardinality(Upto(i)) \in 1 .. m
    OBVIOUS
  <2>1. i \in Nat /\ i \in Upto(i) /\ Upto(i) \subseteq here
    BY <1>2
  <2> HIDE DEF Upto, here
  <2>2. /\ IsFiniteSet(Upto(i)) /\ Cardinality(Upto(i)) \in Nat /\ Cardinality(Upto(i)) <= m
        /\ Cardinality(Upto(i)) # 0
    BY <1>2, <2>1, FS_Subset, FS_CardinalityType, FS_EmptySet
  <2> QED
    BY <1>2, <2>2
<1>5. ASSUME NEW i \in here, NEW k \in here, i < k PROVE Cardinality(Upto(i)) # Cardinality(Upto(k))
  <2>1. i \in Nat /\ k \in Nat
    BY <1>2
  <2>2. Upto(i) \subseteq Upto(k) /\ k \in Upto(k) /\ k \notin Upto(i) /\ Upto(k) \subseteq here
    BY <1>5, <2>1
  <2> HIDE DEF Upto, here
  <2> QED
    BY <1>2, <2>2, FS_Subset
<1>6. \A i \in here : Nth(Cardinality(Upto(i))) = i
  <2> SUFFICES ASSUME NEW i \in here PROVE Nth(Cardinality(Upto(i))) = i
    OBVIOUS
  <2>1. Nth(Cardinality(Upto(i))) \in here
        /\ Cardinality(Upto(Nth(Cardinality(Upto(i))))) = Cardinality(Upto(i))
    BY <1>3, <1>4
  <2>2. \A k \in here : k \in Nat
    BY <1>2
  <2> HIDE DEF here, Upto, Nth
  <2> QED
    BY <1>5, <2>1, <2>2
<1>7. r = Among(q, S)
  BY DEF Among
<1>8. \A n \in 1 .. m : Nth(n) \in DOMAIN q /\ q[Nth(n)] \in Q /\ q[Nth(n)] \in S
  <2>1. \A i \in here : i \in DOMAIN q /\ q[i] \in Q /\ q[i] \in S
    BY <1>1, ElementOfSeq
  <2> HIDE DEF here, Nth
  <2> QED
    BY <1>3, <2>1
<1>9. Len(r) = m /\ DOMAIN r = 1 .. m /\ r \in Seq(Q)
  <2> HIDE DEF Nth, m
  <2> QED
    BY <1>2, <1>8
<1>10. IsInjective(r)
  <2> SUFFICES ASSUME NEW a \in 1 .. m, NEW b \in 1 .. m, q[Nth(a)] = q[Nth(b)] PROVE a = b
    BY <1>9 DEF IsInjective
  <2>1. Nth(a) \in DOMAIN q /\ Nth(b) \in DOMAIN q
    BY <1>8
  <2>2. Nth(a) = Nth(b)
    <3> HIDE DEF Nth
    <3> QED
      BY <2>1 DEF IsInjective
  <2> HIDE DEF Nth, Upto
  <2> QED
    BY <1>3, <2>2
<1>11. Range(r) = Range(q) \cap S
  <2>1. ASSUME NEW y \in Range(r) PROVE y \in Range(q) /\ y \in S
    <3> HIDE DEF Nth, m
    <3>1. PICK n \in 1 .. m : y = q[Nth(n)]
      BY <1>9, <2>1 DEF Range
    <3> QED
      BY <1>8, <3>1 DEF Range
  <2>2. ASSUME NEW y \in Range(q), y \in S PROVE y \in Range(r)
    <3>1. PICK i \in here : y = q[i]
      BY <2>2 DEF Range
    <3>2. Cardinality(Upto(i)) \in 1 .. m /\ q[Nth(Cardinality(Upto(i)))] = y
      BY <1>4, <1>6, <3>1
    <3> HIDE DEF Nth, m, Upto, here
    <3> QED
      BY <1>9, <3>2 DEF Range
  <2> HIDE DEF r
  <2> QED
    BY <2>1, <2>2
<1> HIDE DEF r
<1> QED
  BY <1>7, <1>9, <1>10, <1>11
\* A new file is the youngest.
LEMMA YoungestIsAdded ==
    ASSUME NEW Q, NEW q \in Seq(Q), IsInjective(q), NEW x \in Q, x \notin Range(q)
    PROVE  /\ Append(q, x) \in Seq(Q) /\ IsInjective(Append(q, x))
           /\ Range(Append(q, x)) = Range(q) \cup {x}
<1>1. Len(q) \in Nat /\ DOMAIN q = 1 .. Len(q)
  BY LenProperties
<1>2. Append(q, x) \in Seq(Q) /\ DOMAIN Append(q, x) = 1 .. Len(q) + 1
  BY <1>1, AppendProperties, LenProperties
<1>3. /\ \A i \in 1 .. Len(q) : Append(q, x)[i] = q[i]
      /\ Append(q, x)[Len(q) + 1] = x
  BY <1>1, AppendProperties
<1>4. \A i \in 1 .. Len(q) : q[i] # x
  BY <1>1 DEF Range
<1>5. IsInjective(Append(q, x))
  BY <1>1, <1>2, <1>3, <1>4 DEF IsInjective
<1>6. Range(Append(q, x)) = Range(q) \cup {x}
  BY <1>1, <1>2, <1>3 DEF Range
<1> QED
  BY <1>2, <1>5, <1>6

\* A renamed file keeps its place.
LEMMA PlaceIsKept ==
    ASSUME NEW Q, NEW q \in Seq(Q), IsInjective(q),
           NEW a \in Range(q), NEW b \in Q, b \notin Range(q)
    PROVE  /\ ReplaceAll(q, a, b) \in Seq(Q) /\ IsInjective(ReplaceAll(q, a, b))
           /\ Range(ReplaceAll(q, a, b)) = (Range(q) \ {a}) \cup {b}
<1> DEFINE r == [i \in 1 .. Len(q) |-> IF q[i] = a THEN b ELSE q[i]]
<1>1. r = ReplaceAll(q, a, b)
  BY DEF ReplaceAll
<1>2. Len(q) \in Nat /\ DOMAIN q = 1 .. Len(q) /\ \A i \in 1 .. Len(q) : q[i] \in Q
  BY LenProperties, ElementOfSeq
<1>3. r \in Seq(Q) /\ DOMAIN r = 1 .. Len(q)
  BY <1>2
<1>4. \A i \in 1 .. Len(q) : r[i] = IF q[i] = a THEN b ELSE q[i]
  OBVIOUS
<1>5. \A i \in 1 .. Len(q) : q[i] # b
  BY <1>2 DEF Range
<1>6. \A i, j \in 1 .. Len(q) : q[i] = q[j] => i = j
  BY <1>2 DEF IsInjective
<1>7. PICK n \in 1 .. Len(q) : q[n] = a
  BY <1>2 DEF Range
<1> HIDE DEF r
<1>8. IsInjective(r)
  BY <1>3, <1>4, <1>5, <1>6 DEF IsInjective
<1>9. Range(r) = (Range(q) \ {a}) \cup {b}
  <2>1. ASSUME NEW y \in Range(r) PROVE y \in (Range(q) \ {a}) \cup {b}
    <3>1. PICK i \in 1 .. Len(q) : y = r[i]
      BY <1>3, <2>1 DEF Range
    <3> QED
      BY <1>2, <1>4, <3>1 DEF Range
  <2>2. ASSUME NEW y \in Range(q), y # a PROVE y \in Range(r)
    <3>1. PICK i \in 1 .. Len(q) : y = q[i]
      BY <1>2, <2>2 DEF Range
    <3> QED
      BY <1>3, <1>4, <2>2, <3>1 DEF Range
  <2>3. b \in Range(r)
    BY <1>3, <1>4, <1>7 DEF Range
  <2> QED
    BY <2>1, <2>2, <2>3
<1> QED
  BY <1>1, <1>3, <1>8, <1>9

\* A sequence without its head.
LEMMA HeadIsTaken ==
    ASSUME NEW Q, NEW q \in Seq(Q), q # << >>
    PROVE  /\ Head(q) \in Q /\ Tail(q) \in Seq(Q)
           /\ Range(q) \subseteq {Head(q)} \cup Range(Tail(q))
<1>1. Len(q) \in Nat \ {0} /\ DOMAIN q = 1 .. Len(q) /\ Head(q) = q[1]
  BY LenProperties, EmptySeq
<1>2. Tail(q) \in Seq(Q) /\ DOMAIN Tail(q) = 1 .. Len(q) - 1
  BY <1>1, HeadTailProperties, LenProperties
<1>3. \A i \in 1 .. Len(q) - 1 : Tail(q)[i] = q[i + 1]
  BY <1>1, HeadTailProperties
<1>4. Head(q) \in Q
  BY <1>1, ElementOfSeq
<1>5. ASSUME NEW y \in Range(q) PROVE y \in {Head(q)} \cup Range(Tail(q))
  <2>1. PICK i \in 1 .. Len(q) : y = q[i]
    BY <1>1, <1>5 DEF Range
  <2>2. CASE i = 1
    BY <1>1, <2>1, <2>2
  <2>3. CASE i # 1
    <3>1. i - 1 \in 1 .. Len(q) - 1 /\ Tail(q)[i - 1] = y
      BY <1>1, <1>3, <2>1, <2>3
    <3> QED
      BY <1>2, <3>1 DEF Range
  <2> QED
    BY <2>2, <2>3
<1> QED
  BY <1>2, <1>4, <1>5

\* The oldest n of them.
LEMMA OldestAreCounted ==
    ASSUME NEW Q, NEW q \in Seq(Q), IsInjective(q), NEW n \in 0 .. Len(q)
    PROVE  /\ SubSeq(q, 1, n) \in Seq(Q)
           /\ Range(SubSeq(q, 1, n)) \subseteq Range(q)
           /\ Cardinality(Range(SubSeq(q, 1, n))) = n
<1> DEFINE r == SubSeq(q, 1, n)
<1>1. Len(q) \in Nat /\ DOMAIN q = 1 .. Len(q) /\ \A i \in 1 .. Len(q) : q[i] \in Q
  BY LenProperties, ElementOfSeq
<1>2. r \in Seq(Q) /\ Len(r) = n /\ DOMAIN r = 1 .. n /\ \A i \in 1 .. n : r[i] = q[i]
  <2>1. /\ r \in Seq(Q)
        /\ Len(r) = IF 1 <= n THEN n - 1 + 1 ELSE 0
        /\ \A i \in 1 .. n - 1 + 1 : r[i] = q[1 + i - 1]
    BY <1>1, SubSeqProperties
  <2>2. Len(r) = n
    BY <1>1, <2>1
  <2>3. \A i \in 1 .. n : r[i] = q[i]
    BY <1>1, <2>1
  <2> HIDE DEF r
  <2> QED
    BY <2>1, <2>2, <2>3, LenProperties
<1> HIDE DEF r
<1>3. IsInjective(r)
  BY <1>1, <1>2 DEF IsInjective
<1>4. Range(r) \subseteq Range(q)
  BY <1>1, <1>2 DEF Range
<1>5. Cardinality(Range(r)) = n
  BY <1>2, <1>3, LengthIsCount
<1> QED
  BY <1>2, <1>4, <1>5 DEF r
-----------------------------------------------------------------------------
(***************************************************************************)
(* The bound.  A compiler that publishes an object owes the cache a        *)
(* pruning until it lists the objects; it is let off only when it fails,   *)
(* and then its object was pruned by another, or it was told that a        *)
(* collector had been there, which prunes in its place.                    *)
(***************************************************************************)

\* On its way to a pruning, unless it can fail: it has lost its marker at least once.
Owing == {"lookup", "build", "rename", "read", "publish", "mark", "lock", "visible",
          "linkObject", "linkDigest", "verify"}
ToldOff(c) == \/ pc[c] \in {"lock", "visible"} /\ c \notin marker
              \/ pc[c] = "mark" /\ tries[c] > 0
Owes(c) == pc[c] \in Owing /\ ~ToldOff(c)
Owed    == {key[c] : c \in {d \in Compilers : Owes(d)}}

\* Somebody will list the objects, or has listed them and is removing the rest, or what
\* nobody owes a pruning for is within the bound.
WillList == {"clean", "collect", "unlock", "unmark", "list"}
Fits(S)  == Cardinality(S) <= MaxObjects
Promise ==
    \/ Dead # {}
    \/ \E c \in Compilers : pc[c] \in WillList
    \/ \E c \in Compilers : pc[c] \in {"prune", "unseal"} /\ Fits(Objects \ (Range(victims[c]) \cup Owed))
    \/ Fits(Objects \ Owed)

\* The directory lists the objects, and the temporaries on their way to a rename.
Listed ==
    /\ Range(byAge) \cap Keys = Objects
    /\ \A c \in Compilers : /\ pc[c] = "rename" => c \in Range(byAge)
                            /\ c \in Range(byAge) => pc[c] \in {"rename", "dead"}

\* Attempts are counted from the first marker on.
Attempts ==
    \A c \in Compilers :
        /\ pc[c] \in {"lookup", "build", "rename", "read", "publish"} => tries[c] = 0
        /\ pc[c] \in {"lock", "visible", "linkObject", "linkDigest", "verify"} => tries[c] > 0

BoundInv == TypeOK /\ Listed /\ Attempts /\ Promise

\* What the files' names are.
LEMMA FilesHaveNames ==
    ASSUME TypeOK
    PROVE  /\ byAge \in Seq(Files) /\ IsInjective(byAge) /\ Range(byAge) \subseteq Files
           /\ \A c \in Compilers : c \notin Keys /\ key[c] \in Keys
           /\ Objects \subseteq Keys /\ Dead \subseteq Compilers
<1>1. byAge \in Seq(Files) /\ IsInjective(byAge)
  BY DEF TypeOK, Files
<1>2. \A i \in DOMAIN byAge : byAge[i] \in Files
  BY <1>1, LenProperties, ElementOfSeq
<1>3. Range(byAge) \subseteq Files
  BY <1>2 DEF Range
<1> QED
  BY <1>1, <1>3, CacheAssumption DEF TypeOK, Objects, Dead

\* What preparing an object does to the names of the files.
LEMMA FilesOfBuild ==
    ASSUME TypeOK, Listed, NEW c \in Compilers, Build(c)
    PROVE  /\ byAge' \in Seq(Files) /\ IsInjective(byAge')
           /\ Range(byAge') = Range(byAge) \cup {c}
<1>1. c \notin Range(byAge) /\ c \in Files
  BY DEF Build, Goes, Listed, Files
<1> QED
  BY <1>1, FilesHaveNames, YoungestIsAdded DEF Build

LEMMA FilesWithout ==
    ASSUME TypeOK, NEW k
    PROVE  /\ Without(k) \in Seq(Files) /\ IsInjective(Without(k))
           /\ Range(Without(k)) = Range(byAge) \ {k}
<1>1. Range(byAge) \cap (Files \ {k}) = Range(byAge) \ {k}
  BY FilesHaveNames
<1> QED
  BY <1>1, FilesHaveNames, AmongIsSelection DEF Without

LEMMA FilesOfRename ==
    ASSUME TypeOK, Listed, NEW c \in Compilers, Rename(c)
    PROVE  /\ byAge' \in Seq(Files) /\ IsInjective(byAge')
           /\ Range(byAge') = (Range(byAge) \ {c}) \cup {key[c]}
<1> DEFINE q == Without(key[c])
<1>1. c \in Range(byAge) /\ c # key[c] /\ key[c] \in Files
  BY FilesHaveNames DEF Rename, Goes, Listed, Files
<1>2. /\ q \in Seq(Files) /\ IsInjective(q) /\ Range(q) = Range(byAge) \ {key[c]}
  BY FilesWithout
<1>3. c \in Range(q) /\ key[c] \notin Range(q) /\ byAge' = ReplaceAll(q, c, key[c])
  BY <1>1, <1>2 DEF Rename
<1> HIDE DEF q
<1> QED
  BY <1>1, <1>2, <1>3, PlaceIsKept

LEMMA FilesOfSweep ==
    ASSUME TypeOK, NEW c \in Compilers, Sweep(c)
    PROVE  /\ byAge' \in Seq(Files) /\ IsInjective(byAge')
           /\ Range(byAge') = Range(byAge) \ Dead
<1>1. Range(byAge) \cap (Files \ Dead) = Range(byAge) \ Dead
  BY FilesHaveNames
<1> QED
  BY <1>1, FilesHaveNames, AmongIsSelection DEF Sweep

\* The victims are the oldest objects but the compiler's own: all that are too many, or
\* all there are.
LEMMA VictimsAreEnough ==
    ASSUME TypeOK, Listed, NEW c \in Compilers, List(c)
    PROVE  /\ victims' = [victims EXCEPT ![c] = victims'[c]]
           /\ victims'[c] \in Seq(Keys)
           /\ Fits(Objects \ Range(victims'[c]))
<1> DEFINE others == Among(byAge, Keys \ {key[c]})
           n == IF Excess < Len(others) THEN Excess ELSE Len(others)
           v == SubSeq(others, 1, n)
<1>1. IsFiniteSet(Objects) /\ Cardinality(Objects) \in Nat /\ MaxObjects \in Nat \ {0}
  BY FilesHaveNames, CacheAssumption, FS_Subset, FS_CardinalityType
<1>2. Excess \in Nat /\ (Cardinality(Objects) - Excess <= MaxObjects)
  BY <1>1 DEF Excess
<1>3. /\ others \in Seq(Files) /\ IsInjective(others)
      /\ Range(others) = Objects \ {key[c]}
  <2>1. Range(byAge) \cap (Keys \ {key[c]}) = Objects \ {key[c]}
    BY DEF Listed
  <2> QED
    BY <2>1, FilesHaveNames, AmongIsSelection
<1>4. Len(others) \in Nat /\ DOMAIN others = 1 .. Len(others)
  BY <1>3, LenProperties
<1> HIDE DEF others
<1>5. others \in Seq(Keys)
  <2>1. \A i \in 1 .. Len(others) : others[i] \in Keys
    BY <1>3, <1>4, FilesHaveNames DEF Range
  <2>2. others = [i \in 1 .. Len(others) |-> others[i]]
    BY <1>3, LenProperties
  <2> QED
    BY <1>4, <2>1, <2>2
<1>6. n \in 0 .. Len(others)
  BY <1>2, <1>4
<1>7. v \in Seq(Keys) /\ Range(v) \subseteq Range(others) /\ Cardinality(Range(v)) = n
  <2> HIDE DEF n
  <2> QED
    BY <1>3, <1>5, <1>6, OldestAreCounted
<1>8. victims' = [victims EXCEPT ![c] = v]
  BY DEF List, others
<1>9. victims'[c] = v
  BY <1>8 DEF TypeOK
<1> HIDE DEF v
<1>10. /\ Range(v) \subseteq Objects
       /\ Cardinality(Objects \ Range(v)) = Cardinality(Objects) - n
  <2>1. Range(v) \subseteq Objects /\ Objects \cap Range(v) = Range(v)
    BY <1>3, <1>7
  <2>2. Cardinality(Objects \ Range(v)) = Cardinality(Objects) - Cardinality(Objects \cap Range(v))
    BY <1>1, FS_Difference
  <2> QED
    BY <1>7, <2>1, <2>2
<1>11. CASE Excess < Len(others)
  BY <1>1, <1>2, <1>8, <1>9, <1>7, <1>10, <1>11 DEF Fits
<1>12. CASE ~(Excess < Len(others))
  <2>1. n = Len(others) /\ Cardinality(Range(others)) = Len(others) /\ IsFiniteSet(Range(others))
    BY <1>3, <1>12, LengthIsCount
  <2>2. Range(v) = Range(others)
    BY <1>7, <2>1, FS_Subset
  <2>3. Objects \ Range(v) \subseteq {key[c]}
    BY <1>3, <2>2
  <2>4. Cardinality(Objects \ Range(v)) <= 1
    <3>1. IsFiniteSet({key[c]}) /\ Cardinality({key[c]}) = 1
      BY FS_Singleton
    <3> QED
      BY <2>3, <3>1, FS_Subset
  <2>5. Cardinality(Objects \ Range(v)) \in Nat
    BY <1>1, FS_Difference, FS_CardinalityType
  <2>6. Fits(Objects \ Range(v))
    BY <1>1, <2>4, <2>5 DEF Fits
  <2> QED
    BY <1>7, <1>8, <1>9, <2>6
<1> QED
  BY <1>11, <1>12
-----------------------------------------------------------------------------
(* The initial directory is within the bound.                              *)

LEMMA InitBound == Init => BoundInv
<1> SUFFICES ASSUME Init PROVE BoundInv
  OBVIOUS
<1> DEFINE n == Cardinality(Objects)
<1>1. IsFiniteSet(Objects) /\ n \in Nat /\ Objects \subseteq Keys
  BY CacheAssumption, FS_Subset, FS_CardinalityType DEF Objects
<1>2. /\ byAge \in [1 .. n -> Objects] /\ \A i, j \in 1 .. n : i # j => byAge[i] # byAge[j]
  BY DEF Init, SetToSeqs
<1>3. byAge \in Injection(1 .. n, Objects)
  BY <1>2 DEF Injection, IsInjective
<1>4. IsFiniteSet(1 .. n) /\ Cardinality(1 .. n) = n
  <2>1. 1 \in Int /\ n \in Int
    BY <1>1
  <2>2. /\ IsFiniteSet(1 .. n)
        /\ Cardinality(1 .. n) = IF 1 > n THEN 0 ELSE n - 1 + 1
    BY <2>1, FS_Interval
  <2> QED
    BY <1>1, <2>2
<1>5. byAge \in Surjection(1 .. n, Objects)
  <2> DEFINE b == byAge
             S == Objects
  <2>1. b \in Injection(1 .. n, S) /\ IsFiniteSet(S) /\ Cardinality(1 .. n) = Cardinality(S)
    BY <1>1, <1>3, <1>4
  <2> HIDE DEF b, S, n
  <2>2. b \in Surjection(1 .. n, S)
    BY <2>1, FS_Injection
  <2> QED
    BY <2>2 DEF b, S
<1>6. Range(byAge) = Objects
  BY <1>2, <1>5 DEF Surjection, Range
<1> HIDE DEF n
<1>7. byAge \in Seq(Keys \cup Compilers) /\ IsInjective(byAge)
  BY <1>1, <1>2 DEF IsInjective
<1>8. TypeOK
  <2>1. <<>> \in Seq(Keys)
    OBVIOUS
  <2> QED
    BY <1>7, <2>1, CacheAssumption DEF Init, TypeOK
<1>9. Listed
  BY <1>1, <1>6, CacheAssumption DEF Init, Listed
<1>10. Attempts
  BY DEF Init, Attempts
<1>11. Promise
  <2>1. Owed = {}
    BY DEF Init, Owed, Owes, Owing
  <2>2. Fits(Objects)
    BY DEF Init, Fits
  <2> QED
    BY <2>1, <2>2 DEF Promise
<1> QED
  BY <1>8, <1>9, <1>10, <1>11 DEF BoundInv

-----------------------------------------------------------------------------
(* Types.                                                                  *)

\* In three parts, each left alone by most steps.
Places == Leased \cup {"idle", "lookup", "build", "rename", "read", "publish", "mark", "lock",
                       "visible", "linkObject", "linkDigest", "verify", "drop", "failed", "dead"}
ProcTypes ==
    /\ pc \in [Compilers -> Places]
    /\ key \in [Compilers -> Keys] /\ built \in [Compilers -> BOOLEAN]
    /\ tries \in [Compilers -> 0 .. LeaseTries]
    /\ todo \in [Compilers -> SUBSET Compilers] /\ at \in [Compilers -> Compilers \cup {Nobody}]
    /\ victims \in [Compilers -> Seq(Keys)] /\ gone \in [Compilers -> Keys \cup {Nobody}]
CacheTypes ==
    /\ object \in [Keys -> {"none", "good", "bad"}] /\ digest \in [Keys -> {"none", "good"}]
    /\ byAge \in Seq(Files) /\ IsInjective(byAge)
LeaseTypes ==
    /\ temp \subseteq Compilers /\ marker \subseteq Compilers /\ shared \subseteq Compilers
    /\ probed \in [Compilers -> SUBSET Compilers]
    /\ snapshot \in [Compilers -> {"none", "good", "bad"}]
    /\ seal \in [Compilers -> {"none", "good"}]

LEMMA TypesInParts ==
    /\ TypeOK <=> ProcTypes /\ CacheTypes /\ LeaseTypes /\ crashes \in 0 .. MaxCrashes
    /\ TypeOK' <=> ProcTypes' /\ CacheTypes' /\ LeaseTypes' /\ (crashes \in 0 .. MaxCrashes)'
  BY Zenon DEF TypeOK, ProcTypes, CacheTypes, LeaseTypes, Places, Files

LEMMA CacheTypesStay == ASSUME CacheTypes, UNCHANGED cacheVars PROVE CacheTypes'
  BY DEF CacheTypes, cacheVars

LEMMA LeaseTypesStay == ASSUME LeaseTypes, UNCHANGED <<leaseVars, temp>> PROVE LeaseTypes'
  BY DEF LeaseTypes, leaseVars

LEMMA ProcTypesStay ==
    ASSUME ProcTypes, NEW c \in Compilers, NEW x \in Places, pc' = [pc EXCEPT ![c] = x],
           key' \in [Compilers -> Keys], built' \in [Compilers -> BOOLEAN],
           tries' = tries \/ tries' = [tries EXCEPT ![c] = 0],
           todo' \in [Compilers -> SUBSET Compilers], at' \in [Compilers -> Compilers \cup {Nobody}],
           UNCHANGED <<victims, gone>>
    PROVE  ProcTypes'
<1>1. 0 \in 0 .. LeaseTries
  BY CacheAssumption
<1>2. tries \in [Compilers -> 0 .. LeaseTries]
  BY DEF ProcTypes
<1>3. tries' \in [Compilers -> 0 .. LeaseTries]
  <2> DEFINE S == 0 .. LeaseTries
  <2> HIDE DEF S
  <2>1. 0 \in S /\ tries \in [Compilers -> S]
    BY <1>1, <1>2 DEF S
  <2>2. tries' \in [Compilers -> S]
    BY <2>1
  <2> QED
    BY <2>2 DEF S
<1> QED
  BY <1>3 DEF ProcTypes

LEMMA TypesOfBuild ==
    ASSUME TypeOK, Listed, NEW c \in Compilers,
           Start(c) \/ Lookup(c) \/ Build(c) \/ Rename(c) \/ ReadBack(c) \/ Publish(c)
    PROVE  TypeOK'
<1>1. ProcTypes /\ CacheTypes /\ LeaseTypes /\ crashes \in 0 .. MaxCrashes
  BY TypesInParts
<1>2. crashes' = crashes
  BY DEF Start, Lookup, Build, Rename, ReadBack, Publish
<1>3. ProcTypes'
  <2>1. /\ key' \in [Compilers -> Keys] /\ built' \in [Compilers -> BOOLEAN]
        /\ tries' = tries \/ tries' = [tries EXCEPT ![c] = 0]
        /\ UNCHANGED <<todo, at, victims, gone>>
    BY <1>1 DEF Start, Lookup, Build, Rename, ReadBack, Publish, ProcTypes
  <2>2. \E x \in {"lookup", "mark", "build", "rename", "read", "publish", "failed"} :
            pc' = [pc EXCEPT ![c] = x]
    BY DEF Goes, Start, Lookup, Build, Rename, ReadBack, Publish
  <2> QED
    BY <1>1, <2>1, <2>2, ProcTypesStay DEF ProcTypes, Places
<1>4. LeaseTypes'
  BY <1>1 DEF Start, Lookup, Build, Rename, ReadBack, Publish, LeaseTypes, leaseVars
<1>5. CacheTypes'
  <2>1. CASE Start(c) \/ Lookup(c) \/ ReadBack(c)
    BY <1>1, <2>1, CacheTypesStay DEF Start, Lookup, ReadBack
  <2>2. CASE Build(c)
    BY <1>1, <2>2, FilesOfBuild DEF Build, CacheTypes
  <2>3. CASE Rename(c)
    BY <1>1, <2>3, FilesOfRename DEF Rename, CacheTypes
  <2>4. CASE Publish(c)
    BY <1>1, <2>4 DEF Publish, Sealed, CacheTypes
  <2> QED
    BY <2>1, <2>2, <2>3, <2>4
<1> QED
  BY <1>1, <1>2, <1>3, <1>4, <1>5, TypesInParts

LEMMA TypesOfLease ==
    ASSUME TypeOK, NEW c \in Compilers,
           \/ Mark(c) \/ GiveUp(c) \/ Lock(c) \/ Visible(c)
           \/ LinkObject(c) \/ LinkDigest(c) \/ Verify(c)
    PROVE  TypeOK'
<1>1. ProcTypes /\ CacheTypes /\ LeaseTypes /\ crashes \in 0 .. MaxCrashes
  BY TypesInParts
<1>2. crashes' = crashes /\ UNCHANGED cacheVars
  BY DEF Mark, GiveUp, Lock, Visible, LinkObject, LinkDigest, Verify
<1>3. ProcTypes'
  <2>1. CASE Mark(c)
    <3>1. tries' \in [Compilers -> 0 .. LeaseTries]
      BY <1>1, <2>1, CacheAssumption DEF Mark, Another, ProcTypes
    <3>2. pc' \in [Compilers -> Places]
      BY <1>1, <2>1 DEF Mark, ProcTypes, Places, Leased
    <3>3. todo' \in [Compilers -> SUBSET Compilers] /\ at' \in [Compilers -> Compilers \cup {Nobody}]
      BY <1>1, <2>1 DEF Mark, ProcTypes
    <3>4. UNCHANGED <<key, built, victims, gone>>
      BY <2>1 DEF Mark
    <3> QED
      BY <1>1, <3>1, <3>2, <3>3, <3>4 DEF ProcTypes
  <2>2. CASE ~Mark(c)
    <3>1. \E x \in {"failed", "visible", "linkObject", "mark", "linkDigest", "verify", "clean",
                     "lookup", "build"} : pc' = [pc EXCEPT ![c] = x]
      BY <2>2 DEF GiveUp, Lock, Visible, LinkObject, LinkDigest, Verify, Goes, Retry
    <3>2. /\ key' = key /\ at' = at /\ UNCHANGED <<victims, gone>>
          /\ tries' = tries \/ tries' = [tries EXCEPT ![c] = 0]
          /\ built' = built \/ built' = [built EXCEPT ![c] = FALSE]
          /\ todo' = todo \/ todo' = [todo EXCEPT ![c] = marker \ {c}]
      BY <2>2 DEF GiveUp, Lock, Visible, LinkObject, LinkDigest, Verify, Retry
    <3>3. /\ key' \in [Compilers -> Keys] /\ built' \in [Compilers -> BOOLEAN]
          /\ todo' \in [Compilers -> SUBSET Compilers] /\ at' \in [Compilers -> Compilers \cup {Nobody}]
      <4>1. key' \in [Compilers -> Keys] /\ at' \in [Compilers -> Compilers \cup {Nobody}]
        BY <1>1, <3>2 DEF ProcTypes
      <4>2. built' \in [Compilers -> BOOLEAN]
        BY <1>1, <3>2 DEF ProcTypes
      <4>3. todo \in [Compilers -> SUBSET Compilers] /\ marker \ {c} \in SUBSET Compilers
        BY <1>1 DEF ProcTypes, LeaseTypes
      <4>4. todo' \in [Compilers -> SUBSET Compilers]
        BY <3>2, <4>3
      <4> QED
        BY <4>1, <4>2, <4>4
    <3> QED
      BY <1>1, <3>1, <3>2, <3>3, ProcTypesStay DEF ProcTypes, Places, Leased
  <2> QED
    BY <2>1, <2>2
<1>4. LeaseTypes'
  <2>1. CASE Mark(c) \/ GiveUp(c) \/ Lock(c)
    BY <1>1, <2>1 DEF Mark, GiveUp, Lock, LeaseTypes, leaseVars
  <2>2. ASSUME Released(c), temp' = temp PROVE LeaseTypes'
    BY <1>1, <2>2 DEF Released, LeaseTypes
  <2>3. CASE Visible(c)
    BY <1>1, <2>2, <2>3, LeaseTypesStay DEF Visible
  <2>4. CASE LinkObject(c)
    <3>1. CASE object[key[c]] = "none"
      BY <2>2, <2>4, <3>1 DEF LinkObject, Retry
    <3>2. CASE object[key[c]] # "none"
      <4>1. object[key[c]] \in {"none", "good", "bad"}
        BY <1>1 DEF ProcTypes, CacheTypes
      <4> QED
        BY <1>1, <2>4, <3>2, <4>1 DEF LinkObject, LeaseTypes
    <3> QED
      BY <3>1, <3>2
  <2>5. CASE LinkDigest(c)
    <3>1. CASE digest[key[c]] = "none"
      BY <2>2, <2>5, <3>1 DEF LinkDigest, Retry
    <3>2. CASE digest[key[c]] # "none"
      <4>1. digest[key[c]] \in {"none", "good"}
        BY <1>1 DEF ProcTypes, CacheTypes
      <4> QED
        BY <1>1, <2>5, <3>2, <4>1 DEF LinkDigest, LeaseTypes
    <3> QED
      BY <3>1, <3>2
  <2>6. CASE Verify(c)
    BY <1>1, <2>2, <2>6, LeaseTypesStay DEF Verify, Retry
  <2> QED
    BY <2>1, <2>3, <2>4, <2>5, <2>6
<1> QED
  BY <1>1, <1>2, <1>3, <1>4, CacheTypesStay, TypesInParts

LEMMA TypesOfPrune ==
    ASSUME TypeOK, Listed, NEW c \in Compilers,
           \/ Probe(c) \/ Collect(c) \/ Unlock(c) \/ Unmark(c) \/ Sweep(c) \/ List(c)
           \/ PruneObject(c) \/ PruneDigest(c) \/ Link(c) \/ Drop(c) \/ DropMarker(c) \/ Crash(c)
    PROVE  TypeOK'
<1>1. ProcTypes /\ CacheTypes /\ LeaseTypes /\ crashes \in 0 .. MaxCrashes
  BY TypesInParts
<1>2. crashes' \in 0 .. MaxCrashes
  <2>1. crashes' = crashes \/ (crashes < MaxCrashes /\ crashes' = crashes + 1)
    BY DEF Probe, Collect, Unlock, Unmark, Sweep, List, PruneObject, PruneDigest, Link, Drop,
           DropMarker, Crash
  <2> QED
    BY <1>1, <2>1, CacheAssumption
<1>3. LeaseTypes'
  <2>1. CASE Probe(c)
    <3>1. /\ UNCHANGED <<marker, shared, snapshot, seal, temp>>
          /\ probed' = probed \/ \E d \in todo[c] : probed' = [probed EXCEPT ![d] = @ \cup {c}]
      BY <2>1 DEF Probe
    <3>2. \A d \in todo[c] : d \in Compilers
      BY <1>1 DEF ProcTypes
    <3>3. probed' \in [Compilers -> SUBSET Compilers]
      BY <1>1, <3>1, <3>2 DEF LeaseTypes
    <3> QED
      BY <1>1, <3>1, <3>3 DEF LeaseTypes
  <2>2. CASE Collect(c) \/ Unlock(c) \/ Unmark(c)
    BY <1>1, <2>2 DEF Collect, Unlock, Unmark, LeaseTypes
  <2>3. CASE Drop(c) \/ DropMarker(c) \/ Crash(c)
    BY <1>1, <2>3 DEF Drop, DropMarker, Crash, LeaseTypes
  <2>4. CASE Sweep(c) \/ List(c) \/ PruneObject(c) \/ PruneDigest(c) \/ Link(c)
    BY <1>1, <2>4 DEF Sweep, List, PruneObject, PruneDigest, Link, LeaseTypes, leaseVars
  <2> QED
    BY <2>1, <2>2, <2>3, <2>4
<1>4. pc' \in [Compilers -> Places]
  <2>1. pc' = pc \/ \E x \in {"collect", "unlock", "unmark", "clean", "list", "prune", "unseal",
                               "link", "drop", "idle", "dead"} : pc' = [pc EXCEPT ![c] = x]
    BY DEF Goes, Probe, Collect, Unlock, Unmark, Sweep, List, PruneObject, PruneDigest, Link,
           Drop, DropMarker, Crash
  <2> QED
    BY <1>1, <2>1 DEF ProcTypes, Places, Leased
<1>5. key' \in [Compilers -> Keys] /\ built' \in [Compilers -> BOOLEAN]
      /\ tries' \in [Compilers -> 0 .. LeaseTries]
  <2>1. UNCHANGED <<key, built, tries>>
    BY DEF Probe, Collect, Unlock, Unmark, Sweep, List, PruneObject, PruneDigest, Link,
           Drop, DropMarker, Crash
  <2> QED
    BY <1>1, <2>1 DEF ProcTypes
<1>6. todo' \in [Compilers -> SUBSET Compilers] /\ at' \in [Compilers -> Compilers \cup {Nobody}]
  <2>1. CASE Probe(c)
    <3>1. PICK d \in todo[c] : /\ todo' = [todo EXCEPT ![c] = todo[c] \ {d}]
                              /\ (at' = at \/ at' = [at EXCEPT ![c] = d])
      BY <2>1 DEF Probe
    <3>2. d \in Compilers
      BY <1>1 DEF ProcTypes
    <3>3. todo' \in [Compilers -> SUBSET Compilers]
      <4>1. todo \in [Compilers -> SUBSET Compilers] /\ todo[c] \ {d} \in SUBSET Compilers
        BY <1>1 DEF ProcTypes
      <4> QED
        BY <3>1, <4>1
    <3>4. at' \in [Compilers -> Compilers \cup {Nobody}]
      BY <1>1, <3>1, <3>2 DEF ProcTypes
    <3> QED
      BY <3>3, <3>4
  <2>2. CASE ~Probe(c)
    <3>1. /\ todo' = todo \/ todo' = [todo EXCEPT ![c] = {}]
          /\ at' = at \/ at' = [at EXCEPT ![c] = Nobody]
      BY <2>2 DEF Collect, Unlock, Unmark, Sweep, List, PruneObject, PruneDigest, Link,
             Drop, DropMarker, Crash
    <3> QED
      BY <1>1, <3>1 DEF ProcTypes
  <2> QED
    BY <2>1, <2>2
<1>7. victims' \in [Compilers -> Seq(Keys)]
  <2>1. CASE List(c)
    BY <1>1, <2>1, VictimsAreEnough DEF ProcTypes
  <2>2. CASE PruneObject(c)
    <3>1. Tail(victims[c]) \in Seq(Keys)
      BY <1>1, <2>2, HeadIsTaken DEF PruneObject, ProcTypes
    <3> QED
      BY <1>1, <2>2, <3>1 DEF PruneObject, ProcTypes
  <2>3. CASE ~List(c) /\ ~PruneObject(c)
    <3>1. victims' = victims \/ victims' = [victims EXCEPT ![c] = <<>>]
      BY <2>3 DEF Probe, Collect, Unlock, Unmark, Sweep, PruneDigest, Link, Drop, DropMarker, Crash
    <3>2. <<>> \in Seq(Keys)
      OBVIOUS
    <3> QED
      BY <1>1, <3>1, <3>2 DEF ProcTypes
  <2> QED
    BY <2>1, <2>2, <2>3
<1>8. gone' \in [Compilers -> Keys \cup {Nobody}] /\ CacheTypes'
  <2>1. CASE Sweep(c)
    BY <1>1, <2>1, FilesOfSweep DEF Sweep, ProcTypes, CacheTypes
  <2>2. CASE PruneObject(c)
    <3> DEFINE k == Head(victims[c])
    <3>1. k \in Keys
      BY <1>1, <2>2, HeadIsTaken DEF PruneObject, ProcTypes
    <3>2. CASE object[k] = "none"
      BY <1>1, <2>2, <3>2 DEF PruneObject, ProcTypes, CacheTypes
    <3>3. CASE object[k] # "none"
      <4>1. /\ object' = [object EXCEPT ![k] = "none"] /\ gone' = [gone EXCEPT ![c] = k]
            /\ byAge' = Without(k) /\ digest' = digest
        BY <2>2, <3>3 DEF PruneObject
      <4> HIDE DEF k
      <4> QED
        BY <1>1, <3>1, <4>1, FilesWithout DEF ProcTypes, CacheTypes
    <3> QED
      BY <3>2, <3>3
  <2>3. CASE PruneDigest(c)
    BY <1>1, <2>3 DEF PruneDigest, ProcTypes, CacheTypes
  <2>4. CASE ~Sweep(c) /\ ~PruneObject(c) /\ ~PruneDigest(c)
    <3>1. UNCHANGED cacheVars /\ (gone' = gone \/ gone' = [gone EXCEPT ![c] = Nobody])
      BY <2>4 DEF Probe, Collect, Unlock, Unmark, List, Link, Drop, DropMarker, Crash
    <3> QED
      BY <1>1, <3>1, CacheTypesStay DEF ProcTypes
  <2> QED
    BY <2>1, <2>2, <2>3, <2>4
<1>9. ProcTypes'
  BY <1>4, <1>5, <1>6, <1>7, <1>8 DEF ProcTypes
<1> QED
  BY <1>2, <1>3, <1>8, <1>9, TypesInParts
-----------------------------------------------------------------------------
(* The listing of the directory, and the count of attempts.                *)

\* A step that touches no file, whoever goes on.
LEMMA ListingStays ==
    ASSUME TypeOK, Listed, byAge' = byAge, object' = object,
           \A d \in Compilers : \/ pc'[d] = pc[d]
                                \/ pc[d] = "rename" /\ pc'[d] = "dead"
                                \/ pc[d] \notin {"rename", "dead"} /\ pc'[d] # "rename"
    PROVE  Listed'
<1>1. Objects' = Objects /\ Range(byAge') = Range(byAge)
  BY DEF Objects
<1> QED
  BY <1>1 DEF Listed

LEMMA ListedPreserved ==
    ASSUME IInv, TypeOK, Listed, NEW c \in Compilers, Start(c) \/ Step(c) \/ Crash(c)
    PROVE  Listed'
<1>0. /\ pc \in [Compilers -> Places] /\ Range(byAge) \subseteq Files
      /\ \A d \in Compilers : d \notin Keys /\ key[d] \in Keys
      /\ Objects \subseteq Keys /\ Dead \subseteq Compilers
  BY TypesInParts, FilesHaveNames DEF ProcTypes
<1>1. CASE Build(c)
  <2>1. Range(byAge') = Range(byAge) \cup {c} /\ Objects' = Objects
    BY <1>1, FilesOfBuild DEF Build, Objects
  <2>2. pc' = [pc EXCEPT ![c] = "rename"]
    BY <1>1 DEF Build, Goes
  <2> QED
    BY <1>0, <2>1, <2>2 DEF Listed
<1>2. CASE Rename(c)
  <2>1. Range(byAge') = (Range(byAge) \ {c}) \cup {key[c]}
    BY <1>2, FilesOfRename
  <2>2. Objects' = Objects \cup {key[c]}
    <3>1. object' = [object EXCEPT ![key[c]] = "good"] /\ DOMAIN object = Keys
      BY <1>2, TypesInParts DEF Rename, CacheTypes
    <3> QED
      BY <1>0, <3>1 DEF Objects
  <2>3. pc' = [pc EXCEPT ![c] = "read"]
    BY <1>2 DEF Rename, Goes
  <2> QED
    BY <1>0, <2>1, <2>2, <2>3 DEF Listed
<1>3. CASE Sweep(c)
  <2>1. Range(byAge') = Range(byAge) \ Dead /\ Objects' = Objects
    BY <1>3, FilesOfSweep DEF Sweep, Objects
  <2>2. pc[c] = "clean" /\ pc' = [pc EXCEPT ![c] = "list"]
    BY <1>3 DEF Sweep, Goes
  <2>3. \A d \in Compilers : pc[d] = "rename" => d \notin Dead
    BY DEF Dead
  <2> QED
    BY <1>0, <2>1, <2>2, <2>3 DEF Listed
<1>4. CASE PruneObject(c)
  <2> DEFINE k == Head(victims[c])
  <2>1. k \in Keys
    BY <1>4, HeadIsTaken DEF PruneObject, TypeOK
  <2>2. CASE object[k] = "none"
    <3>1. UNCHANGED <<pc, object, byAge>>
      BY <1>4, <2>2 DEF PruneObject
    <3> QED
      BY <3>1, ListingStays
  <2>3. CASE object[k] # "none"
    <3>1. /\ pc[c] = "prune" /\ pc' = [pc EXCEPT ![c] = "unseal"]
          /\ object' = [object EXCEPT ![k] = "none"] /\ byAge' = Without(k)
      BY <1>4, <2>3 DEF PruneObject, Goes
    <3> HIDE DEF k
    <3>2. Objects' = Objects \ {k}
      <4>1. DOMAIN object = Keys
        BY TypesInParts DEF CacheTypes
      <4> QED
        BY <2>1, <3>1, <4>1 DEF Objects
    <3>3. Range(byAge') = Range(byAge) \ {k}
      BY <3>1, FilesWithout
    <3> QED
      BY <1>0, <2>1, <3>1, <3>2, <3>3 DEF Listed
  <2> QED
    BY <2>2, <2>3
<1>5. CASE Mark(c)
  <2>1. UNCHANGED <<byAge, object>> /\ pc[c] = "mark" /\ pc'[c] = "lock"
    BY <1>0, <1>5 DEF Mark, cacheVars
  <2>2. \A d \in Compilers \ {c} :
            pc'[d] = pc[d] \/ (pc[d] \in Collecting /\ pc'[d] = "clean")
    <3>1. \A d \in Compilers : at[d] = c => pc[d] \in Collecting
      BY CacheAssumption DEF IInv, CollectorsLock
    <3>2. \A d \in Compilers \ {c} : pc'[d] = IF at[d] = c THEN "clean" ELSE pc[d]
      BY <1>5 DEF Mark
    <3>3. ASSUME NEW d \in Compilers \ {c}
          PROVE  pc'[d] = pc[d] \/ (pc[d] \in Collecting /\ pc'[d] = "clean")
      <4>1. CASE at[d] = c
        BY <3>1, <3>2, <4>1
      <4>2. CASE at[d] # c
        BY <3>2, <4>2
      <4> QED
        BY <4>1, <4>2
    <3> QED
      BY <3>3
  <2> QED
    BY <2>1, <2>2, ListingStays DEF Collecting
<1>6. CASE Crash(c)
  <2>1. UNCHANGED <<byAge, object>> /\ pc[c] # "dead" /\ pc' = [pc EXCEPT ![c] = "dead"]
    BY <1>6 DEF Crash, cacheVars
  <2> QED
    BY <1>0, <2>1, ListingStays
<1>7. CASE ~(Build(c) \/ Rename(c) \/ Sweep(c) \/ PruneObject(c) \/ Mark(c) \/ Crash(c))
  <2>1. UNCHANGED <<byAge, object>>
    BY <1>7 DEF Step, Start, Lookup, ReadBack, Publish, GiveUp, Lock, Visible, LinkObject, LinkDigest,
       Verify, Probe, Collect, Unlock, Unmark, List, PruneDigest, Link, Drop, DropMarker, cacheVars
  <2>2. pc[c] \notin {"rename", "dead"}
    BY <1>7 DEF Goes, Step, Start, Lookup, ReadBack, Publish, GiveUp, Lock, Visible, LinkObject,
       LinkDigest, Verify, Probe, Collect, Unlock, Unmark, List, PruneDigest, Link, Drop, DropMarker
  <2>3. pc' = pc \/ \E x \in Places \ {"rename"} : pc' = [pc EXCEPT ![c] = x]
    <3>1. pc' = pc \/ \E x \in {"lookup", "mark", "build", "read", "publish", "failed", "visible",
                               "linkObject", "linkDigest", "verify", "clean", "collect", "unlock",
                               "unmark", "list", "prune", "unseal", "link", "drop", "idle"} :
                          pc' = [pc EXCEPT ![c] = x]
      BY <1>7 DEF Goes, Step, Start, Lookup, ReadBack, Publish, GiveUp, Lock, Visible, LinkObject,
         LinkDigest, Verify, Retry, Probe, Collect, Unlock, Unmark, List, PruneDigest, Link, Drop,
         DropMarker
    <3> QED
      BY <3>1 DEF Places, Leased
  <2> QED
    BY <1>0, <2>1, <2>2, <2>3, ListingStays
<1> QED
  BY <1>1, <1>2, <1>3, <1>4, <1>5, <1>6, <1>7

LEMMA AttemptsPreserved ==
    ASSUME IInv, TypeOK, Attempts, NEW c \in Compilers, Start(c) \/ Step(c) \/ Crash(c)
    PROVE  Attempts'
<1> DEFINE Zero == {"lookup", "build", "rename", "read", "publish"}
           Some == {"lock", "visible", "linkObject", "linkDigest", "verify"}
<1>0. pc \in [Compilers -> Places] /\ tries \in [Compilers -> 0 .. LeaseTries] /\ LeaseTries \in Nat
  BY TypesInParts, CacheAssumption DEF ProcTypes
<1>1. CASE Mark(c)
  <2>1. pc'[c] = "lock" /\ tries' = [tries EXCEPT ![c] = @ + 1]
    BY <1>0, <1>1 DEF Mark
  <2>2. \A d \in Compilers \ {c} : pc'[d] = pc[d] \/ pc'[d] = "clean"
    BY <1>0, <1>1 DEF Mark
  <2>3. tries'[c] > 0 /\ \A d \in Compilers \ {c} : tries'[d] = tries[d]
    BY <1>0, <2>1
  <2> QED
    BY <2>1, <2>2, <2>3 DEF Attempts
<1>2. CASE ~Mark(c)
  <2>1. \/ pc' = pc /\ tries' = tries
        \/ \E x \in Zero : pc' = [pc EXCEPT ![c] = x] /\ tries' = [tries EXCEPT ![c] = 0]
        \/ \E x \in Zero : pc' = [pc EXCEPT ![c] = x] /\ tries' = tries /\ pc[c] \in Zero
        \/ \E x \in Some : pc' = [pc EXCEPT ![c] = x] /\ tries' = tries /\ pc[c] \in Some
        \/ \E x \in Places \ (Zero \cup Some) :
              pc' = [pc EXCEPT ![c] = x] /\ (tries' = tries \/ tries' = [tries EXCEPT ![c] = 0])
    <3>1. CASE Start(c) \/ Lookup(c) \/ Build(c) \/ Rename(c) \/ ReadBack(c) \/ Publish(c)
      BY <3>1 DEF Goes, Start, Lookup, Build, Rename, ReadBack, Publish, Places
    <3>2. CASE GiveUp(c) \/ Lock(c) \/ Visible(c) \/ LinkObject(c) \/ LinkDigest(c) \/ Verify(c)
      BY <3>2 DEF Goes, GiveUp, Lock, Visible, LinkObject, LinkDigest, Verify, Retry, Places, Leased
    <3>3. CASE \/ Probe(c) \/ Collect(c) \/ Unlock(c) \/ Unmark(c) \/ Sweep(c) \/ List(c)
               \/ PruneObject(c) \/ PruneDigest(c) \/ Link(c) \/ Drop(c) \/ DropMarker(c) \/ Crash(c)
      BY <3>3 DEF Goes, Probe, Collect, Unlock, Unmark, Sweep, List, PruneObject, PruneDigest, Link,
         Drop, DropMarker, Crash, Places, Leased
    <3> QED
      BY <1>2, <3>1, <3>2, <3>3 DEF Step
  <2> QED
    BY <1>0, <2>1 DEF Attempts
<1> QED
  BY <1>1, <1>2
-----------------------------------------------------------------------------
(* The promise of a pruning.                                               *)

\* Fewer objects fit as well.
LEMMA FewerFit ==
    ASSUME NEW S \in SUBSET Keys, NEW T \in SUBSET S, Fits(S)
    PROVE  Fits(T)
<1>1. IsFiniteSet(S) /\ Cardinality(T) <= Cardinality(S)
  BY CacheAssumption, FS_Subset
<1>2. Cardinality(S) \in Nat /\ Cardinality(T) \in Nat
  BY <1>1, FS_Subset, FS_CardinalityType
<1> QED
  BY <1>1, <1>2, CacheAssumption DEF Fits

\* A compiler that keeps on owing lets nothing go, and neither do the others.
LEMMA OwedStays ==
    ASSUME TypeOK, NEW c \in Compilers, NEW x, pc' = [pc EXCEPT ![c] = x],
           Owes(c) => Owes(c)' /\ key'[c] = key[c],
           \A d \in Compilers \ {c} :
               key'[d] = key[d] /\ tries'[d] = tries[d] /\ (d \in marker => d \in marker')
    PROVE  Owed \subseteq Owed'
<1>1. ASSUME NEW d \in Compilers, Owes(d) PROVE Owes(d)' /\ key'[d] = key[d]
  <2>1. CASE d = c
    BY <1>1, <2>1
  <2>2. CASE d # c
    <3>1. pc'[d] = pc[d]
      BY <2>2 DEF TypeOK
    <3> QED
      BY <1>1, <2>2, <3>1 DEF Owes, ToldOff
  <2> QED
    BY <2>1, <2>2
<1> QED
  BY <1>1 DEF Owed

\* A step of a compiler that is not pruning, or goes to list: no object is left uncovered.
LEMMA PromiseStays ==
    ASSUME TypeOK, Promise, NEW c \in Compilers, NEW x,
           pc' = [pc EXCEPT ![c] = x], pc[c] # "dead",
           pc[c] \in WillList \cup {"prune", "unseal"} => x \in WillList \cup {"dead"},
           victims' = [victims EXCEPT ![c] = victims'[c]],
           x \in WillList \cup {"dead"} \/ Objects' \ Owed' \subseteq Objects \ Owed
    PROVE  Promise'
<1>0. pc'[c] = x /\ \A d \in Compilers \ {c} : pc'[d] = pc[d] /\ victims'[d] = victims[d]
  BY DEF TypeOK
<1>1. CASE x \in WillList \cup {"dead"}
  BY <1>0, <1>1 DEF Promise, Dead
<1>2. CASE x \notin WillList \cup {"dead"}
  <2>1. pc[c] \notin WillList \cup {"prune", "unseal"} /\ Objects' \ Owed' \subseteq Objects \ Owed
    BY <1>2
  <2>2. CASE Dead # {}
    <3>1. PICK d \in Compilers : pc[d] = "dead"
      BY <2>2 DEF Dead
    <3> QED
      BY <1>0, <3>1 DEF Promise, Dead
  <2>3. CASE \E d \in Compilers : pc[d] \in WillList
    BY <1>0, <2>1, <2>3 DEF Promise
  <2>4. CASE \E d \in Compilers : /\ pc[d] \in {"prune", "unseal"}
                                  /\ Fits(Objects \ (Range(victims[d]) \cup Owed))
    <3>1. PICK d \in Compilers : /\ pc[d] \in {"prune", "unseal"}
                                 /\ Fits(Objects \ (Range(victims[d]) \cup Owed))
      BY <2>4
    <3>2. pc'[d] = pc[d] /\ victims'[d] = victims[d]
      BY <1>0, <2>1, <3>1
    <3>3. Objects' \ (Range(victims'[d]) \cup Owed') \subseteq Objects \ (Range(victims[d]) \cup Owed)
      BY <2>1, <3>2
    <3>4. Fits(Objects' \ (Range(victims'[d]) \cup Owed'))
      BY <3>1, <3>3, FewerFit DEF Objects
    <3> QED
      BY <3>1, <3>2, <3>4 DEF Promise
  <2>5. CASE Fits(Objects \ Owed)
    <3>1. Fits(Objects' \ Owed')
      BY <2>1, <2>5, FewerFit DEF Objects
    <3> QED
      BY <3>1 DEF Promise
  <2> QED
    BY <2>2, <2>3, <2>4, <2>5 DEF Promise
<1> QED
  BY <1>1, <1>2

\* The object to be is owed from the rename on.
LEMMA PromiseOfBuild ==
    ASSUME BoundInv, NEW c \in Compilers,
           Start(c) \/ Lookup(c) \/ Build(c) \/ Rename(c) \/ ReadBack(c) \/ Publish(c)
    PROVE  Promise'
<1>0. /\ TypeOK /\ Promise /\ Attempts
      /\ pc \in [Compilers -> Places] /\ DOMAIN object = Keys /\ key \in [Compilers -> Keys]
      /\ tries \in [Compilers -> 0 .. LeaseTries]
  BY TypesInParts DEF BoundInv, ProcTypes, CacheTypes
<1>1. PICK x \in {"lookup", "mark", "build", "rename", "read", "publish", "failed"} :
          pc' = [pc EXCEPT ![c] = x]
  BY DEF Goes, Start, Lookup, Build, Rename, ReadBack, Publish
<1>2. /\ pc[c] \in {"idle", "failed", "lookup", "build", "rename", "read", "publish"}
      /\ victims' = victims /\ marker' = marker /\ tries' = [tries EXCEPT ![c] = tries'[c]]
      /\ key' = [key EXCEPT ![c] = key'[c]]
  BY <1>0 DEF Goes, Start, Lookup, Build, Rename, ReadBack, Publish, leaseVars
<1>3. victims' = [victims EXCEPT ![c] = victims'[c]]
  BY <1>0, <1>2 DEF TypeOK
<1>4. pc'[c] = x /\ pc[c] \notin WillList \cup {"prune", "unseal", "dead"}
  BY <1>0, <1>1, <1>2 DEF WillList
<1>5. \A d \in Compilers \ {c} :
          key'[d] = key[d] /\ tries'[d] = tries[d] /\ (d \in marker => d \in marker')
  BY <1>0, <1>2
<1>6. CASE Start(c)
  <2>1. ~Owes(c) /\ Objects' = Objects
    BY <1>6 DEF Start, Goes, Owes, Owing, cacheVars, Objects
  <2>2. Owed \subseteq Owed'
    BY <1>0, <1>1, <1>5, <2>1, OwedStays
  <2> QED
    BY <1>0, <1>1, <1>3, <1>4, <2>1, <2>2, PromiseStays
<1>7. CASE Lookup(c) \/ Build(c) \/ Rename(c) \/ Publish(c)
  <2>1. key' = key /\ x \in {"build", "mark", "rename", "read"} /\ tries'[c] = 0
    BY <1>0, <1>4, <1>7 DEF Lookup, Build, Rename, Publish, Goes, Attempts
  <2>2. Owes(c)'
    BY <1>4, <2>1 DEF Owes, Owing, ToldOff
  <2>3. Owed \subseteq Owed' /\ key[c] \in Owed'
    <3>1. Owed \subseteq Owed'
      BY <1>0, <1>1, <1>5, <2>1, <2>2, OwedStays
    <3>2. key'[c] \in Owed'
      BY <2>2 DEF Owed
    <3> QED
      BY <2>1, <3>1, <3>2
  <2>4. Objects' \subseteq Objects \cup {key[c]}
    BY <1>0, <1>7 DEF Lookup, Build, Rename, Publish, cacheVars, Objects
  <2>5. Objects' \ Owed' \subseteq Objects \ Owed
    BY <2>3, <2>4
  <2> QED
    BY <1>0, <1>1, <1>3, <1>4, <2>5, PromiseStays
<1>8. CASE ReadBack(c)
  <2>1. key' = key /\ Objects' = Objects /\ tries' = tries
    BY <1>8 DEF ReadBack, cacheVars, Objects
  <2>2. CASE object[key[c]] = "none"
    <3>1. \A d \in Compilers \ {c} : Owes(d) => Owes(d)'
      BY <1>0, <1>1, <1>2, <2>1 DEF Owes, ToldOff
    <3>2. \A k \in Owed : k = key[c] \/ k \in Owed'
      BY <2>1, <3>1 DEF Owed
    <3>3. key[c] \notin Objects
      BY <2>2 DEF Objects
    <3>4. Objects' \ Owed' \subseteq Objects \ Owed
      BY <2>1, <3>2, <3>3
    <3> QED
      BY <1>0, <1>1, <1>3, <1>4, <3>4, PromiseStays
  <2>3. CASE object[key[c]] # "none"
    <3>1. x = "publish"
      BY <1>0, <1>4, <1>8, <2>3 DEF ReadBack, Goes
    <3>2. Owes(c)'
      BY <1>4, <3>1 DEF Owes, Owing, ToldOff
    <3>3. Owed \subseteq Owed'
      BY <1>0, <1>1, <1>5, <2>1, <3>2, OwedStays
    <3> QED
      BY <1>0, <1>1, <1>3, <1>4, <2>1, <3>3, PromiseStays
  <2> QED
    BY <2>2, <2>3
<1> QED
  BY <1>6, <1>7, <1>8

\* A compiler that gives up was told off before.
LEMMA PromiseOfLease ==
    ASSUME IInv, BoundInv, NEW c \in Compilers,
           \/ Mark(c) \/ GiveUp(c) \/ Lock(c) \/ Visible(c)
           \/ LinkObject(c) \/ LinkDigest(c) \/ Verify(c)
    PROVE  Promise'
<1>0. /\ TypeOK /\ Promise /\ Attempts
      /\ pc \in [Compilers -> Places]
      /\ tries \in [Compilers -> 0 .. LeaseTries] /\ LeaseTries \in Nat \ {0}
  BY TypesInParts, CacheAssumption DEF BoundInv, ProcTypes
<1>1. UNCHANGED <<key, victims>> /\ Objects' = Objects
  BY DEF Mark, GiveUp, Lock, Visible, LinkObject, LinkDigest, Verify, cacheVars, Objects
<1>2. /\ pc[c] \in {"mark", "lock", "visible", "linkObject", "linkDigest", "verify"}
      /\ pc[c] \notin WillList \cup {"prune", "unseal", "dead"}
  BY DEF Mark, GiveUp, Lock, Visible, LinkObject, LinkDigest, Verify, Goes, WillList
<1>3. victims' = [victims EXCEPT ![c] = victims'[c]]
  BY <1>0, <1>1 DEF TypeOK
<1>4. \A d \in Compilers \ {c} : tries'[d] = tries[d] /\ (d \in marker => d \in marker')
  <2>1. /\ \/ tries' = tries \/ tries' = [tries EXCEPT ![c] = 0]
           \/ tries' = [tries EXCEPT ![c] = @ + 1]
        /\ marker' = marker \/ marker' = marker \cup {c} \/ marker' = marker \ {c}
    BY DEF Mark, GiveUp, Lock, Visible, LinkObject, LinkDigest, Verify, Retry, Released, leaseVars
  <2> QED
    BY <1>0, <2>1
<1>5. ASSUME NEW x, pc' = [pc EXCEPT ![c] = x],
             x \in WillList \cup {"dead"} \/ (Owes(c) => Owes(c)')
      PROVE  Promise'
  <2>1. x \in WillList \cup {"dead"} \/ Owed \subseteq Owed'
    BY <1>0, <1>1, <1>4, <1>5, OwedStays
  <2> QED
    BY <1>0, <1>1, <1>2, <1>3, <1>5, <2>1, PromiseStays
<1>6. CASE Mark(c)
  <2>1. \A d \in Compilers \ {c} : pc'[d] = IF at[d] = c THEN "clean" ELSE pc[d]
    BY <1>6 DEF Mark
  <2>2. pc'[c] = "lock" /\ c \in marker' /\ pc' = [d \in Compilers |-> pc'[d]]
    BY <1>6 DEF Mark
  <2>3. CASE \E d \in Compilers \ {c} : at[d] = c
    BY <2>1, <2>3 DEF Promise, WillList
  <2>4. CASE \A d \in Compilers \ {c} : at[d] # c
    <3>1. pc' = [pc EXCEPT ![c] = "lock"]
      BY <1>0, <2>1, <2>2, <2>4
    <3>2. Owes(c)'
      BY <2>2 DEF Owes, Owing, ToldOff
    <3> QED
      BY <1>5, <3>1, <3>2
  <2> QED
    BY <2>3, <2>4
<1>7. CASE GiveUp(c)
  <2>1. tries[c] > 0 /\ pc[c] = "mark"
    BY <1>0, <1>7 DEF GiveUp, Another, Goes
  <2>2. ~Owes(c)
    BY <2>1 DEF Owes, ToldOff
  <2>3. pc' = [pc EXCEPT ![c] = "failed"]
    BY <1>7 DEF GiveUp, Goes
  <2> QED
    BY <1>5, <2>2, <2>3
<1>8. CASE Lock(c)
  <2>1. pc[c] = "lock" /\ pc' = [pc EXCEPT ![c] = "visible"] /\ marker' = marker
    BY <1>8 DEF Lock, Goes
  <2>2. pc'[c] = "visible"
    BY <1>0, <2>1
  <2>3. Owes(c) => Owes(c)'
    BY <2>1, <2>2 DEF Owes, Owing, ToldOff
  <2> QED
    BY <1>5, <2>1, <2>3
<1>9. CASE Visible(c)
  <2>1. CASE c \in marker
    <3>1. pc' = [pc EXCEPT ![c] = "linkObject"]
      BY <1>9, <2>1 DEF Visible, Goes
    <3>2. pc'[c] = "linkObject"
      BY <1>0, <3>1
    <3>3. Owes(c)'
      BY <3>2 DEF Owes, Owing, ToldOff
    <3> QED
      BY <1>5, <3>1, <3>3
  <2>2. CASE c \notin marker
    <3>1. pc' = [pc EXCEPT ![c] = "mark"] /\ pc[c] = "visible"
      BY <1>9, <2>2 DEF Visible, Goes
    <3>2. ~Owes(c)
      BY <2>2, <3>1 DEF Owes, ToldOff
    <3> QED
      BY <1>5, <3>1, <3>2
  <2> QED
    BY <2>1, <2>2
<1>10. CASE LinkObject(c) \/ LinkDigest(c) \/ Verify(c)
  <2>1. PICK x \in {"lookup", "build", "linkDigest", "verify", "clean"} : pc' = [pc EXCEPT ![c] = x]
    BY <1>10 DEF LinkObject, LinkDigest, Verify, Retry, Goes
  <2>2. pc'[c] = x
    BY <1>0, <2>1
  <2>3. CASE x = "clean"
    BY <1>5, <2>1, <2>3 DEF WillList
  <2>4. CASE x # "clean"
    <3>1. Owes(c)'
      BY <2>2, <2>4 DEF Owes, Owing, ToldOff
    <3> QED
      BY <1>5, <2>1, <3>1
  <2> QED
    BY <2>3, <2>4
<1> QED
  BY <1>6, <1>7, <1>8, <1>9, <1>10

\* The pruning itself: what is listed and not a victim fits; a victim goes.
LEMMA PromiseOfPrune ==
    ASSUME BoundInv, NEW c \in Compilers,
           \/ Probe(c) \/ Collect(c) \/ Unlock(c) \/ Unmark(c) \/ Sweep(c) \/ List(c)
           \/ PruneObject(c) \/ PruneDigest(c) \/ Link(c) \/ Drop(c) \/ DropMarker(c) \/ Crash(c)
    PROVE  Promise'
<1>0. /\ TypeOK /\ Listed /\ Promise
      /\ pc \in [Compilers -> Places] /\ DOMAIN object = Keys
      /\ victims \in [Compilers -> Seq(Keys)]
  BY TypesInParts DEF BoundInv, ProcTypes, CacheTypes
<1>1. UNCHANGED <<key, tries>>
  BY DEF Probe, Collect, Unlock, Unmark, Sweep, List, PruneObject, PruneDigest, Link, Drop,
         DropMarker, Crash
<1>2. CASE Probe(c) \/ Collect(c) \/ Unlock(c) \/ Unmark(c) \/ Sweep(c)
  <2>1. c \in Compilers /\ pc'[c] \in WillList
    BY <1>0, <1>2 DEF Probe, Collect, Unlock, Unmark, Sweep, Goes, WillList
  <2> QED
    BY <2>1 DEF Promise
<1>3. CASE Crash(c)
  <2>1. pc'[c] = "dead"
    BY <1>0, <1>3 DEF Crash
  <2> QED
    BY <2>1 DEF Promise, Dead
<1>4. CASE List(c)
  <2>1. pc'[c] = "prune" /\ Objects' = Objects
    BY <1>0, <1>4 DEF List, Goes, cacheVars, Objects
  <2>2. Fits(Objects' \ Range(victims'[c]))
    BY <1>0, <1>4, <2>1, VictimsAreEnough
  <2>3. Fits(Objects' \ (Range(victims'[c]) \cup Owed'))
    <3>1. /\ Objects' \ Range(victims'[c]) \in SUBSET Keys
          /\ Objects' \ (Range(victims'[c]) \cup Owed') \in SUBSET (Objects' \ Range(victims'[c]))
      BY <2>1 DEF Objects
    <3> QED
      BY <2>2, <3>1, FewerFit
  <2> QED
    BY <2>1, <2>3 DEF Promise
<1>5. ASSUME NEW x \in {"prune", "unseal", "link", "drop", "idle"}, pc' = [pc EXCEPT ![c] = x],
             pc[c] \in {"prune", "unseal", "link", "drop"},
             marker' = marker \/ marker' = marker \ {c}
      PROVE  Owed \subseteq Owed' /\ pc'[c] = x /\ pc[c] \notin WillList \cup {"dead"}
  <2>1. ~Owes(c)
    BY <1>5 DEF Owes, Owing
  <2>2. Owed \subseteq Owed'
    BY <1>0, <1>1, <1>5, <2>1, OwedStays
  <2> QED
    BY <1>0, <1>5, <2>2 DEF WillList
<1>6. CASE Drop(c) \/ DropMarker(c)
  <2>1. PICK x \in {"drop", "idle"} : pc' = [pc EXCEPT ![c] = x]
    BY <1>6 DEF Drop, DropMarker, Goes
  <2>2. /\ pc[c] \in {"link", "drop"} /\ (marker' = marker \/ marker' = marker \ {c})
        /\ victims' = victims /\ Objects' = Objects
    BY <1>6 DEF Drop, DropMarker, Goes, cacheVars, Objects
  <2>3. victims' = [victims EXCEPT ![c] = victims'[c]]
    BY <1>0, <2>2
  <2>4. Owed \subseteq Owed' /\ pc[c] \notin WillList \cup {"prune", "unseal", "dead"}
    BY <1>5, <2>1, <2>2
  <2> QED
    BY <1>0, <2>1, <2>2, <2>3, <2>4, PromiseStays
<1>7. ASSUME NEW x \in {"prune", "unseal", "link"}, pc' = [pc EXCEPT ![c] = x],
             pc[c] \in {"prune", "unseal"}, marker' = marker,
             victims' = [victims EXCEPT ![c] = victims'[c]],
             Objects' \subseteq Objects,
             Objects' \ Range(victims'[c]) \subseteq Objects \ Range(victims[c]),
             x = "link" => Range(victims'[c]) = {}
      PROVE  Promise'
  <2>1. Owed \subseteq Owed' /\ pc'[c] = x /\ pc[c] \notin WillList \cup {"dead"}
    BY <1>5, <1>7
  <2>2. \A d \in Compilers \ {c} : pc'[d] = pc[d] /\ victims'[d] = victims[d]
    BY <1>0, <1>7
  <2>3. CASE Dead # {}
    <3>1. PICK d \in Compilers : pc[d] = "dead"
      BY <2>3 DEF Dead
    <3>2. pc'[d] = "dead"
      BY <2>1, <2>2, <3>1
    <3> QED
      BY <3>2 DEF Promise, Dead
  <2>4. CASE \E d \in Compilers : pc[d] \in WillList
    BY <2>1, <2>2, <2>4 DEF Promise
  <2>5. CASE \E d \in Compilers : /\ pc[d] \in {"prune", "unseal"}
                                  /\ Fits(Objects \ (Range(victims[d]) \cup Owed))
    <3>1. PICK d \in Compilers : /\ pc[d] \in {"prune", "unseal"}
                                 /\ Fits(Objects \ (Range(victims[d]) \cup Owed))
      BY <2>5
    <3>2. Objects' \ (Range(victims'[d]) \cup Owed') \subseteq Objects \ (Range(victims[d]) \cup Owed)
      BY <1>7, <2>1, <2>2
    <3>3. Fits(Objects' \ (Range(victims'[d]) \cup Owed'))
      BY <3>1, <3>2, FewerFit DEF Objects
    <3>4. CASE pc'[d] \in {"prune", "unseal"}
      BY <3>3, <3>4 DEF Promise
    <3>5. CASE pc'[d] \notin {"prune", "unseal"}
      <4>1. d = c /\ Range(victims'[d]) = {}
        BY <1>7, <2>1, <2>2, <3>1, <3>5
      <4>2. Fits(Objects' \ Owed')
        BY <3>3, <4>1
      <4> QED
        BY <4>2 DEF Promise
    <3> QED
      BY <3>4, <3>5
  <2>6. CASE Fits(Objects \ Owed)
    <3>1. Objects' \ Owed' \subseteq Objects \ Owed
      BY <1>7, <2>1
    <3>2. Fits(Objects' \ Owed')
      BY <2>6, <3>1, FewerFit DEF Objects
    <3> QED
      BY <3>2 DEF Promise
  <2> QED
    BY <1>0, <2>3, <2>4, <2>5, <2>6 DEF Promise
<1>8. CASE PruneObject(c)
  <2> DEFINE k == Head(victims[c])
  <2>1. /\ Tail(victims[c]) \in Seq(Keys) /\ k \in Keys
        /\ Range(victims[c]) \subseteq {k} \cup Range(Tail(victims[c]))
    BY <1>0, <1>8, HeadIsTaken DEF PruneObject
  <2>2. /\ victims' = [victims EXCEPT ![c] = Tail(victims[c])] /\ marker' = marker
        /\ pc[c] = "prune" /\ (pc' = pc \/ pc' = [pc EXCEPT ![c] = "unseal"])
    BY <1>8 DEF PruneObject, Goes, leaseVars
  <2>3. victims'[c] = Tail(victims[c])
    BY <1>0, <2>2
  <2>4. Objects' = Objects \ {k}
    BY <1>0, <1>8, <2>1 DEF PruneObject, Objects
  <2>5. \E x \in {"prune", "unseal"} : pc' = [pc EXCEPT ![c] = x]
    BY <1>0, <2>2
  <2>6. Objects' \ Range(victims'[c]) \subseteq Objects \ Range(victims[c])
    BY <2>1, <2>3, <2>4
  <2> HIDE DEF k
  <2> QED
    BY <1>7, <2>2, <2>3, <2>4, <2>5, <2>6
<1>9. CASE PruneDigest(c) \/ Link(c)
  <2>1. /\ marker' = marker /\ victims' = victims /\ Objects' = Objects
        /\ pc[c] \in {"prune", "unseal"}
    BY <1>9 DEF PruneDigest, Link, Goes, leaseVars, cacheVars, Objects
  <2>2. \/ pc' = [pc EXCEPT ![c] = "prune"]
        \/ pc' = [pc EXCEPT ![c] = "link"] /\ victims[c] = <<>>
    BY <1>9 DEF PruneDigest, Link, Goes
  <2>3. victims' = [victims EXCEPT ![c] = victims'[c]]
    BY <1>0, <2>1
  <2>4. Range(<<>>) = {}
    BY DEF Range
  <2>5. CASE pc' = [pc EXCEPT ![c] = "prune"]
    BY <1>7, <2>1, <2>3, <2>5
  <2>6. CASE pc' = [pc EXCEPT ![c] = "link"] /\ victims[c] = <<>>
    <3>1. Range(victims'[c]) = {}
      BY <2>1, <2>4, <2>6
    <3> QED
      BY <1>7, <2>1, <2>3, <2>6, <3>1
  <2> QED
    BY <2>2, <2>5, <2>6
<1> QED
  BY <1>2, <1>3, <1>4, <1>6, <1>8, <1>9

LEMMA BoundPreserved == IInv /\ BoundInv /\ [Next]_vars => BoundInv'
<1> SUFFICES ASSUME IInv, BoundInv, [Next]_vars PROVE BoundInv'
  OBVIOUS
<1>1. CASE UNCHANGED vars
  <2>1. UNCHANGED <<pc, key, built, tries, todo, at, victims, gone, object, digest, byAge, temp,
                    marker, shared, probed, snapshot, seal, crashes>>
    BY <1>1 DEF vars, procVars, cacheVars, leaseVars
  <2>2. TypeOK'
    BY <2>1 DEF BoundInv, TypeOK
  <2>3. Objects' = Objects /\ Dead' = Dead
    BY <2>1 DEF Objects, Dead
  <2>4. Owed' = Owed
    BY <2>1 DEF Owed, Owes, ToldOff
  <2>5. Listed' /\ Attempts'
    BY <2>1, <2>3 DEF BoundInv, Listed, Attempts
  <2>6. Promise'
    BY <2>1, <2>3, <2>4 DEF BoundInv, Promise
  <2> QED
    BY <2>2, <2>5, <2>6 DEF BoundInv
<1>2. ASSUME NEW c \in Compilers, Start(c) \/ Step(c) \/ Crash(c)
      PROVE  BoundInv'
  <2>1. TypeOK /\ Listed /\ Attempts /\ Promise
    BY DEF BoundInv
  <2>2. TypeOK'
    BY <1>2, <2>1, TypesOfBuild, TypesOfLease, TypesOfPrune DEF Step
  <2>3. Listed' /\ Attempts'
    BY <1>2, <2>1, ListedPreserved, AttemptsPreserved
  <2>4. Promise'
    BY <1>2, PromiseOfBuild, PromiseOfLease, PromiseOfPrune DEF Step
  <2> QED
    BY <2>2, <2>3, <2>4 DEF BoundInv
<1> QED
  BY <1>1, <1>2 DEF Next

\* When every compiler that began has pruned, the cache is within its bound, whatever
\* their listings, removals and publications did in between.
THEOREM CacheStaysBounded == Spec => []BoundHolds
<1>1. BoundInv => BoundHolds
  <2> SUFFICES ASSUME BoundInv, \A c \in Compilers : pc[c] \in {"idle", "failed", "link", "drop"}
               PROVE  Fits(Objects)
    BY DEF BoundInv, BoundHolds, Fits
  <2>1. Dead = {} /\ Owed = {}
    BY DEF Dead, Owed, Owes, Owing
  <2>2. Fits(Objects \ Owed)
    BY <2>1 DEF BoundInv, Promise, WillList
  <2> QED
    BY <2>1, <2>2
<1> QED
  BY <1>1, InitInv, NextPreserves, InitBound, BoundPreserved, PTL DEF Spec
=============================================================================
