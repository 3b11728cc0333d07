--------------------------- MODULE WebMasterProofs ---------------------------
(***************************************************************************)
(* Theorems about WebMaster, for any number of workers, any limit on fast  *)
(* deaths and any signals, whatever races RaceWindows admits.              *)
(***************************************************************************)
EXTENDS WebMaster, FiniteSetTheorems, TLAPS

\* Pids are handed out in order.
FreshPids == \A p \in Pid : p >= nextPid => wstate[p] = "unborn" /\ p \notin children

\* What waitpid returned is reaped, and one that was removed is a worker.
GotIsReaped ==
    /\ pc \in {"returned", "removed"} /\ got # NoPid => wstate[got] = "reaped"
    /\ pc = "removed" => got \in Pid /\ got \notin children

\* The size of the pool while it is supervised, one less before a respawn.
PoolSize ==
    /\ pc \in {"check", "wait", "returned"} /\ ~shutdown => Cardinality(children) = Workers
    /\ pc = "removed" => Cardinality(children) = Workers - 1

\* No stale pid is tracked when the master goes back to waiting.
NoneStale == pc \in {"check", "wait", "removed"} => \A p \in children : wstate[p] # "reaped"

NoneEscapes == \A p \in Pid : wstate[p] \in Alive \cup {"dead"} => p \in children

\* The crash-loop guard trips when the limit is reached, and at once.
GuardIsExact ==
    /\ ~gaveUp => fastDeaths < MaxFastDeaths
    /\ gaveUp => fastDeaths >= MaxFastDeaths /\ pc \in {"kill", "reap", "down"}

\* The startup deaths the master has counted.
Counted == {p \in Pid : /\ cause[p] \in Startup
                        /\ wstate[p] = "reaped"
                        /\ ~(pc = "removed" /\ p = got)
                        /\ p \notin children}
\* Before the teardown every death has a cause of its own.
DeathsHaveCauses ==
    pc \notin {"kill", "reap", "down"} =>
        \A p \in Pid : /\ wstate[p] # "terminating"
                       /\ wstate[p] \in {"dead", "reaped"} => cause[p] # "none"

StreakIsReal == fastDeaths <= Cardinality(Counted)

IInv ==
    /\ TypeOK
    /\ FreshPids
    /\ GotIsReaped
    /\ PoolSize
    /\ NoneStale
    /\ NoneEscapes
    /\ OnlyTheLastIsStale
    /\ GuardIsExact
    /\ DeathsHaveCauses
    /\ StreakIsReal
-----------------------------------------------------------------------------
\* Sets of pids can be counted.
LEMMA ChildrenAreFinite ==
    ASSUME NEW S, S \subseteq Pid
    PROVE  IsFiniteSet(S) /\ Cardinality(S) \in Nat
<1>1. IsFiniteSet(Pid)
  BY FS_Interval, MasterAssumption DEF Pid
<1> QED
  BY <1>1, FS_Subset, FS_CardinalityType

\* Counted deaths stay counted.
LEMMA CountedGrows ==
    ASSUME StreakIsReal, TypeOK, fastDeaths' = fastDeaths, Counted \subseteq Counted'
    PROVE  StreakIsReal'
<1>1. Counted' \subseteq Pid
  BY DEF Counted
<1>2. IsFiniteSet(Counted') /\ Cardinality(Counted') \in Nat
  BY <1>1, ChildrenAreFinite
<1>3. Cardinality(Counted) <= Cardinality(Counted') /\ Cardinality(Counted) \in Nat
  BY <1>2, FS_Subset, FS_CardinalityType
<1> QED
  BY <1>2, <1>3 DEF StreakIsReal, TypeOK

\* The master starts with its full pool.
LEMMA InitInv == Init => IInv
<1> SUFFICES ASSUME Init PROVE IInv
  OBVIOUS
<1> USE MasterAssumption DEF Init
<1>1. TypeOK
  <2>1. wstate \in [Pid -> {"unborn", "dead", "reaped"} \cup Alive]
    BY DEF Forked, Alive
  <2>2. cause \in [Pid \cup {NoPid} -> Causes]
    BY DEF Causes
  <2>3. children \subseteq Pid /\ nextPid \in 1 .. MaxPids + 1 /\ got \in Pid \cup {NoPid}
    BY DEF Pid
  <2>4. /\ fastDeaths \in 0 .. MaxFastDeaths /\ signals \in 0 .. MaxSignals
        /\ orphans \in 0 .. MaxOrphans
    OBVIOUS
  <2> QED
    BY <2>1, <2>2, <2>3, <2>4, Zenon DEF TypeOK
<1>2. FreshPids /\ NoneEscapes
  BY DEF FreshPids, NoneEscapes, Pid, Alive
<1>3. GotIsReaped /\ GuardIsExact
  BY DEF GotIsReaped, GuardIsExact, NoPid
<1>4. PoolSize
  BY FS_Interval DEF PoolSize
<1>5. NoneStale /\ OnlyTheLastIsStale
  BY DEF NoneStale, OnlyTheLastIsStale, Pid, Forked
<1>7. DeathsHaveCauses
  BY DEF DeathsHaveCauses, Pid, Forked
<1>6. StreakIsReal
  <2>1. Counted \subseteq Pid
    BY DEF Counted
  <2> QED
    BY <2>1, ChildrenAreFinite DEF StreakIsReal
<1> QED
  BY <1>1, <1>2, <1>3, <1>4, <1>5, <1>6, <1>7 DEF IInv

\* The steps in which the master only looks or gives in: check, skip, abort,
\* the stranger it reaps, and the signals of the teardown.
LEMMA LooksPreserve ==
    ASSUME IInv, MasterCheck \/ MasterSkips \/ MasterAborts \/ MasterReapsOrphan \/ MasterKills
    PROVE  IInv'
<1> USE DEF IInv
<1>1. /\ UNCHANGED <<shutdown, children, fastDeaths, gaveUp, nextPid, signals, cause>>
      /\ todo' \subseteq Pid
      /\ orphans' \in 0 .. MaxOrphans
  BY MasterAssumption
  DEF MasterCheck, MasterSkips, MasterAborts, MasterReapsOrphan, MasterKills, boundVars, TypeOK
<1>2. /\ wstate' \in [Pid -> {"unborn", "dead", "reaped"} \cup Alive]
      /\ \A p \in Pid : \/ wstate'[p] = wstate[p]
                        \/ wstate[p] \in Alive /\ wstate'[p] \in Alive
  <2>1. CASE MasterKills
    <3>1. ASSUME NEW p \in Pid
          PROVE  Sigterm(p) = wstate[p] \/ (wstate[p] \in Alive /\ Sigterm(p) \in Alive)
      <4>1. CASE wstate[p] = "up"
        BY <4>1 DEF Sigterm, Alive
      <4>2. CASE wstate[p] = "fresh"
        <5>1. Sigterm(p) = "deaf"
          BY <4>2 DEF Sigterm
        <5> QED
          BY <4>2, <5>1 DEF Alive
      <4>3. CASE wstate[p] # "up" /\ wstate[p] # "fresh"
        BY <4>3 DEF Sigterm
      <4> QED
        BY <4>1, <4>2, <4>3
    <3> QED
      BY <2>1, <3>1 DEF MasterKills, TypeOK
  <2>2. CASE ~MasterKills
    BY <2>2 DEF MasterCheck, MasterSkips, MasterAborts, MasterReapsOrphan, TypeOK
  <2> QED
    BY <2>1, <2>2
<1>3. /\ \A p \in Pid : wstate'[p] = "reaped" <=> wstate[p] = "reaped"
      /\ \A p \in Pid : wstate'[p] = "unborn" <=> wstate[p] = "unborn"
      /\ \A p \in Pid : wstate'[p] \in Alive \cup {"dead"} => wstate[p] \in Alive \cup {"dead"}
  BY <1>2 DEF Alive
<1>4. \/ /\ pc = "check" /\ got' = got
         /\ \/ shutdown /\ pc' = "kill"
            \/ ~shutdown /\ pc' = "wait"
      \/ /\ pc = "removed" /\ got' = got
         /\ \/ shutdown /\ pc' \in {"kill", "check"}
            \/ ~shutdown /\ pc' = "aborted" /\ ~gaveUp
      \/ pc = "wait" /\ pc' = "returned" /\ got' = NoPid
      \/ pc = "kill" /\ pc' \in {"kill", "reap"} /\ got' = got
  BY DEF MasterCheck, MasterSkips, MasterAborts, MasterReapsOrphan, MasterKills, GuardIsExact
<1>5. TypeOK'
  BY <1>1, <1>2, <1>4 DEF TypeOK
<1>6. (FreshPids /\ NoneEscapes)'
  BY <1>1, <1>3 DEF FreshPids, NoneEscapes
<1>7. GotIsReaped' /\ GuardIsExact' /\ PoolSize'
  BY <1>1, <1>4 DEF GotIsReaped, GuardIsExact, PoolSize
<1>8. NoneStale' /\ OnlyTheLastIsStale'
  <2>1. \A p \in children : p \in Pid
    BY DEF TypeOK
  <2> QED
    BY <1>1, <1>3, <1>4, <2>1 DEF NoneStale, OnlyTheLastIsStale
<1>9. StreakIsReal'
  <2>1. Counted \subseteq Counted'
    BY <1>1, <1>3, <1>4 DEF Counted
  <2> QED
    BY <1>1, <2>1, CountedGrows
<1>10. DeathsHaveCauses'
  <2>1. pc' \notin {"kill", "reap", "down"} =>
            pc \notin {"kill", "reap", "down"} /\ wstate' = wstate
    BY <1>4 DEF MasterCheck, MasterSkips, MasterAborts, MasterReapsOrphan, MasterKills
  <2> QED
    BY <1>1, <2>1 DEF DeathsHaveCauses
<1> QED
  BY <1>5, <1>6, <1>7, <1>8, <1>9, <1>10

\* waitpid(-1) hands over a dead worker, which is tracked like every other.
LEMMA WaitsPreserves == ASSUME IInv, MasterWaits PROVE IInv'
<1> USE DEF IInv
<1>1. PICK p \in Pid : /\ wstate[p] = "dead" /\ got' = p
                       /\ wstate' = [wstate EXCEPT ![p] = "reaped"]
  BY DEF MasterWaits
<1>2. /\ pc = "wait" /\ pc' = "returned"
      /\ UNCHANGED <<shutdown, children, todo, fastDeaths, gaveUp, nextPid, signals, orphans, cause>>
  BY DEF MasterWaits, boundVars
<1>3. TypeOK'
  BY <1>1, <1>2 DEF TypeOK
<1>4. (FreshPids /\ NoneEscapes /\ GotIsReaped /\ PoolSize /\ GuardIsExact)'
  BY <1>1, <1>2 DEF FreshPids, NoneEscapes, GotIsReaped, PoolSize, GuardIsExact, TypeOK, Alive
<1>5. (NoneStale /\ OnlyTheLastIsStale)'
  BY <1>1, <1>2 DEF NoneStale, OnlyTheLastIsStale, TypeOK
<1>6. StreakIsReal'
  <2>1. Counted \subseteq Counted'
    BY <1>1, <1>2 DEF Counted, TypeOK
  <2> QED
    BY <1>2, <2>1, CountedGrows
<1>7. DeathsHaveCauses'
  BY <1>1, <1>2 DEF DeathsHaveCauses, TypeOK
<1> QED
  BY <1>3, <1>4, <1>5, <1>6, <1>7

\* The returned pid leaves the pool, unless it is a stranger's or the master
\* is shutting down.
LEMMA ReturnedPreserves == ASSUME IInv, MasterReturned PROVE IInv'
<1> USE DEF IInv
<1>1. /\ pc = "returned"
      /\ UNCHANGED <<shutdown, got, fastDeaths, gaveUp, nextPid, signals, orphans, wstate, cause>>
  BY DEF MasterReturned, boundVars
<1>2. \/ shutdown /\ pc' = "kill" /\ todo' = children /\ children' = children
      \/ ~shutdown /\ got \notin children /\ pc' = "check" /\ UNCHANGED <<children, todo>>
      \/ ~shutdown /\ got \in children /\ pc' = "removed" /\ children' = children \ {got}
         /\ UNCHANGED todo
  BY DEF MasterReturned, Tracked, Untracked
<1>3. TypeOK'
  BY <1>1, <1>2 DEF TypeOK
<1>4. (FreshPids /\ GotIsReaped /\ GuardIsExact)'
  BY <1>1, <1>2 DEF FreshPids, GotIsReaped, GuardIsExact, TypeOK
<1>5. NoneEscapes'
  <2>1. got \in children => wstate[got] = "reaped"
    BY <1>1 DEF GotIsReaped, TypeOK, Pid, NoPid
  <2> QED
    BY <1>1, <1>2, <2>1 DEF NoneEscapes, Alive
<1>6. PoolSize'
  <2>1. IsFiniteSet(children) /\ Cardinality(children) \in Nat
    BY ChildrenAreFinite DEF TypeOK
  <2>2. got \in children => Cardinality(children \ {got}) = Cardinality(children) - 1
    BY <2>1, FS_RemoveElement
  <2> QED
    BY <1>1, <1>2, <2>2 DEF PoolSize
<1>7. (NoneStale /\ OnlyTheLastIsStale)'
  BY <1>1, <1>2 DEF NoneStale, OnlyTheLastIsStale
<1>8. StreakIsReal'
  <2>1. Counted \subseteq Counted'
    BY <1>1, <1>2 DEF Counted
  <2> QED
    BY <1>1, <2>1, CountedGrows
<1>9. DeathsHaveCauses'
  BY <1>1, <1>2 DEF DeathsHaveCauses
<1> QED
  BY <1>3, <1>4, <1>5, <1>6, <1>7, <1>8, <1>9

\* The streak counts a death once: after the death of p it is no longer than
\* the startup deaths that are over and done with, p included.
LEMMA StreakCounts ==
    ASSUME IInv, pc = "removed", fastDeaths' = Streak(got), pc' # "removed",
           UNCHANGED cause,
           \A p \in Counted \cup {got} : wstate'[p] = "reaped" /\ p \notin children'
    PROVE  StreakIsReal' /\ Streak(got) \in 0 .. fastDeaths + 1
<1> USE DEF IInv
<1>1. got \in Pid /\ cause[got] \in Causes /\ fastDeaths \in Nat
  BY MasterAssumption DEF GotIsReaped, TypeOK
<1>2. Counted' \subseteq Pid
  BY DEF Counted
<1>3. IsFiniteSet(Counted') /\ Cardinality(Counted') \in Nat
  BY <1>2, ChildrenAreFinite
<1>4. CASE IsPlannedRecycle(got) \/ cause[got] = "slow"
  <2>1. Streak(got) \in {0, fastDeaths}
    BY <1>4 DEF Streak, IsPlannedRecycle
  <2>2. Counted \subseteq Counted'
    BY DEF Counted
  <2>3. Cardinality(Counted) <= Cardinality(Counted') /\ Cardinality(Counted) \in Nat
    BY <1>3, <2>2, FS_Subset, FS_CardinalityType
  <2> QED
    BY <1>1, <1>3, <2>1, <2>3 DEF StreakIsReal
<1>5. CASE ~IsPlannedRecycle(got) /\ cause[got] # "slow"
  <2>1. Streak(got) = fastDeaths + 1
    BY <1>5 DEF Streak
  <2>2. got \notin Counted
    BY DEF Counted
  <2>3. CASE cause[got] \in Startup
    <3>1. Counted \cup {got} \subseteq Counted'
      BY <1>1, <2>3 DEF Counted
    <3>2. IsFiniteSet(Counted) /\ Cardinality(Counted) \in Nat
      BY ChildrenAreFinite DEF Counted
    <3>3. Cardinality(Counted \cup {got}) = Cardinality(Counted) + 1
      BY <2>2, <3>2, FS_AddElement
    <3>4. Cardinality(Counted \cup {got}) <= Cardinality(Counted')
      BY <1>3, <3>1, FS_Subset
    <3> QED
      BY <1>1, <1>3, <2>1, <3>2, <3>3, <3>4 DEF StreakIsReal
  <2>4. CASE cause[got] = "none"
    BY <1>1, <2>4 DEF DeathsHaveCauses, GotIsReaped, Pid, NoPid
  <2> QED
    BY <1>1, <1>5, <2>3, <2>4 DEF Causes, Startup, IsPlannedRecycle
<1> QED
  BY <1>4, <1>5

\* The master gives up when the streak reaches the limit.
LEMMA GivesUpPreserves == ASSUME IInv, MasterGivesUp PROVE IInv'
<1> USE DEF IInv
<1>1. /\ pc = "removed" /\ ~shutdown /\ GivesUp(got)
      /\ fastDeaths' = Streak(got) /\ gaveUp' = TRUE
      /\ pc' = "kill" /\ todo' = children
      /\ UNCHANGED <<shutdown, children, got, nextPid, signals, orphans, wstate, cause>>
  BY DEF MasterGivesUp, boundVars
<1>2. ~gaveUp /\ fastDeaths < MaxFastDeaths /\ fastDeaths \in Nat
  BY <1>1, MasterAssumption DEF GuardIsExact, TypeOK
<1>3. StreakIsReal' /\ Streak(got) \in 0 .. fastDeaths + 1
  <2>1. \A p \in Counted \cup {got} : wstate'[p] = "reaped" /\ p \notin children'
    BY <1>1 DEF Counted, GotIsReaped, Pid, NoPid
  <2> QED
    BY <1>1, <2>1, StreakCounts
<1>4. TypeOK'
  BY <1>1, <1>2, <1>3, MasterAssumption DEF TypeOK
<1>5. GuardIsExact'
  <2>1. Streak(got) >= MaxFastDeaths
    BY <1>1 DEF GivesUp, CrashLoop
  <2> QED
    BY <1>1, <2>1 DEF GuardIsExact
<1>6. (FreshPids /\ NoneEscapes /\ GotIsReaped /\ PoolSize /\ NoneStale /\ OnlyTheLastIsStale
        /\ DeathsHaveCauses)'
  BY <1>1 DEF FreshPids, NoneEscapes, GotIsReaped, PoolSize, NoneStale, OnlyTheLastIsStale,
              DeathsHaveCauses
<1> QED
  BY <1>3, <1>4, <1>5, <1>6

\* A replacement brings the pool back to its size.
LEMMA RespawnPreserves == ASSUME IInv, MasterRespawns PROVE IInv'
<1> DEFINE new == nextPid
<1> USE DEF IInv
<1>1. /\ pc = "removed" /\ ~shutdown /\ ~GivesUp(got) /\ nextPid <= MaxPids
      /\ fastDeaths' = Streak(got)
      /\ wstate' = [wstate EXCEPT ![new] = Forked]
      /\ children' = children \cup {new}
      /\ nextPid' = nextPid + 1
      /\ pc' = "check"
      /\ UNCHANGED <<shutdown, got, todo, gaveUp, signals, orphans, cause>>
  BY DEF MasterRespawns
<1>2. new \in Pid /\ wstate[new] = "unborn" /\ new \notin children
  BY <1>1, MasterAssumption DEF FreshPids, TypeOK, Pid
<1>3. ~gaveUp /\ fastDeaths < MaxFastDeaths /\ fastDeaths \in Nat
  BY <1>1, MasterAssumption DEF GuardIsExact, TypeOK
<1>4. nextPid' \in 1 .. MaxPids + 1 /\ \A p \in Pid : p >= nextPid' => p # new /\ p >= nextPid
  BY <1>1, MasterAssumption DEF TypeOK, Pid
<1> HIDE DEF new
<1>5. Forked \in Alive /\ Forked \notin {"reaped", "unborn", "terminating", "dead"}
  BY DEF Forked, Alive
<1>6. got \in Pid /\ got # new /\ wstate[got] = "reaped" /\ got \notin children
  BY <1>1, <1>2 DEF GotIsReaped, Pid, NoPid
<1>7. StreakIsReal' /\ Streak(got) \in 0 .. fastDeaths + 1
  <2>1. \A p \in Counted \cup {got} : p # new /\ wstate[p] = "reaped" /\ p \notin children
    BY <1>2, <1>6 DEF Counted
  <2>2. \A p \in Counted \cup {got} : wstate'[p] = "reaped" /\ p \notin children'
    BY <1>1, <1>6, <2>1 DEF TypeOK, Counted
  <2> QED
    BY <1>1, <2>2, StreakCounts
<1>8. Streak(got) < MaxFastDeaths
  <2>1. CASE IsPlannedRecycle(got) \/ cause[got] = "slow"
    <3>1. Streak(got) \in {0, fastDeaths}
      BY <2>1 DEF Streak, IsPlannedRecycle
    <3> QED
      BY <1>3, <3>1, MasterAssumption
  <2>2. CASE ~(IsPlannedRecycle(got) \/ cause[got] = "slow")
    <3>1. ~(Streak(got) >= MaxFastDeaths)
      BY <1>1, <2>2 DEF GivesUp, CrashLoop
    <3> QED
      BY <1>7, <1>3, <3>1, MasterAssumption
  <2> QED
    BY <2>1, <2>2
<1>9. TypeOK'
  <2>1. wstate' \in [Pid -> {"unborn", "dead", "reaped"} \cup Alive]
    BY <1>1, <1>5 DEF TypeOK
  <2>2. fastDeaths' \in 0 .. MaxFastDeaths
    BY <1>1, <1>3, <1>7, <1>8, MasterAssumption
  <2> QED
    BY <1>1, <1>2, <1>4, <2>1, <2>2 DEF TypeOK
<1>10. GuardIsExact' /\ GotIsReaped'
  BY <1>1, <1>3, <1>8 DEF GuardIsExact, GotIsReaped
<1>11. FreshPids'
  BY <1>1, <1>4 DEF FreshPids, TypeOK
<1>12. NoneEscapes'
  BY <1>1 DEF NoneEscapes, TypeOK
<1>13. PoolSize'
  <2>1. IsFiniteSet(children) /\ Cardinality(children) = Workers - 1
    BY <1>1, ChildrenAreFinite DEF TypeOK, PoolSize
  <2>2. Cardinality(children \cup {new}) = (Workers - 1) + 1
    BY <1>2, <2>1, FS_AddElement
  <2> QED
    BY <1>1, <2>2, MasterAssumption DEF PoolSize
<1>14. NoneStale'
  <2>1. wstate'[new] = Forked /\ \A p \in children : p # new => wstate'[p] = wstate[p]
    BY <1>1, <1>2 DEF TypeOK
  <2> QED
    BY <1>1, <1>2, <1>5, <2>1 DEF NoneStale
<1>15. OnlyTheLastIsStale'
  BY <1>1, <1>14 DEF OnlyTheLastIsStale, NoneStale
<1>16. DeathsHaveCauses'
  BY <1>1, <1>5 DEF DeathsHaveCauses, TypeOK
<1> QED
  BY <1>7, <1>9, <1>10, <1>11, <1>12, <1>13, <1>14, <1>15, <1>16

\* The teardown waits for the workers; whatever it reaps is on its way out.
LEMMA ReapsPreserves == ASSUME IInv, MasterReaps PROVE IInv'
<1> USE DEF IInv
<1>1. /\ pc = "reap" /\ pc' \in {"reap", "down"} /\ todo' \subseteq Pid
      /\ UNCHANGED <<shutdown, children, got, fastDeaths, gaveUp, nextPid, signals, orphans, cause>>
  BY DEF MasterReaps, boundVars, TypeOK
<1>2. /\ wstate' \in [Pid -> {"unborn", "dead", "reaped"} \cup Alive]
      /\ \A p \in Pid : wstate'[p] = wstate[p] \/ (wstate[p] = "dead" /\ wstate'[p] = "reaped")
  <2>1. CASE UNCHANGED wstate
    BY <2>1 DEF TypeOK
  <2>2. ASSUME NEW p \in Pid, wstate' = [wstate EXCEPT ![p] = IF @ = "dead" THEN "reaped" ELSE @]
        PROVE  /\ wstate' \in [Pid -> {"unborn", "dead", "reaped"} \cup Alive]
               /\ \A q \in Pid : \/ wstate'[q] = wstate[q]
                                 \/ wstate[q] = "dead" /\ wstate'[q] = "reaped"
    <3>1. wstate' \in [Pid -> {"unborn", "dead", "reaped"} \cup Alive]
      BY <2>2 DEF TypeOK
    <3>2. ASSUME NEW q \in Pid
          PROVE  wstate'[q] = wstate[q] \/ (wstate[q] = "dead" /\ wstate'[q] = "reaped")
      BY <2>2 DEF TypeOK
    <3> QED
      BY <3>1, <3>2
  <2>3. \/ UNCHANGED wstate
        \/ \E p \in Pid : wstate' = [wstate EXCEPT ![p] = IF @ = "dead" THEN "reaped" ELSE @]
    BY DEF MasterReaps, TypeOK
  <2> QED
    BY <2>1, <2>2, <2>3
<1>3. TypeOK'
  BY <1>1, <1>2 DEF TypeOK
<1>4. (FreshPids /\ NoneEscapes)'
  BY <1>1, <1>2 DEF FreshPids, NoneEscapes, Alive
<1>5. (GotIsReaped /\ PoolSize /\ NoneStale /\ OnlyTheLastIsStale /\ GuardIsExact
        /\ DeathsHaveCauses)'
  BY <1>1 DEF GotIsReaped, PoolSize, NoneStale, OnlyTheLastIsStale, GuardIsExact, DeathsHaveCauses
<1>6. StreakIsReal'
  <2>1. Counted \subseteq Counted'
    BY <1>1, <1>2 DEF Counted
  <2> QED
    BY <1>1, <2>1, CountedGrows
<1> QED
  BY <1>3, <1>4, <1>5, <1>6

\* A signal sets the flag, and may interrupt a waitpid.
LEMMA SignalPreserves == ASSUME IInv, Signal PROVE IInv'
<1> USE DEF IInv
<1>1. /\ shutdown' = TRUE /\ signals' \in 0 .. MaxSignals /\ todo' \subseteq Pid
      /\ UNCHANGED <<children, fastDeaths, gaveUp, nextPid, orphans, wstate, cause>>
  BY MasterAssumption DEF Signal, TypeOK
<1>2. \/ pc' = pc /\ got' = got
      \/ pc = "wait" /\ pc' = "returned" /\ got' = NoPid
  BY DEF Signal
<1>3. TypeOK'
  BY <1>1, <1>2 DEF TypeOK
<1>4. (FreshPids /\ NoneEscapes /\ GotIsReaped /\ PoolSize /\ GuardIsExact /\ DeathsHaveCauses)'
  BY <1>1, <1>2 DEF FreshPids, NoneEscapes, GotIsReaped, PoolSize, GuardIsExact, DeathsHaveCauses
<1>5. (NoneStale /\ OnlyTheLastIsStale)'
  BY <1>1, <1>2 DEF NoneStale, OnlyTheLastIsStale
<1>6. StreakIsReal'
  <2>1. Counted \subseteq Counted'
    BY <1>1, <1>2 DEF Counted
  <2> QED
    BY <1>1, <2>1, CountedGrows
<1> QED
  BY <1>3, <1>4, <1>5, <1>6

\* A worker sets itself up, dies or ends.
LEMMA WorkerPreserves ==
    ASSUME IInv, NEW p \in Pid, WorkerSetsUp(p) \/ WorkerDies(p) \/ WorkerTerminates(p)
    PROVE  IInv'
<1> USE DEF IInv
<1>1. /\ UNCHANGED <<pc, shutdown, children, got, todo, fastDeaths, gaveUp, nextPid, signals>>
      /\ orphans' \in 0 .. MaxOrphans
  BY MasterAssumption
  DEF WorkerSetsUp, WorkerDies, WorkerTerminates, masterVars, boundVars, TypeOK
<1>2. PICK s \in {"up", "dead"}, c \in Causes :
         /\ wstate[p] \in Alive
         /\ wstate' = [wstate EXCEPT ![p] = s]
         /\ cause' = [cause EXCEPT ![p] = c]
         /\ s = "dead" => wstate[p] = "terminating" \/ c # "none"
  <2>1. CASE WorkerDies(p)
    BY <2>1 DEF WorkerDies, Alive
  <2>2. CASE WorkerSetsUp(p) \/ WorkerTerminates(p)
    <3>1. cause' = [cause EXCEPT ![p] = cause[p]] /\ cause[p] \in Causes
      BY <2>2 DEF WorkerSetsUp, WorkerTerminates, TypeOK
    <3> QED
      BY <2>2, <3>1 DEF WorkerSetsUp, WorkerTerminates, Alive
  <2> QED
    BY <2>1, <2>2
<1>3. p \in children
  BY <1>2 DEF NoneEscapes
<1>4. TypeOK'
  BY <1>1, <1>2 DEF TypeOK, Alive
<1>5. (FreshPids /\ NoneEscapes)'
  BY <1>1, <1>2, <1>3 DEF FreshPids, NoneEscapes, TypeOK, Alive
<1>6. GotIsReaped'
  BY <1>1, <1>2 DEF GotIsReaped, TypeOK, Alive
<1>7. (PoolSize /\ GuardIsExact)'
  BY <1>1 DEF PoolSize, GuardIsExact
<1>8. (NoneStale /\ OnlyTheLastIsStale)'
  BY <1>1, <1>2 DEF NoneStale, OnlyTheLastIsStale, TypeOK
<1>9. DeathsHaveCauses'
  <2>1. wstate'[p] = s /\ cause'[p] = c
    BY <1>2 DEF TypeOK
  <2>2. \A q \in Pid : q # p => wstate'[q] = wstate[q] /\ cause'[q] = cause[q]
    BY <1>2 DEF TypeOK
  <2> QED
    <3>1. CASE pc \in {"kill", "reap", "down"}
      BY <1>1, <3>1 DEF DeathsHaveCauses
    <3>2. CASE pc \notin {"kill", "reap", "down"}
      <4>1. wstate[p] # "terminating"
        BY <3>2 DEF DeathsHaveCauses
      <4>2. s # "terminating" /\ (s \in {"dead", "reaped"} => c # "none")
        BY <1>2, <4>1
      <4> QED
        BY <1>1, <2>1, <2>2, <3>2, <4>2 DEF DeathsHaveCauses
    <3> QED
      BY <3>1, <3>2
<1>10. StreakIsReal'
  <2>1. Counted \subseteq Counted'
    BY <1>1, <1>2, <1>3 DEF Counted, TypeOK
  <2> QED
    BY <1>1, <2>1, CountedGrows
<1> QED
  BY <1>4, <1>5, <1>6, <1>7, <1>8, <1>9, <1>10
-----------------------------------------------------------------------------
\* The inductive step, action by action.
LEMMA NextPreserves == IInv /\ [Next]_vars => IInv'
<1> SUFFICES ASSUME IInv, [Next]_vars PROVE IInv'
  OBVIOUS
<1>1. CASE MasterStep
  BY <1>1, LooksPreserve, WaitsPreserves, ReturnedPreserves, GivesUpPreserves, RespawnPreserves,
     ReapsPreserves
  DEF MasterStep
<1>2. CASE UNCHANGED vars
  <2>1. UNCHANGED <<pc, shutdown, children, got, todo, fastDeaths, gaveUp, nextPid, signals,
                    orphans, wstate, cause>>
    BY <1>2 DEF vars, masterVars, boundVars
  <2>2. TypeOK' <=> TypeOK
    BY <2>1 DEF TypeOK
  <2>3. /\ FreshPids' <=> FreshPids
        /\ NoneEscapes' <=> NoneEscapes
        /\ GotIsReaped' <=> GotIsReaped
        /\ PoolSize' <=> PoolSize
        /\ NoneStale' <=> NoneStale
        /\ OnlyTheLastIsStale' <=> OnlyTheLastIsStale
    BY <2>1 DEF FreshPids, NoneEscapes, GotIsReaped, PoolSize, NoneStale, OnlyTheLastIsStale
  <2>4. /\ GuardIsExact' <=> GuardIsExact
        /\ DeathsHaveCauses' <=> DeathsHaveCauses
        /\ StreakIsReal' <=> StreakIsReal
    BY <2>1 DEF GuardIsExact, DeathsHaveCauses, StreakIsReal, Counted
  <2> QED
    BY <2>2, <2>3, <2>4 DEF IInv
<1> QED
  BY <1>1, <1>2, SignalPreserves, WorkerPreserves DEF Next

\* The invariant holds in every reachable state.
LEMMA Inductive == Spec => []IInv
  BY InitInv, NextPreserves, PTL DEF Spec

\* Every variable of the master and its workers has its type; the streak of
\* fast deaths never exceeds its limit.
THEOREM TypeCorrect == Spec => []TypeOK
<1>1. IInv => TypeOK
  BY DEF IInv
<1> QED
  BY <1>1, Inductive, PTL

\* The pool has its configured size between two deaths, and no worker exists
\* that the master does not track, whatever waitpid(-1) returned in between
\* (server.rs, run_server and remove_tracked_worker).
THEOREM PoolStaysWhole == Spec => []PoolIsWhole
<1>1. IInv => PoolIsWhole
  BY DEF IInv, PoolSize, NoneEscapes, PoolIsWhole
<1> QED
  BY <1>1, Inductive, PTL

\* Only the death that raced with a shutdown leaves a stale pid tracked.
THEOREM StalePidsAreBounded == Spec => []OnlyTheLastIsStale
<1>1. IInv => OnlyTheLastIsStale
  BY DEF IInv
<1> QED
  BY <1>1, Inductive, PTL

\* The crash-loop guard never trips on fewer startup deaths than its limit,
\* whatever recycles and late crashes are mixed with them (is_planned_recycle
\* and the accounting in run_server).
THEOREM GuardNeedsACrashLoop == Spec => []GivesUpOnlyOnCrashLoop
<1>1. IInv => GivesUpOnlyOnCrashLoop
  <2> SUFFICES ASSUME IInv, gaveUp
               PROVE  Cardinality({p \in Pid : cause[p] \in Startup}) >= MaxFastDeaths
    BY DEF GivesUpOnlyOnCrashLoop
  <2> DEFINE All == {p \in Pid : cause[p] \in Startup}
  <2>1. IsFiniteSet(All) /\ Cardinality(All) \in Nat
    BY ChildrenAreFinite
  <2>2. Counted \subseteq All
    BY DEF Counted
  <2>3. Cardinality(Counted) <= Cardinality(All) /\ Cardinality(Counted) \in Nat
    BY <2>1, <2>2, FS_Subset, FS_CardinalityType
  <2> HIDE DEF All
  <2>4. fastDeaths >= MaxFastDeaths /\ fastDeaths <= Cardinality(Counted) /\ fastDeaths \in Nat
    BY MasterAssumption DEF IInv, GuardIsExact, StreakIsReal, TypeOK
  <2>5. Cardinality(All) >= MaxFastDeaths
    BY <2>1, <2>3, <2>4, MasterAssumption
  <2> QED
    BY <2>5 DEF All
<1> QED
  BY <1>1, Inductive, PTL
-----------------------------------------------------------------------------
(***************************************************************************)
(* The teardown.  Without a signal beyond the one that started it, the     *)
(* waitpid of no worker is interrupted, so the ones the loop has passed    *)
(* are reaped.                                                             *)
(***************************************************************************)

Undisturbed == signals = IF gaveUp THEN 0 ELSE 1

Over(p) == wstate[p] \in {"unborn", "reaped"}

TeardownInv ==
    /\ shutdown => signals > 0
    /\ pc \in {"kill", "reap", "down"} => shutdown \/ gaveUp
    /\ pc = "reap" /\ Undisturbed => \A p \in children : p \in todo \/ Over(p)
    /\ pc = "down" /\ Undisturbed => \A p \in children : Over(p)

LEMMA InitTeardown == Init => TeardownInv
  BY DEF Init, TeardownInv

\* The master's steps: todo is all children when the reaping starts, and loses
\* only the ones that have been reaped.
LEMMA MasterTeardown == ASSUME IInv, TeardownInv, MasterStep PROVE TeardownInv'
<1>1. signals' = signals /\ shutdown' = shutdown
  BY DEF MasterStep, MasterCheck, MasterWaits, MasterReapsOrphan, MasterReturned, MasterSkips,
         MasterGivesUp, MasterRespawns, MasterAborts, MasterKills, MasterReaps, boundVars
<1>2. CASE MasterKills
  <2>1. /\ pc = "kill" /\ children' = children /\ gaveUp' = gaveUp /\ pc' \in {"kill", "reap"}
        /\ pc' = "reap" => todo' = children
    BY <1>2 DEF MasterKills
  <2> QED
    BY <1>1, <2>1 DEF TeardownInv
<1>3. CASE MasterReaps
  <2>1. /\ pc = "reap" /\ children' = children /\ gaveUp' = gaveUp /\ pc' \in {"reap", "down"}
        /\ pc' = "down" => todo = {} /\ wstate' = wstate
    BY <1>3 DEF MasterReaps
  <2>2. ASSUME NEW p \in children, pc' = "reap", p \in todo \/ Over(p)
        PROVE  p \in todo' \/ Over(p)'
    <3>1. PICK q \in todo : /\ ~ Blocks(q) /\ todo' = todo \ {q}
                            /\ wstate' = [wstate EXCEPT ![q] = IF @ = "dead" THEN "reaped" ELSE @]
      BY <1>3, <2>1, <2>2 DEF MasterReaps
    <3>2. p \in Pid /\ q \in Pid /\ wstate[p] \in {"unborn", "dead", "reaped"} \cup Alive
      BY DEF IInv, TypeOK
    <3>3. CASE p = q
      BY <3>1, <3>2, <3>3 DEF Blocks, Over, IInv, TypeOK
    <3>4. CASE p # q
      BY <2>2, <3>1, <3>2, <3>4 DEF Over, IInv, TypeOK
    <3> QED
      BY <3>3, <3>4
  <2> QED
    BY <1>1, <2>1, <2>2 DEF TeardownInv, Undisturbed, Over
<1>4. CASE MasterGivesUp
  BY <1>1, <1>4 DEF MasterGivesUp, TeardownInv
<1>5. CASE MasterCheck \/ MasterWaits \/ MasterReapsOrphan \/ MasterReturned \/ MasterSkips
           \/ MasterRespawns \/ MasterAborts
  <2>1. gaveUp' = gaveUp /\ pc' \notin {"reap", "down"} /\ (pc' = "kill" => shutdown)
    BY <1>5 DEF MasterCheck, MasterWaits, MasterReapsOrphan, MasterReturned, MasterSkips,
                MasterRespawns, MasterAborts
  <2> QED
    BY <1>1, <2>1 DEF TeardownInv
<1> QED
  BY <1>2, <1>3, <1>4, <1>5 DEF MasterStep

\* One more signal during the teardown is one too many.
LEMMA SignalTeardown == ASSUME IInv, TeardownInv, Signal PROVE TeardownInv'
<1>1. /\ signals' = signals + 1 /\ signals \in Nat /\ shutdown' = TRUE /\ gaveUp' = gaveUp
      /\ pc' = pc \/ (pc = "wait" /\ pc' = "returned")
  BY MasterAssumption DEF Signal, IInv, TypeOK
<1>2. pc \in {"reap", "down"} => ~ Undisturbed'
  BY <1>1 DEF Undisturbed, TeardownInv
<1> QED
  BY <1>1, <1>2 DEF TeardownInv

\* A process that is over does not come back.
LEMMA WorkerTeardown ==
    ASSUME IInv, TeardownInv, NEW p \in Pid,
           WorkerSetsUp(p) \/ WorkerDies(p) \/ WorkerTerminates(p)
    PROVE  TeardownInv'
<1>1. UNCHANGED <<pc, shutdown, children, todo, gaveUp, signals>>
  BY DEF WorkerSetsUp, WorkerDies, WorkerTerminates, masterVars, boundVars
<1>2. PICK s \in {"up", "dead"} : ~ Over(p) /\ wstate' = [wstate EXCEPT ![p] = s]
  BY DEF WorkerSetsUp, WorkerDies, WorkerTerminates, Over
<1>3. \A q \in children : Over(q) => Over(q)'
  BY <1>2 DEF Over, IInv, TypeOK
<1> QED
  BY <1>1, <1>3 DEF TeardownInv, Undisturbed

LEMMA TeardownPreserved == IInv /\ TeardownInv /\ [Next]_vars => TeardownInv'
<1> SUFFICES ASSUME IInv, TeardownInv, [Next]_vars PROVE TeardownInv'
  OBVIOUS
<1>1. CASE UNCHANGED vars
  BY <1>1 DEF vars, masterVars, boundVars, TeardownInv, Undisturbed, Over
<1> QED
  BY <1>1, MasterTeardown, SignalTeardown, WorkerTeardown DEF Next

\* A master that exits after a teardown no further signal interrupted has
\* reaped every worker it ever forked (the two loops at the end of run_server:
\* kill each child, then waitpid each of them).
THEOREM NoWorkerIsLeft == Spec => []NoWorkerLeftBehind
<1>1. IInv /\ TeardownInv => NoWorkerLeftBehind
  <2> SUFFICES ASSUME IInv, TeardownInv, pc = "down", Undisturbed, NEW p \in Pid
               PROVE  wstate[p] \in {"unborn", "reaped"}
    BY DEF NoWorkerLeftBehind, Undisturbed
  <2>1. CASE p \in children
    BY <2>1 DEF TeardownInv, Over
  <2>2. CASE p \notin children
    BY <2>2 DEF IInv, NoneEscapes, TypeOK
  <2> QED
    BY <2>1, <2>2
<1> QED
  BY <1>1, Inductive, InitTeardown, TeardownPreserved, PTL DEF Spec
=============================================================================
