----------------------------- MODULE WebMaster -----------------------------
(***************************************************************************)
(* The prefork master of the web server: run_server in                     *)
(* crates/elephc-web/src/server.rs forks the workers, replaces the ones    *)
(* that die, gives up on a crash loop, and tears everything down on        *)
(* SIGINT/SIGTERM.  A worker is only its life cycle here; what it serves   *)
(* is WebWorker, and its broker is HandlerPool or RequestBroker.           *)
(*                                                                         *)
(* RaceWindows names the points where a signal may fall between two        *)
(* instructions:                                                           *)
(*   "wait"  after the master read SHUTDOWN and before waitpid blocks,     *)
(*   "fork"  in a child that still has the master's catch-and-flag handler,*)
(*   "reap"  while the teardown's waitpid blocks.                          *)
(* waitpid never reports ECHILD here: a supervising master always has a    *)
(* tracked child that nobody else can reap (PoolIsWhole).                  *)
(***************************************************************************)
EXTENDS Naturals, FiniteSets

CONSTANTS Workers,          \* --workers
          MaxFastDeaths,    \* MAX_FAST_DEATHS (10 in the code)
          MaxPids,          \* bound: workers ever forked
          MaxSignals,       \* bound: shutdown signals sent to the master
          MaxOrphans,       \* bound: descendants reparented to the master (PID 1)
          RaceWindows       \* see above

ASSUME MasterAssumption ==
    /\ Workers \in Nat \ {0}
    /\ MaxFastDeaths \in Nat \ {0}
    /\ MaxPids \in Nat /\ MaxPids >= Workers
    /\ MaxSignals \in Nat
    /\ MaxOrphans \in Nat
    /\ RaceWindows \subseteq {"wait", "fork", "reap"}

Pid   == 1 .. MaxPids
NoPid == 0

VARIABLES
    pc,           \* where run_server stands
    shutdown,     \* SHUTDOWN
    children,     \* the tracked pids
    got,          \* what waitpid returned last; NoPid for an error or a stranger
    todo,         \* teardown: the pids still to signal, then still to wait for
    fastDeaths, gaveUp,
    nextPid, signals, orphans,
    wstate,       \* wstate[p]: the process
    cause         \* cause[p]: how it died, which its wait status and age tell;
                  \* cause[NoPid]: of whatever waitpid returned that is no worker

masterVars == <<pc, shutdown, children, got, todo, fastDeaths, gaveUp>>
boundVars  == <<nextPid, signals, orphans>>
vars       == <<masterVars, boundVars, wstate, cause>>

\* A "deaf" worker swallowed the SIGTERM it got before resetting its handlers.
Alive  == {"fresh", "up", "deaf", "terminating"}
Causes == {"none", "recycle", "fast", "slow", "bootstrap"}
\* Deaths that feed the crash-loop guard; a slow one resets it.
Startup == {"fast", "bootstrap"}

TypeOK ==
    /\ pc \in {"check", "wait", "returned", "removed", "kill", "reap", "down", "aborted"}
    /\ shutdown \in BOOLEAN
    /\ children \subseteq Pid
    /\ got \in Pid \cup {NoPid}
    /\ todo \subseteq Pid
    /\ fastDeaths \in 0 .. MaxFastDeaths
    /\ gaveUp \in BOOLEAN
    /\ nextPid \in 1 .. MaxPids + 1
    /\ signals \in 0 .. MaxSignals
    /\ orphans \in 0 .. MaxOrphans
    /\ wstate \in [Pid -> {"unborn", "dead", "reaped"} \cup Alive]
    /\ cause \in [Pid \cup {NoPid} -> Causes]

\* The state of a child right after fork.
Forked == IF "fork" \in RaceWindows THEN "fresh" ELSE "up"

Init ==
    /\ pc = "check" /\ shutdown = FALSE
    /\ children = 1 .. Workers
    /\ got = NoPid /\ todo = {}
    /\ fastDeaths = 0 /\ gaveUp = FALSE
    /\ nextPid = Workers + 1 /\ signals = 0 /\ orphans = 0
    /\ wstate = [p \in Pid |-> IF p <= Workers THEN Forked ELSE "unborn"]
    /\ cause = [p \in Pid \cup {NoPid} |-> "none"]

-----------------------------------------------------------------------------
(***************************************************************************)
(* Supervision.                                                            *)
(***************************************************************************)
MasterCheck ==
    /\ pc = "check"
    /\ IF shutdown THEN pc' = "kill" /\ todo' = children
                   ELSE pc' = "wait" /\ UNCHANGED todo
    /\ UNCHANGED <<shutdown, children, got, fastDeaths, gaveUp, boundVars, wstate, cause>>

\* waitpid(-1) returns a dead worker ...
MasterWaits ==
    /\ pc = "wait"
    /\ \E p \in Pid :
          /\ wstate[p] = "dead"
          /\ wstate' = [wstate EXCEPT ![p] = "reaped"]
          /\ got' = p
    /\ pc' = "returned"
    /\ UNCHANGED <<shutdown, children, todo, fastDeaths, gaveUp, boundVars, cause>>

\* ... or a descendant of one, reparented to a master that is PID 1.
MasterReapsOrphan ==
    /\ pc = "wait"
    /\ orphans > 0
    /\ orphans' = orphans - 1
    /\ got' = NoPid
    /\ pc' = "returned"
    /\ UNCHANGED <<shutdown, children, todo, fastDeaths, gaveUp, nextPid, signals,
                   wstate, cause>>

\* remove_tracked_worker.  Mutants: every pid is taken for a worker; a pid
\* stays in the vector.
MutTracked(p) == TRUE
Tracked(p) == p \in children
MutUntracked(p) == children
Untracked(p) == children \ {p}

\* The second look at SHUTDOWN leaves the reaped pid among the children.
MasterReturned ==
    /\ pc = "returned"
    /\ \/ shutdown  /\ pc' = "kill"  /\ todo' = children /\ UNCHANGED children
       \/ ~shutdown /\ ~Tracked(got) /\ pc' = "check" /\ UNCHANGED <<children, todo>>
       \/ ~shutdown /\ Tracked(got)  /\ pc' = "removed" /\ children' = Untracked(got)
                    /\ UNCHANGED todo
    /\ UNCHANGED <<shutdown, got, fastDeaths, gaveUp, boundVars, wstate, cause>>

\* The third look: no replacement once a shutdown is under way.
MasterSkips ==
    /\ pc = "removed"
    /\ shutdown
    /\ IF children = {} THEN pc' = "kill" /\ todo' = {}
                        ELSE pc' = "check" /\ UNCHANGED todo
    /\ UNCHANGED <<shutdown, children, got, fastDeaths, gaveUp, boundVars, wstate, cause>>

\* is_planned_recycle.  Mutant: a recycle is taken for a crash.
MutIsPlannedRecycle(p) == FALSE
IsPlannedRecycle(p) == cause[p] = "recycle"

\* Mutant: one more than allowed.
MutCrashLoop(deaths) == deaths > MaxFastDeaths
CrashLoop(deaths) == deaths >= MaxFastDeaths

\* The streak after the death of p.
Streak(p) ==
    CASE IsPlannedRecycle(p) -> fastDeaths
      [] ~IsPlannedRecycle(p) /\ cause[p] = "slow" -> 0
      [] OTHER -> fastDeaths + 1

GivesUp(p) == ~IsPlannedRecycle(p) /\ cause[p] # "slow" /\ CrashLoop(Streak(p))

MasterGivesUp ==
    /\ pc = "removed"
    /\ ~shutdown
    /\ GivesUp(got)
    /\ fastDeaths' = Streak(got)
    /\ gaveUp' = TRUE
    /\ pc' = "kill" /\ todo' = children
    /\ UNCHANGED <<shutdown, children, got, boundVars, wstate, cause>>

\* spawn_worker in the place of the dead one.
MasterRespawns ==
    /\ pc = "removed"
    /\ ~shutdown
    /\ ~GivesUp(got)
    /\ nextPid <= MaxPids
    /\ fastDeaths' = Streak(got)
    /\ wstate' = [wstate EXCEPT ![nextPid] = Forked]
    /\ children' = children \cup {nextPid}
    /\ nextPid' = nextPid + 1
    /\ pc' = "check"
    /\ UNCHANGED <<shutdown, got, todo, gaveUp, signals, orphans, cause>>

\* fork() failed, as it may at any time: exit(1) at once, without the teardown.
MasterAborts ==
    /\ pc = "removed"
    /\ ~shutdown
    /\ ~GivesUp(got)
    /\ pc' = "aborted"
    /\ UNCHANGED <<shutdown, children, got, todo, fastDeaths, gaveUp, boundVars, wstate,
                   cause>>

-----------------------------------------------------------------------------
(***************************************************************************)
(* Teardown.                                                               *)
(***************************************************************************)

\* What SIGTERM does to a worker: a fresh one runs the inherited handler and
\* goes on.  Mutant: reset_signal_handlers_to_default is forgotten.
MutSigterm(p) == wstate[p]
Sigterm(p) ==
    CASE wstate[p] = "up"    -> "terminating"
      [] wstate[p] = "fresh" -> "deaf"
      [] OTHER               -> wstate[p]

MasterKills ==
    /\ pc = "kill"
    /\ \/ \E p \in todo :
             /\ wstate' = [wstate EXCEPT ![p] = Sigterm(p)]
             /\ todo' = todo \ {p}
             /\ UNCHANGED pc
       \/ /\ todo = {}
          /\ todo' = children
          /\ pc' = "reap"
          /\ UNCHANGED wstate
    /\ UNCHANGED <<shutdown, children, got, fastDeaths, gaveUp, boundVars, cause>>

\* waitpid(p) blocks while p lives, and fails for a pid already reaped.
\* Mutant: WNOHANG.
MutBlocks(p) == FALSE
Blocks(p) == wstate[p] \in Alive

MasterReaps ==
    /\ pc = "reap"
    /\ \/ \E p \in todo :
             /\ ~Blocks(p)
             /\ wstate' = [wstate EXCEPT ![p] = IF @ = "dead" THEN "reaped" ELSE @]
             /\ todo' = todo \ {p}
             /\ UNCHANGED pc
       \/ /\ todo = {}
          /\ pc' = "down"
          /\ UNCHANGED <<todo, wstate>>
    /\ UNCHANGED <<shutdown, children, got, fastDeaths, gaveUp, boundVars, cause>>

-----------------------------------------------------------------------------
(***************************************************************************)
(* The environment: signals, and the workers' lives.                       *)
(***************************************************************************)

\* SIGINT or SIGTERM at the master.  A blocked waitpid returns EINTR: the
\* supervising one re-reads SHUTDOWN, a teardown one is not repeated.  In the
\* "wait" window the flag is set but nothing is interrupted.
Signal ==
    /\ pc \notin {"down", "aborted"}
    /\ signals < MaxSignals                     \* bound
    /\ signals' = signals + 1
    /\ shutdown' = TRUE
    /\ \/ pc = "wait" /\ pc' = "returned" /\ got' = NoPid /\ UNCHANGED todo
       \/ pc = "wait" /\ "wait" \in RaceWindows /\ UNCHANGED <<pc, got, todo>>
       \/ /\ pc = "reap" /\ "reap" \in RaceWindows
          /\ \E p \in todo : wstate[p] \in Alive /\ todo' = todo \ {p}
          /\ UNCHANGED <<pc, got>>
       \/ pc # "wait" /\ UNCHANGED <<pc, got, todo>>
    /\ UNCHANGED <<children, fastDeaths, gaveUp, nextPid, orphans, wstate, cause>>

\* reset_signal_handlers_to_default.
WorkerSetsUp(p) ==
    /\ wstate[p] = "fresh"
    /\ wstate' = [wstate EXCEPT ![p] = "up"]
    /\ UNCHANGED <<masterVars, boundVars, cause>>

\* A crash, a recycle, a failed bind or bootstrap; its own children may be
\* left to the master.
WorkerDies(p) ==
    /\ wstate[p] \in {"fresh", "up", "deaf"}
    /\ wstate' = [wstate EXCEPT ![p] = "dead"]
    /\ \E c \in Causes \ {"none"} : cause' = [cause EXCEPT ![p] = c]
    /\ \/ UNCHANGED orphans
       \/ orphans < MaxOrphans /\ orphans' = orphans + 1
    /\ UNCHANGED <<masterVars, nextPid, signals>>

\* SIGTERM's default action, or the end of a requested drain.
WorkerTerminates(p) ==
    /\ wstate[p] = "terminating"
    /\ wstate' = [wstate EXCEPT ![p] = "dead"]
    /\ UNCHANGED <<masterVars, boundVars, cause>>

-----------------------------------------------------------------------------
MasterStep ==
    \/ MasterCheck \/ MasterWaits \/ MasterReapsOrphan \/ MasterReturned \/ MasterSkips
    \/ MasterGivesUp \/ MasterRespawns \/ MasterAborts \/ MasterKills \/ MasterReaps

Next ==
    \/ MasterStep
    \/ Signal
    \/ \E p \in Pid : WorkerSetsUp(p) \/ WorkerDies(p) \/ WorkerTerminates(p)

Spec == Init /\ [][Next]_vars

\* The master and its workers are scheduled; workers need not die, signals need
\* not come, and a drain that was asked for need not end.
Fairness ==
    /\ WF_vars(MasterStep)
    /\ \A p \in Pid : WF_vars(WorkerSetsUp(p))

FairSpec == Spec /\ Fairness

-----------------------------------------------------------------------------
(***************************************************************************)
(* Properties.                                                             *)
(***************************************************************************)

\* Between two deaths the pool has exactly the configured size, whatever
\* mixture of crashes, recycles and reaped strangers came before, and no
\* worker process exists that the master does not track.
PoolIsWhole ==
    /\ pc \in {"check", "wait"} /\ ~shutdown => Cardinality(children) = Workers
    /\ \A p \in Pid : wstate[p] \in Alive \cup {"dead"} => p \in children

\* A tracked pid belongs to the master's own child.  The one exception is the
\* death that raced with the shutdown: its pid is reaped but still tracked,
\* and the teardown signals it.
OnlyTheLastIsStale ==
    \A p \in children : wstate[p] = "reaped" =>
        \/ p = got /\ (pc = "returned" \/ shutdown)
        \/ pc \in {"reap", "down"}

\* The master gives up on a crash loop only after that many workers died on
\* startup; planned recycles and late crashes never trip the guard.
GivesUpOnlyOnCrashLoop ==
    gaveUp => Cardinality({p \in Pid : cause[p] \in Startup}) >= MaxFastDeaths

\* A worker that was told to stop drains for ever.
DrainLasts == \E p \in Pid : <>[](wstate[p] = "terminating")

\* "The master shuts down cleanly on SIGINT and SIGTERM: it forwards
\* termination to the workers, reaps them, and exits" (docs/beyond-php/web.md).
\* A shutdown can hang in three ways: the signal fell between the look at
\* SHUTDOWN and waitpid, a worker swallowed its SIGTERM, or the drain of a
\* worker that did get it lasts for ever.
ShutdownHangsOnlyInARace ==
    \/ shutdown ~> \/ pc \in {"down", "aborted"}
                   \/ pc = "wait"
                   \/ \E p \in todo : wstate[p] = "deaf"
    \/ DrainLasts

\* When the master exits after a teardown that no further signal interrupted,
\* every worker it ever forked has been reaped.
NoWorkerLeftBehind ==
    pc = "down" /\ signals = (IF gaveUp THEN 0 ELSE 1) =>
        \A p \in Pid : wstate[p] \in {"unborn", "reaped"}
=============================================================================
