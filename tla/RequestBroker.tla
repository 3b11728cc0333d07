---------------------------- MODULE RequestBroker ----------------------------
(***************************************************************************)
(* --web-isolation=request: the broker that forks one disposable handler   *)
(* per dispatched request (handler_broker/process/request.rs, process.rs), *)
(* composed with the web worker that dispatches to it (WorkerDispatch).    *)
(***************************************************************************)
EXTENDS WorkerDispatch, SequencesExt

CONSTANTS MaxPids,          \* bound: processes the broker may fork
          MaxFaults         \* bound: forks that fail and handlers that die of their own accord

ASSUME RequestAssumption ==
    /\ MaxPids \in Nat /\ MaxPids >= MaxRequests
    /\ MaxFaults \in Nat

Pid   == 1 .. MaxPids
NoPid == 0

VARIABLES
    pc, stopping,          \* the broker's loop position; BROKER_SHUTDOWN_REQUESTED
    active,                \* active[r]: pid of the live handler of r, or NoPid
    pending, earlyCancels, greatestDispatch,
    ready,                 \* the readable descriptors of the last poll
    brokerFds,             \* ids whose stream descriptor the broker holds
    nextPid, forkFailures, crashes,
    pstate, preq,          \* the handlers: life cycle and request
    childFds,              \* stream descriptors in the handler's table
    runs                   \* history: how often a handler was started for r

brokerVars == <<pc, stopping, active, pending, earlyCancels, greatestDispatch,
                ready, brokerFds>>
childVars  == <<pstate, preq, childFds>>
boundVars  == <<nextPid, forkFailures, crashes>>
brokerSide == <<brokerVars, childVars, boundVars, runs>>
vars       == <<workerVars, brokerSide>>

BrokerUp == pc \notin {"down", "killed"}

\* The handler's end of the stream of r is open somewhere.
Open(r) ==
    \/ r \in workerFds \cup brokerFds
    \/ \E i \in 1 .. Len(dispatchQ) : dispatchQ[i] = r
    \/ \E p \in Pid : r \in childFds[p]

BrokerTypeOK ==
    /\ pc \in {"top", "reap", "start", "poll", "cancel", "dispatch", "exit",
               "down", "killed"}
    /\ stopping \in BOOLEAN
    /\ active \in [Req -> Pid \cup {NoPid}]
    /\ pending \in Seq(Req)
    /\ earlyCancels \subseteq Req
    /\ greatestDispatch \in Req \cup {NoReq}
    /\ ready \subseteq {"cancel", "dispatch"}
    /\ brokerFds \subseteq Req
    /\ nextPid \in 1 .. MaxPids + 1
    /\ forkFailures \in 0 .. MaxFaults
    /\ crashes \in 0 .. MaxFaults
    /\ pstate \in [Pid -> {"unborn", "run", "zombie", "reaped"}]
    /\ preq \in [Pid -> Req \cup {NoReq}]
    /\ childFds \in [Pid -> SUBSET Req]
    /\ runs \in [Req -> Nat]

TypeOK == WorkerTypeOK /\ BrokerTypeOK

Init ==
    /\ WorkerInit
    /\ pc = "top" /\ stopping = FALSE
    /\ active = [r \in Req |-> NoPid]
    /\ pending = <<>> /\ earlyCancels = {} /\ greatestDispatch = NoReq
    /\ ready = {} /\ brokerFds = {}
    /\ nextPid = 1 /\ forkFailures = 0 /\ crashes = 0
    /\ pstate = [p \in Pid |-> "unborn"]
    /\ preq = [p \in Pid |-> NoReq]
    /\ childFds = [p \in Pid |-> {}]
    /\ runs = [r \in Req |-> 0]

-----------------------------------------------------------------------------
(***************************************************************************)
(* The broker's loop.                                                      *)
(***************************************************************************)
BrokerTop ==
    /\ pc = "top"
    /\ pc' = IF stopping THEN "exit" ELSE "reap"
    /\ UNCHANGED <<workerVars, stopping, active, pending, earlyCancels,
                   greatestDispatch, ready, brokerFds, childVars, boundVars, runs>>

\* Ending a handler: its descriptors close.
Reaped(p) ==
    /\ pstate' = [pstate EXCEPT ![p] = "reaped"]
    /\ childFds' = [childFds EXCEPT ![p] = {}]
    /\ UNCHANGED preq

\* The map without an exited pid.
Forget(p) == [r \in Req |-> IF active[r] = p THEN NoPid ELSE active[r]]

\* One round of reap_request_children: the mapping of an exited pid goes.
BrokerReap ==
    /\ pc = "reap"
    /\ \E p \in Pid :
          /\ pstate[p] = "zombie"
          /\ Reaped(p)
          /\ active' = Forget(p)
    /\ UNCHANGED <<workerVars, pc, stopping, pending, earlyCancels,
                   greatestDispatch, ready, brokerFds, boundVars, runs>>

BrokerReapedAll ==
    /\ pc = "reap"
    /\ \A p \in Pid : pstate[p] # "zombie"
    /\ pc' = "start"
    /\ UNCHANGED <<workerVars, stopping, active, pending, earlyCancels,
                   greatestDispatch, ready, brokerFds, childVars, boundVars, runs>>

Actives  == {r \in Req : active[r] # NoPid}
\* Mutant: one too many.
MutCapacity == Cardinality(Actives) <= Concurrency
Capacity == Cardinality(Actives) < Concurrency

\* The child of the fork for id closes the channels still pending.
\* Mutant: it closes none of them.
MutInheritedFds(queued) == brokerFds
InheritedFds(queued) == brokerFds \ Range(queued)

\* One round of start_pending_requests; the broker closes its copy.
BrokerFork ==
    /\ pc = "start"
    /\ Capacity
    /\ pending # <<>>
    /\ nextPid <= MaxPids
    /\ pending' = Tail(pending)
    /\ pstate' = [pstate EXCEPT ![nextPid] = "run"]
    /\ preq' = [preq EXCEPT ![nextPid] = Head(pending)]
    /\ childFds' = [childFds EXCEPT ![nextPid] = InheritedFds(Tail(pending))]
    /\ brokerFds' = brokerFds \ {Head(pending)}
    /\ active' = [active EXCEPT ![Head(pending)] = nextPid]
    /\ runs' = [runs EXCEPT ![Head(pending)] = @ + 1]
    /\ nextPid' = nextPid + 1
    /\ UNCHANGED <<workerVars, pc, stopping, earlyCancels, greatestDispatch, ready,
                   forkFailures, crashes>>

\* write_failure_response, and the channel is closed.
\* Mutant: the loop goes on without either.
MutRefuse(id) == UNCHANGED <<frames, brokerFds>>
Refuse(id) ==
    /\ frames' = [frames EXCEPT ![id] = "fail"]
    /\ brokerFds' = brokerFds \ {id}

\* fork() failed: the broker itself answers 500 and goes on.
BrokerForkFails ==
    /\ pc = "start"
    /\ Capacity
    /\ pending # <<>>
    /\ forkFailures + crashes < MaxFaults      \* bound
    /\ forkFailures' = forkFailures + 1
    /\ pending' = Tail(pending)
    /\ Refuse(Head(pending))
    /\ UNCHANGED <<worker, waiting, nextId, req, dispatching, workerFds, cancels, dispatchQ,
                   ackQ, cancelQ, pc, stopping, active, earlyCancels,
                   greatestDispatch, ready, childVars, nextPid, crashes, runs>>

\* Nothing more to start; getppid() tells whether the worker is still there.
BrokerStarted ==
    /\ pc = "start"
    /\ ~Capacity \/ pending = <<>>
    /\ pc' = IF ParentGone THEN "exit" ELSE "poll"
    /\ UNCHANGED <<workerVars, stopping, active, pending, earlyCancels,
                   greatestDispatch, ready, brokerFds, childVars, boundVars, runs>>

\* The readable descriptors are served in this order, one datagram each.
NextReady(channels) ==
    CASE "cancel" \in channels -> "cancel"
      [] channels = {"dispatch"} -> "dispatch"
      [] OTHER -> "top"

BrokerPoll ==
    /\ pc = "poll"
    /\ ready' = {c \in {"cancel", "dispatch"} :
                    \/ c = "cancel" /\ cancelQ # <<>>
                    \/ c = "dispatch" /\ dispatchQ # <<>>}
    /\ pc' = NextReady(ready')
    /\ UNCHANGED <<workerVars, stopping, active, pending, earlyCancels,
                   greatestDispatch, brokerFds, childVars, boundVars, runs>>

\* cancel_request: exactly one of the three cases applies to an id.
\* Mutant: the mapping stays.
MutCancelActiveStays(id) ==
    /\ active[id] # NoPid
    /\ Reaped(active[id])
    /\ UNCHANGED <<active, pending, earlyCancels, brokerFds>>
CancelActive(id) ==
    /\ active[id] # NoPid
    /\ active' = [active EXCEPT ![id] = NoPid]
    /\ Reaped(active[id])
    /\ UNCHANGED <<pending, earlyCancels, brokerFds>>

CancelQueued(id) ==
    /\ active[id] = NoPid
    /\ \E i \in 1 .. Len(pending) :
          /\ pending[i] = id
          /\ pending' = RemoveAt(pending, i)
          /\ brokerFds' = brokerFds \ {id}
    /\ UNCHANGED <<active, earlyCancels, childVars>>

CancelUnknown(id) ==
    /\ active[id] = NoPid
    /\ \A i \in 1 .. Len(pending) : pending[i] # id
    /\ earlyCancels' = IF id > greatestDispatch THEN earlyCancels \cup {id}
                                                ELSE earlyCancels
    /\ UNCHANGED <<active, pending, brokerFds, childVars>>

BrokerCancel ==
    /\ pc = "cancel"
    /\ ready' = ready \ {"cancel"}
    /\ pc' = NextReady(ready')
    /\ LET id == Head(cancelQ) IN
       CancelActive(id) \/ CancelQueued(id) \/ CancelUnknown(id)
    /\ cancelQ' = Tail(cancelQ)
    /\ UNCHANGED <<worker, waiting, nextId, req, dispatching, workerFds, cancels, dispatchQ,
                   ackQ, frames, stopping, greatestDispatch, boundVars, runs>>

Enqueue(id) ==
    /\ ackQ' = Append(ackQ, id)
    /\ greatestDispatch' = IF id > greatestDispatch THEN id ELSE greatestDispatch
    /\ earlyCancels' = earlyCancels \ {id}
    /\ IF id \in earlyCancels
       THEN UNCHANGED <<pending, brokerFds>>
       ELSE /\ pending' = Append(pending, id)
            /\ brokerFds' = brokerFds \cup {id}

BrokerDispatch ==
    /\ pc = "dispatch"
    /\ ready' = {}
    /\ dispatchQ' = Tail(dispatchQ)
    /\ \/ worker = "up" /\ pc' = "top" /\ Enqueue(Head(dispatchQ))
       \/ /\ worker = "gone" /\ pc' = "exit"
          /\ UNCHANGED <<ackQ, greatestDispatch, earlyCancels, pending, brokerFds>>
    /\ UNCHANGED <<worker, waiting, nextId, req, dispatching, workerFds, cancels, cancelQ,
                   frames, stopping, active, childVars, boundVars, runs>>

\* Leaving run(): close the pending channels, terminate_request_children, exit.
Terminated(p) == \E r \in Req : active[r] = p

BrokerExit ==
    /\ pc = "exit"
    /\ pc' = "down"
    /\ pending' = <<>>
    /\ brokerFds' = {}
    /\ dispatchQ' = <<>>
    /\ pstate' = [p \in Pid |-> IF Terminated(p) THEN "reaped" ELSE pstate[p]]
    /\ childFds' = [p \in Pid |-> IF Terminated(p) THEN {} ELSE childFds[p]]
    /\ UNCHANGED <<worker, waiting, nextId, req, dispatching, workerFds, cancels, ackQ,
                   cancelQ, frames, stopping, active, earlyCancels,
                   greatestDispatch, ready, preq, boundVars, runs>>

BrokerSigterm ==
    /\ BrokerUp
    /\ ~stopping
    /\ stopping' = TRUE
    /\ UNCHANGED <<workerVars, pc, active, pending, earlyCancels, greatestDispatch,
                   ready, brokerFds, childVars, boundVars, runs>>

\* SIGKILL: the handlers are left behind, the descriptors close.
BrokerKilled ==
    /\ BrokerUp
    /\ pc' = "killed"
    /\ brokerFds' = {}
    /\ pending' = <<>>
    /\ dispatchQ' = <<>>
    /\ UNCHANGED <<worker, waiting, nextId, req, dispatching, workerFds, cancels, ackQ,
                   cancelQ, frames, stopping, active, earlyCancels,
                   greatestDispatch, ready, childVars, boundVars, runs>>

-----------------------------------------------------------------------------
(***************************************************************************)
(* A disposable handler: run_request_child.                                *)
(***************************************************************************)
ChildStart(p) ==
    /\ pstate[p] = "run"
    /\ frames[preq[p]] = "none"
    /\ frames' = [frames EXCEPT ![preq[p]] = "start"]
    /\ UNCHANGED <<worker, waiting, nextId, req, dispatching, workerFds, cancels, dispatchQ,
                   ackQ, cancelQ, brokerSide>>

\* More output; the pump of a client that is still there passes it on at once.
ChildWrites(p) ==
    /\ pstate[p] = "run"
    /\ req[preq[p]] = "pump"
    /\ frames[preq[p]] = "start"
    /\ frames' = [frames EXCEPT ![preq[p]] = "chunk"]
    /\ UNCHANGED <<worker, waiting, nextId, req, dispatching, workerFds, cancels, dispatchQ,
                   ackQ, cancelQ, brokerSide>>

\* The End frame is written, the stream closed, and the process exits.
ChildFinish(p) ==
    /\ pstate[p] = "run"
    /\ frames' = [frames EXCEPT ![preq[p]] = "end"]
    /\ pstate' = [pstate EXCEPT ![p] = "zombie"]
    /\ childFds' = [childFds EXCEPT ![p] = {}]
    /\ UNCHANGED <<worker, waiting, nextId, req, dispatching, workerFds, cancels, dispatchQ,
                   ackQ, cancelQ, brokerVars, preq, boundVars, runs>>

\* _exit(1): the reader left before the request was read or answered.
ChildIncomplete(p) ==
    /\ pstate[p] = "run"
    /\ req[preq[p]] \in Settled
    /\ pstate' = [pstate EXCEPT ![p] = "zombie"]
    /\ childFds' = [childFds EXCEPT ![p] = {}]
    /\ UNCHANGED <<workerVars, brokerVars, preq, boundVars, runs>>

\* --max-execution-time, a fatal error, an external kill.
ChildDies(p) ==
    /\ pstate[p] = "run"
    /\ forkFailures + crashes < MaxFaults      \* bound
    /\ crashes' = crashes + 1
    /\ pstate' = [pstate EXCEPT ![p] = "zombie"]
    /\ childFds' = [childFds EXCEPT ![p] = {}]
    /\ UNCHANGED <<workerVars, brokerVars, preq, nextPid, forkFailures, runs>>

-----------------------------------------------------------------------------
WorkerTask(r) == ReadStart(r) \/ ReadEnd(r) \/ ReadEof(r, Open(r)) \/ ChunkRefused(r)

WorkerStep ==
    /\ \/ AcquirePermit \/ AbandonWait
       \/ SendDispatch(BrokerUp)
       \/ ReceiveAck
       \/ \E r \in Req : WorkerTask(r) \/ WriteTimesOut(r) \/ ClientLeaves(r)
       \/ SendCancel(BrokerUp)
       \/ WorkerExit
    /\ UNCHANGED brokerSide

BrokerStep ==
    \/ BrokerTop \/ BrokerReap \/ BrokerReapedAll \/ BrokerFork \/ BrokerForkFails
    \/ BrokerStarted \/ BrokerPoll \/ BrokerCancel \/ BrokerDispatch \/ BrokerExit

ChildStep(p) == ChildStart(p) \/ ChildWrites(p) \/ ChildFinish(p) \/ ChildIncomplete(p)

Next ==
    \/ WorkerStep
    \/ BrokerStep \/ BrokerSigterm \/ BrokerKilled
    \/ \E p \in Pid : ChildStep(p) \/ ChildDies(p)

Spec == Init /\ [][Next]_vars

\* The broker and the worker's tasks get to run; nothing says that a handler
\* ever returns.
Fairness ==
    /\ WF_vars(BrokerStep)
    /\ WF_vars(SendDispatch(BrokerUp) /\ UNCHANGED brokerSide)
    /\ WF_vars(ReceiveAck /\ UNCHANGED brokerSide)
    /\ WF_vars(SendCancel(BrokerUp) /\ UNCHANGED brokerSide)
    /\ \A r \in Req : WF_vars(WorkerTask(r) /\ UNCHANGED brokerSide)
    /\ WF_vars(~BrokerUp /\ WorkerExit /\ UNCHANGED brokerSide)

FairSpec == Spec /\ Fairness

-----------------------------------------------------------------------------
(***************************************************************************)
(* Properties.                                                             *)
(***************************************************************************)

\* The map the broker kills by is exact: an id's pid is that id's handler and
\* was not reaped, and every handler that exists is in the map, so none
\* escapes the cap, a cancellation or the shutdown.
ActiveIsExact ==
    BrokerUp =>
        /\ \A r \in Req : active[r] # NoPid =>
               preq[active[r]] = r /\ pstate[active[r]] \in {"run", "zombie"}
        /\ \A p \in Pid : pstate[p] \in {"run", "zombie"} => active[preq[p]] = p

\* A handler's table has the stream of its own request and no other.
NoForeignStream == \A p \in Pid : \A r \in childFds[p] : preq[p] = r

StatusOf(r) ==
    CASE frames[r] = "end" -> "finished"
      [] frames[r] # "end" /\ \E p \in Pid : pstate[p] = "run" /\ preq[p] = r -> "running"
      [] req[r] = "new" -> "idle"
      [] OTHER -> IF runs[r] = 0 /\ ~Ended(r) /\ Open(r) THEN "queued" ELSE "dropped"

\* A complete 500 of the broker is a broken answer too: no handler ran.
AnswerOf(r) ==
    CASE req[r] = "done" /\ frames[r] # "fail" -> "complete"
      [] req[r] = "lost" \/ (req[r] = "done" /\ frames[r] = "fail") -> "broken"
      [] req[r] \in {"gone", "pump"} -> "left"
      [] OTHER -> "none"

Service == INSTANCE RequestService WITH
              Requests <- Req, Limit <- Concurrency,
              status <- [r \in Req |-> StatusOf(r)],
              answer <- [r \in Req |-> AnswerOf(r)]

\* The request broker implements the same service as the pool.
ImplementsService == Service!Spec

\* If no handler runs for ever, every dispatched request is settled.
RequestsSettle ==
    (\A p \in Pid : []<>(pstate[p] # "run"))
        => \A r \in Req : (req[r] = "sent") ~> (req[r] \in Settled)

\* A handler whose client left is stopped, even one that never returns: at once
\* before its first output, and after it with the next.  A handler that has
\* begun its output and stays silent goes on, and keeps its permit.
CancelledStops ==
    \A r \in Req : (req[r] = "gone" \/ (req[r] = "pump" /\ frames[r] = "chunk"))
        ~> (pc = "killed" \/ \A p \in Pid : preq[p] = r => pstate[p] # "run")

\* SIGTERM, or the worker's death, takes the broker and all its handlers down.
ShutdownCompletes ==
    (stopping \/ worker = "gone")
        ~> \/ pc = "killed"
           \/ pc = "down" /\ \A p \in Pid : pstate[p] \in {"unborn", "reaped"}
=============================================================================
