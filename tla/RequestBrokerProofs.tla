------------------------- MODULE RequestBrokerProofs -------------------------
(***************************************************************************)
(* Theorems about RequestBroker, for any number of requests, handlers,     *)
(* crashes and failing forks.                                              *)
(*                                                                         *)
(* ActiveIsExact and NoForeignStream are not inductive.  Both rest on the  *)
(* fact that an id is in one place at a time: in a dispatch datagram, or   *)
(* in the pending queue, or in the history of started handlers.            *)
(***************************************************************************)
EXTENDS RequestBroker, WorkerDispatchProofs

\* An id is in one datagram, or at one place of the queue.
QueuedOnce ==
    /\ Queue(dispatchQ, Req)
    /\ Queue(pending, Req)
    /\ Range(dispatchQ) \cap Range(pending) = {}

\* What is queued was handed out, and no handler was started for it.
QueuedIsFresh ==
    /\ \A r \in Range(dispatchQ) \cup Range(pending) : r < nextId /\ runs[r] = 0
    /\ \A r \in Req : r >= nextId => runs[r] = 0

\* The history of starts is the truth about the handlers.
RunsIsHistory ==
    /\ \A r \in Req : runs[r] = 0 => active[r] = NoPid /\ \A p \in Pid : preq[p] # r
    /\ \A p \in Pid : p >= nextPid => pstate[p] = "unborn"
    /\ \A p \in Pid : (pstate[p] = "unborn") <=> (preq[p] = NoReq)

\* The broker holds the channels of the queued requests, and no others.
FdsArePending == brokerFds = Range(pending)

\* What poll reported is still there to be read.
ReadyIsReadable ==
    /\ pc \in {"cancel", "dispatch"} => pc \in ready
    /\ pc = "cancel" => cancelQ # << >>
    /\ pc \in {"cancel", "dispatch"} /\ "dispatch" \in ready => dispatchQ # << >>

IInv ==
    /\ WorkerInv
    /\ BrokerTypeOK
    /\ QueuedOnce
    /\ QueuedIsFresh
    /\ RunsIsHistory
    /\ FdsArePending
    /\ ReadyIsReadable
    /\ ActiveIsExact
    /\ NoForeignStream

-----------------------------------------------------------------------------
\* The broker starts with nothing queued and no handler.
LEMMA InitInv == Init => IInv
<1> SUFFICES ASSUME Init PROVE IInv
  OBVIOUS
<1> USE RequestAssumption, WorkerAssumption
<1>1. WorkerInv
  BY WorkerInitInv DEF Init
<1>2. BrokerTypeOK
  <2>1. pending \in Seq(Req)
    BY EmptySeq DEF Init
  <2>2. nextPid \in 1 .. MaxPids + 1 /\ forkFailures \in 0 .. MaxFaults
        /\ crashes \in 0 .. MaxFaults
    BY DEF Init
  <2>3. /\ active \in [Req -> Pid \cup {NoPid}]
        /\ pstate \in [Pid -> {"unborn", "run", "zombie", "reaped"}]
        /\ preq \in [Pid -> Req \cup {NoReq}]
        /\ childFds \in [Pid -> SUBSET Req]
        /\ runs \in [Req -> Nat]
    BY DEF Init
  <2> QED
    BY <2>1, <2>2, <2>3, Zenon DEF Init, BrokerTypeOK
<1>3. QueuedOnce /\ Range(dispatchQ) = {} /\ Range(pending) = {}
  BY EmptyQueue DEF Init, WorkerInit, QueuedOnce
<1>4. QueuedIsFresh /\ RunsIsHistory /\ FdsArePending /\ ReadyIsReadable
  BY <1>3 DEF Init, QueuedIsFresh, RunsIsHistory, FdsArePending, ReadyIsReadable, Req, NoReq,
              Pid, NoPid
<1>5. ActiveIsExact /\ NoForeignStream
  BY DEF Init, ActiveIsExact, NoForeignStream
<1> QED
  BY <1>1, <1>2, <1>3, <1>4, <1>5 DEF IInv

\* A step of the worker hands out at most one id, and only a new one.
LEMMA WorkerStepPreserves == ASSUME IInv, WorkerStep PROVE IInv'
<1> USE DEF IInv
<1>1. UNCHANGED brokerSide
  BY DEF WorkerStep
<1>2. \E up \in BOOLEAN : WorkerAction(up)
  BY DEF WorkerStep, WorkerTask, WorkerAction, TaskAction, BrokerUp, Open
<1>3. WorkerInv' /\ QueuesGrow
  BY <1>2, WorkerStepInv
<1>4. Range(dispatchQ) \subseteq Req
  BY QueueElements DEF QueuedOnce
<1>5. nextId \in Nat
  BY DEF WorkerInv, WorkerTypeOK
<1>6. /\ Queue(dispatchQ', Req)
      /\ \/ Range(dispatchQ') = Range(dispatchQ)
         \/ nextId \in Req /\ nextId' = nextId + 1
            /\ Range(dispatchQ') = Range(dispatchQ) \cup {nextId}
  <2>1. CASE nextId \in Req /\ dispatchQ' = Append(dispatchQ, nextId) /\ nextId' = nextId + 1
    <3>1. nextId \notin Range(dispatchQ)
      BY <1>4, <1>5 DEF QueuedIsFresh, Req
    <3>2. /\ Queue(Append(dispatchQ, nextId), Req)
          /\ Range(Append(dispatchQ, nextId)) = Range(dispatchQ) \cup {nextId}
      BY <2>1, <3>1, AppendToQueue DEF QueuedOnce
    <3> QED
      BY <2>1, <3>2
  <2>2. CASE dispatchQ' = dispatchQ
    BY <2>2 DEF QueuedOnce
  <2> QED
    BY <1>3, <2>1, <2>2 DEF QueuesGrow
<1>7. nextId' \in {nextId, nextId + 1}
  BY <1>3 DEF QueuesGrow
<1>8. UNCHANGED <<pending, runs>> /\ Range(pending) \subseteq Req
  BY <1>1, QueueElements DEF brokerSide, brokerVars, QueuedOnce
<1>9. QueuedOnce'
  <2>1. nextId \notin Range(pending)
    BY <1>5, <1>8 DEF QueuedIsFresh, Req
  <2> QED
    BY <1>6, <1>8, <2>1 DEF QueuedOnce
<1>10. QueuedIsFresh'
  <2>1. \A r \in Req : r >= nextId' => r >= nextId
    BY <1>5, <1>7 DEF Req
  <2>2. \A r \in Req : r < nextId => r < nextId'
    BY <1>5, <1>7 DEF Req
  <2>3. nextId \in Req => runs[nextId] = 0
    BY <1>5 DEF QueuedIsFresh
  <2>4. Range(dispatchQ)' = Range(dispatchQ) \/
           /\ nextId \in Req /\ nextId < nextId'
           /\ Range(dispatchQ)' = Range(dispatchQ) \cup {nextId}
    BY <1>5, <1>6
  <2> QED
    BY <1>4, <1>8, <2>1, <2>2, <2>3, <2>4 DEF QueuedIsFresh
<1>11. ReadyIsReadable'
  <2>1. cancelQ # << >> => cancelQ' # << >>
    BY <1>3, AppendProperties DEF QueuesGrow, WorkerInv, WorkerTypeOK
  <2>2. dispatchQ # << >> => dispatchQ' # << >>
    BY <1>3, AppendProperties DEF QueuesGrow, WorkerInv, WorkerTypeOK
  <2> QED
    BY <1>1, <2>1, <2>2 DEF brokerSide, brokerVars, ReadyIsReadable
<1>12. (BrokerTypeOK /\ RunsIsHistory /\ FdsArePending /\ ActiveIsExact /\ NoForeignStream)'
  BY <1>1 DEF brokerSide, brokerVars, childVars, boundVars, BrokerTypeOK, RunsIsHistory,
              FdsArePending, ActiveIsExact, NoForeignStream, BrokerUp
<1> QED
  BY <1>3, <1>9, <1>10, <1>11, <1>12

-----------------------------------------------------------------------------
\* NextReady names a ready channel, if any.
LEMMA NextReadyIsReady ==
    ASSUME NEW channels, NextReady(channels) \in {"cancel", "dispatch"}
    PROVE  NextReady(channels) \in channels
<1>1. CASE "cancel" \in channels
  BY <1>1 DEF NextReady
<1>2. CASE "cancel" \notin channels /\ channels = {"dispatch"}
  BY <1>2 DEF NextReady
<1>3. CASE "cancel" \notin channels /\ channels # {"dispatch"}
  BY <1>3 DEF NextReady
<1> QED
  BY <1>1, <1>2, <1>3

\* The broker's steps that only move its program counter.
LEMMA BookkeepingPreserves ==
    ASSUME IInv, BrokerTop \/ BrokerReapedAll \/ BrokerStarted \/ BrokerPoll \/ BrokerSigterm
    PROVE  IInv'
<1> USE DEF IInv
<1>1. /\ UNCHANGED <<workerVars, active, pending, earlyCancels, greatestDispatch, brokerFds,
                    childVars, boundVars, runs>>
      /\ pc' \in {"top", "exit", "reap", "start", "poll", "cancel", "dispatch", pc}
      /\ stopping' \in BOOLEAN
      /\ BrokerUp /\ BrokerUp'
  BY DEF BrokerTop, BrokerReapedAll, BrokerStarted, BrokerPoll, BrokerSigterm, BrokerUp,
         BrokerTypeOK, NextReady
<1>2. ReadyIsReadable' /\ ready' \subseteq {"cancel", "dispatch"}
  <2>1. CASE BrokerPoll
    <3>1. /\ ready' \subseteq {"cancel", "dispatch"}
          /\ "cancel" \in ready' => cancelQ # << >>
          /\ "dispatch" \in ready' => dispatchQ # << >>
          /\ UNCHANGED <<cancelQ, dispatchQ>>
      BY <2>1 DEF BrokerPoll, workerVars
    <3>2. pc' = NextReady(ready')
      BY <2>1 DEF BrokerPoll
    <3>3. pc' \in {"cancel", "dispatch"} => pc' \in ready'
      BY <3>2, NextReadyIsReady
    <3> QED
      BY <3>1, <3>3 DEF ReadyIsReadable
  <2>2. CASE BrokerTop \/ BrokerReapedAll \/ BrokerStarted
    <3>1. pc' \in {"exit", "reap", "start", "poll"} /\ ready' = ready
      BY <2>2 DEF BrokerTop, BrokerReapedAll, BrokerStarted
    <3> QED
      BY <3>1 DEF ReadyIsReadable, BrokerTypeOK
  <2>3. CASE BrokerSigterm
    <3>1. UNCHANGED <<pc, ready, cancelQ, dispatchQ>>
      BY <2>3 DEF BrokerSigterm, workerVars
    <3> QED
      BY <3>1 DEF ReadyIsReadable, BrokerTypeOK
  <2> QED
    BY <2>1, <2>2, <2>3
<1>3. WorkerInv'
  BY <1>1 DEF workerVars, WorkerInv, WorkerTypeOK, IdsLeft
<1>4. BrokerTypeOK'
  BY <1>1, <1>2 DEF BrokerTypeOK, childVars, boundVars
<1>5. (QueuedOnce /\ QueuedIsFresh /\ RunsIsHistory /\ FdsArePending)'
  BY <1>1 DEF QueuedOnce, QueuedIsFresh, RunsIsHistory, FdsArePending, workerVars, childVars,
              boundVars
<1>6. (ActiveIsExact /\ NoForeignStream)'
  BY <1>1 DEF ActiveIsExact, NoForeignStream, childVars
<1> QED
  BY <1>2, <1>3, <1>4, <1>5, <1>6

\* Leaving the loop, or being killed: queues empty, the table is moot.
LEMMA ExitPreserves == ASSUME IInv, BrokerExit \/ BrokerKilled PROVE IInv'
<1> USE DEF IInv
<1>1. /\ UNCHANGED <<worker, waiting, nextId, req, dispatching, workerFds, cancels, ackQ,
                    cancelQ, frames, stopping, active, earlyCancels, greatestDispatch,
                    ready, preq, boundVars, runs>>
      /\ dispatchQ' = << >> /\ pending' = << >> /\ brokerFds' = {}
      /\ pc' \in {"down", "killed"}
  BY DEF BrokerExit, BrokerKilled, childVars
<1>2. /\ pstate' \in [Pid -> {"unborn", "run", "zombie", "reaped"}]
      /\ childFds' \in [Pid -> SUBSET Req]
      /\ \A p \in Pid : (pstate'[p] = "unborn") <=> (pstate[p] = "unborn")
      /\ \A p \in Pid : childFds'[p] \subseteq childFds[p]
  <2>1. CASE BrokerKilled
    BY <2>1 DEF BrokerKilled, childVars, BrokerTypeOK
  <2>2. CASE BrokerExit
    <3>1. \A p \in Pid : Terminated(p) => preq[p] # NoReq
      BY <2>2 DEF BrokerExit, Terminated, ActiveIsExact, BrokerUp, BrokerTypeOK, Req, NoReq, Pid,
                  NoPid
    <3> QED
      BY <2>2, <3>1 DEF BrokerExit, BrokerTypeOK, RunsIsHistory
  <2> QED
    BY <2>1, <2>2
<1>3. Queue(dispatchQ', Req) /\ Range(dispatchQ)' = {} /\ Queue(pending', Req)
      /\ Range(pending)' = {} /\ dispatchQ' \in Seq(Req) /\ pending' \in Seq(Req)
  BY <1>1, EmptyQueue, EmptySeq
<1>4. WorkerInv'
  BY <1>1, <1>3 DEF WorkerInv, WorkerTypeOK, IdsLeft
<1>5. BrokerTypeOK'
  BY <1>1, <1>2, <1>3 DEF BrokerTypeOK, boundVars
<1>6. (QueuedOnce /\ QueuedIsFresh /\ FdsArePending /\ ReadyIsReadable)'
  BY <1>1, <1>3 DEF QueuedOnce, QueuedIsFresh, FdsArePending, ReadyIsReadable
<1>7. RunsIsHistory'
  BY <1>1, <1>2 DEF RunsIsHistory, boundVars
<1>8. (ActiveIsExact /\ NoForeignStream)'
  BY <1>1, <1>2 DEF ActiveIsExact, NoForeignStream, BrokerUp
<1> QED
  BY <1>4, <1>5, <1>6, <1>7, <1>8

\* A handler writes, exits or dies.
LEMMA ChildPreserves ==
    ASSUME IInv, NEW p \in Pid, ChildStep(p) \/ ChildDies(p)
    PROVE  IInv'
<1> USE DEF IInv
<1>1. /\ pstate[p] = "run" /\ pstate' \in {pstate, [pstate EXCEPT ![p] = "zombie"]}
      /\ childFds' \in {childFds, [childFds EXCEPT ![p] = {}]}
      /\ UNCHANGED <<worker, waiting, nextId, req, dispatching, workerFds, cancels, dispatchQ,
                    ackQ, cancelQ, brokerVars, preq, nextPid, forkFailures, runs>>
  BY DEF ChildStep, ChildStart, ChildWrites, ChildFinish, ChildIncomplete, ChildDies, brokerSide,
         brokerVars, workerVars, childVars, boundVars
<1>2. preq[p] \in Req
  BY <1>1 DEF RunsIsHistory, BrokerTypeOK
<1>3. frames' \in [Req -> {"none", "start", "chunk", "end", "fail"}]
  BY <1>2 DEF ChildStep, ChildStart, ChildWrites, ChildFinish, ChildIncomplete, ChildDies, workerVars,
              WorkerInv, WorkerTypeOK
<1>4. crashes' \in 0 .. MaxFaults
  BY RequestAssumption
  DEF ChildStep, ChildStart, ChildWrites, ChildFinish, ChildIncomplete, ChildDies, brokerSide,
      boundVars, BrokerTypeOK
<1>5. WorkerInv'
  BY <1>1, <1>3 DEF WorkerInv, WorkerTypeOK, IdsLeft
<1>6. BrokerTypeOK'
  BY <1>1, <1>4 DEF BrokerTypeOK, brokerVars
<1>7. (QueuedOnce /\ QueuedIsFresh /\ FdsArePending /\ ReadyIsReadable)'
  BY <1>1 DEF QueuedOnce, QueuedIsFresh, FdsArePending, ReadyIsReadable, brokerVars
<1>8. RunsIsHistory'
  BY <1>1 DEF RunsIsHistory, brokerVars, BrokerTypeOK
<1>9. (ActiveIsExact /\ NoForeignStream)'
  <2>1. \A q \in Pid : pstate'[q] \in {"run", "zombie"} <=> pstate[q] \in {"run", "zombie"}
    BY <1>1 DEF BrokerTypeOK
  <2>2. \A q \in Pid : childFds'[q] \subseteq childFds[q]
    BY <1>1 DEF BrokerTypeOK
  <2>3. UNCHANGED <<pc, active, preq>>
    BY <1>1 DEF brokerVars
  <2>4. ActiveIsExact'
    <3>1. \A r \in Req : active[r] # NoPid => active[r] \in Pid
      BY DEF BrokerTypeOK
    <3> QED
      BY <2>1, <2>3, <3>1 DEF ActiveIsExact, BrokerUp
  <2>5. NoForeignStream'
    BY <2>2, <2>3 DEF NoForeignStream
  <2> QED
    BY <2>4, <2>5
<1> QED
  BY <1>5, <1>6, <1>7, <1>8, <1>9

\* One exited handler is reaped.
LEMMA ReapPreserves == ASSUME IInv, BrokerReap PROVE IInv'
<1> USE DEF IInv
<1>1. PICK p \in Pid : /\ pstate[p] = "zombie"
                       /\ Reaped(p)
                       /\ active' = Forget(p)
  BY DEF BrokerReap
<1>2. /\ pc = "reap"
      /\ UNCHANGED <<workerVars, pc, stopping, pending, earlyCancels, greatestDispatch, ready,
                    brokerFds, boundVars, runs, preq>>
  BY <1>1 DEF BrokerReap, Reaped
<1>3. /\ pstate' = [pstate EXCEPT ![p] = "reaped"]
      /\ childFds' = [childFds EXCEPT ![p] = {}]
      /\ active' = [r \in Req |-> IF active[r] = p THEN NoPid ELSE active[r]]
  BY <1>1 DEF Reaped, Forget
<1>4. WorkerInv'
  BY <1>2 DEF workerVars, WorkerInv, WorkerTypeOK, IdsLeft
<1>5. BrokerTypeOK'
  BY <1>2, <1>3 DEF BrokerTypeOK, boundVars
<1>6. (QueuedOnce /\ QueuedIsFresh /\ FdsArePending /\ ReadyIsReadable)'
  BY <1>2 DEF QueuedOnce, QueuedIsFresh, FdsArePending, ReadyIsReadable, workerVars
<1>7. RunsIsHistory'
  BY <1>1, <1>2, <1>3 DEF RunsIsHistory, boundVars, BrokerTypeOK
<1>8. NoForeignStream'
  BY <1>2, <1>3 DEF NoForeignStream, BrokerTypeOK
<1>9. ActiveIsExact'
  <2>1. ASSUME NEW r \in Req, active'[r] # NoPid
        PROVE  preq'[active'[r]] = r /\ pstate'[active'[r]] \in {"run", "zombie"}
    BY <1>2, <1>3, <2>1 DEF ActiveIsExact, BrokerUp, BrokerTypeOK
  <2>2. ASSUME NEW q \in Pid, pstate'[q] \in {"run", "zombie"}
        PROVE  active'[preq'[q]] = q
    <3>1. q # p /\ pstate[q] \in {"run", "zombie"} /\ preq[q] \in Req
      BY <1>3, <2>2 DEF BrokerTypeOK, RunsIsHistory
    <3> QED
      BY <1>2, <1>3, <3>1 DEF ActiveIsExact, BrokerUp
  <2> QED
    BY <2>1, <2>2 DEF ActiveIsExact
<1> QED
  BY <1>4, <1>5, <1>6, <1>7, <1>8, <1>9

\* A handler is started for the head of the queue: no other has its id, and
\* the channels it does not close are its own.
LEMMA ForkPreserves == ASSUME IInv, BrokerFork PROVE IInv'
<1> DEFINE id == Head(pending)
           new == nextPid
<1> USE DEF IInv
<1>1. /\ pc = "start" /\ pending # << >> /\ nextPid <= MaxPids
      /\ UNCHANGED <<workerVars, pc, stopping, earlyCancels, greatestDispatch, ready,
                    forkFailures, crashes>>
      /\ pending' = Tail(pending)
      /\ brokerFds' = brokerFds \ {id}
      /\ nextPid' = nextPid + 1
  BY DEF BrokerFork
<1>2. /\ pstate' = [pstate EXCEPT ![new] = "run"]
      /\ preq' = [preq EXCEPT ![new] = id]
      /\ childFds' = [childFds EXCEPT ![new] = brokerFds \ Range(pending')]
      /\ active' = [active EXCEPT ![id] = new]
      /\ runs' = [runs EXCEPT ![id] = @ + 1]
  BY <1>1 DEF BrokerFork, InheritedFds
<1>3. /\ Queue(pending', Req) /\ pending' \in Seq(Req)
      /\ Range(pending') = Range(pending) \ {id}
      /\ id \in Range(pending) /\ id \in Req
  BY <1>1, TailOfQueue, QueueElements DEF QueuedOnce, Queue
<1>4. new \in Pid /\ new # NoPid /\ new + 1 \in 1 .. MaxPids + 1
  BY <1>1, RequestAssumption DEF BrokerTypeOK, Pid, NoPid
<1>5. /\ runs[id] = 0 /\ active[id] = NoPid /\ id < nextId
      /\ \A p \in Pid : preq[p] # id
      /\ pstate[new] = "unborn" /\ preq[new] = NoReq
  BY <1>3, <1>4 DEF QueuedIsFresh, RunsIsHistory, BrokerTypeOK, Pid
<1> HIDE DEF id, new
<1>6. WorkerInv'
  BY <1>1 DEF workerVars, WorkerInv, WorkerTypeOK, IdsLeft
<1>7. BrokerTypeOK'
  <2>1. /\ active' \in [Req -> Pid \cup {NoPid}]
        /\ pstate' \in [Pid -> {"unborn", "run", "zombie", "reaped"}]
        /\ preq' \in [Pid -> Req \cup {NoReq}]
        /\ childFds' \in [Pid -> SUBSET Req]
        /\ runs' \in [Req -> Nat]
    BY <1>2, <1>3, <1>4 DEF BrokerTypeOK
  <2>2. nextPid' \in 1 .. MaxPids + 1
    BY <1>1, <1>4 DEF new
  <2> QED
    BY <1>1, <1>3, <2>1, <2>2 DEF BrokerTypeOK
<1>8. QueuedOnce'
  BY <1>1, <1>3 DEF QueuedOnce, workerVars
<1>9. QueuedIsFresh'
  <2>1. UNCHANGED <<dispatchQ, nextId>>
    BY <1>1 DEF workerVars
  <2>2. id \notin Range(dispatchQ) /\ id \notin Range(pending')
    BY <1>3 DEF QueuedOnce
  <2>3. \A r \in Req : r # id => runs'[r] = runs[r]
    BY <1>2 DEF BrokerTypeOK
  <2>4. Range(dispatchQ) \cup Range(pending) \subseteq Req
    BY QueueElements DEF QueuedOnce
  <2>5. ~(id >= nextId)
    BY <1>3, <1>5 DEF WorkerInv, WorkerTypeOK, Req
  <2> QED
    BY <1>3, <2>1, <2>2, <2>3, <2>4, <2>5 DEF QueuedIsFresh
<1>10. RunsIsHistory'
  <2>1. ASSUME NEW r \in Req, runs'[r] = 0
        PROVE  active'[r] = NoPid /\ \A p \in Pid : preq'[p] # r
    <3>1. r # id /\ runs[r] = 0
      BY <1>2, <1>3, <1>5, <2>1 DEF BrokerTypeOK
    <3> QED
      BY <1>2, <3>1 DEF RunsIsHistory, BrokerTypeOK
  <2>2. \A p \in Pid : p >= nextPid' => p # new /\ p >= nextPid
    BY <1>1, <1>4 DEF new, Pid, BrokerTypeOK
  <2>3. \A p \in Pid : p >= nextPid' => pstate'[p] = "unborn"
    BY <1>2, <2>2 DEF RunsIsHistory, BrokerTypeOK
  <2>4. id # NoReq
    BY <1>3 DEF Req, NoReq
  <2>5. \A p \in Pid : (pstate'[p] = "unborn") <=> (preq'[p] = NoReq)
    BY <1>2, <2>4 DEF RunsIsHistory, BrokerTypeOK
  <2> QED
    BY <2>1, <2>3, <2>5 DEF RunsIsHistory
<1>11. FdsArePending' /\ ReadyIsReadable'
  BY <1>1, <1>3 DEF FdsArePending, ReadyIsReadable, id
<1>12. NoForeignStream'
  <2>1. childFds'[new] \subseteq {id} /\ preq'[new] = id
    BY <1>2, <1>3, <1>4 DEF FdsArePending, BrokerTypeOK
  <2>2. \A p \in Pid : p # new => childFds'[p] = childFds[p] /\ preq'[p] = preq[p]
    BY <1>2 DEF BrokerTypeOK
  <2> QED
    BY <2>1, <2>2 DEF NoForeignStream
<1>13. ActiveIsExact'
  <2>1. ASSUME NEW r \in Req, active'[r] # NoPid
        PROVE  preq'[active'[r]] = r /\ pstate'[active'[r]] \in {"run", "zombie"}
    <3>1. CASE r = id
      BY <1>2, <1>3, <1>4, <3>1 DEF BrokerTypeOK
    <3>2. CASE r # id
      <4>1. active'[r] = active[r] /\ active[r] \in Pid
        BY <1>2, <2>1, <3>2 DEF BrokerTypeOK
      <4>2. preq[active[r]] = r /\ pstate[active[r]] \in {"run", "zombie"}
        BY <1>1, <2>1, <4>1 DEF ActiveIsExact, BrokerUp
      <4>3. active[r] # new
        BY <1>5, <4>2
      <4> QED
        BY <1>2, <4>1, <4>2, <4>3 DEF BrokerTypeOK
    <3> QED
      BY <3>1, <3>2
  <2>2. ASSUME NEW p \in Pid, pstate'[p] \in {"run", "zombie"}
        PROVE  active'[preq'[p]] = p
    <3>1. CASE p = new
      BY <1>2, <1>3, <1>4, <3>1 DEF BrokerTypeOK
    <3>2. CASE p # new
      <4>1. pstate[p] \in {"run", "zombie"} /\ preq'[p] = preq[p]
        BY <1>2, <2>2, <3>2 DEF BrokerTypeOK
      <4>2. active[preq[p]] = p /\ preq[p] # id
        BY <1>1, <1>5, <4>1 DEF ActiveIsExact, BrokerUp
      <4> QED
        BY <1>2, <1>3, <4>1, <4>2 DEF BrokerTypeOK
    <3> QED
      BY <3>1, <3>2
  <2> QED
    BY <2>1, <2>2 DEF ActiveIsExact
<1> QED
  BY <1>6, <1>7, <1>8, <1>9, <1>10, <1>11, <1>12, <1>13

\* The broker answers for a handler it could not fork.
LEMMA ForkFailsPreserves == ASSUME IInv, BrokerForkFails PROVE IInv'
<1> DEFINE id == Head(pending)
<1> USE DEF IInv
<1>1. /\ pc = "start" /\ pending # << >> /\ forkFailures + crashes < MaxFaults
      /\ forkFailures' = forkFailures + 1
      /\ pending' = Tail(pending)
      /\ frames' = [frames EXCEPT ![id] = "fail"]
      /\ brokerFds' = brokerFds \ {id}
      /\ UNCHANGED <<worker, waiting, nextId, req, dispatching, workerFds, cancels, dispatchQ,
                    ackQ, cancelQ, pc, stopping, active, earlyCancels, greatestDispatch,
                    ready, childVars, nextPid, crashes, runs>>
  BY DEF BrokerForkFails, Refuse
<1>2. /\ Queue(pending', Req) /\ pending' \in Seq(Req)
      /\ Range(pending') = Range(pending) \ {id}
      /\ id \in Range(pending) /\ id \in Req
  BY <1>1, TailOfQueue, QueueElements DEF QueuedOnce, Queue
<1> HIDE DEF id
<1>3. WorkerInv'
  BY <1>1, <1>2 DEF WorkerInv, WorkerTypeOK, IdsLeft
<1>4. BrokerTypeOK'
  BY <1>1, <1>2, RequestAssumption DEF BrokerTypeOK, childVars
<1>5. (QueuedOnce /\ QueuedIsFresh /\ FdsArePending /\ ReadyIsReadable)'
  BY <1>1, <1>2 DEF QueuedOnce, QueuedIsFresh, FdsArePending, ReadyIsReadable
<1>6. (RunsIsHistory /\ ActiveIsExact /\ NoForeignStream)'
  BY <1>1 DEF RunsIsHistory, ActiveIsExact, NoForeignStream, BrokerUp, childVars
<1> QED
  BY <1>3, <1>4, <1>5, <1>6

\* A cancellation kills the handler, or empties a place in the queue, or is
\* noted or ignored.
LEMMA CancelPreserves == ASSUME IInv, BrokerCancel PROVE IInv'
<1> DEFINE id == Head(cancelQ)
<1> USE DEF IInv
<1>1. /\ pc = "cancel"
      /\ ready' = ready \ {"cancel"}
      /\ pc' = NextReady(ready')
      /\ CancelActive(id) \/ CancelQueued(id) \/ CancelUnknown(id)
      /\ cancelQ' = Tail(cancelQ)
      /\ UNCHANGED <<worker, waiting, nextId, req, dispatching, workerFds, cancels, dispatchQ,
                    ackQ, frames, stopping, greatestDispatch, boundVars, runs>>
  BY DEF BrokerCancel
<1>2. id \in Req /\ Tail(cancelQ) \in Seq(Req)
  BY <1>1, HeadTailProperties DEF ReadyIsReadable, WorkerInv, WorkerTypeOK
<1>3. pc' \in {"top", "cancel", "dispatch"} /\ BrokerUp /\ BrokerUp'
  BY <1>1 DEF NextReady, BrokerUp
<1>4. ReadyIsReadable'
  <2>1. pc' \in {"cancel", "dispatch"} => pc' \in ready'
    BY <1>1, NextReadyIsReady
  <2>2. pc' # "cancel"
    BY <1>1, <2>1
  <2> QED
    BY <1>1, <2>1, <2>2 DEF ReadyIsReadable
<1> HIDE DEF id
<1>5. WorkerInv'
  BY <1>1, <1>2 DEF WorkerInv, WorkerTypeOK, IdsLeft
<1>6. CASE CancelActive(id)
  <2> DEFINE p == active[id]
  <2>1. /\ p \in Pid /\ preq[p] = id
        /\ active' = [active EXCEPT ![id] = NoPid]
        /\ pstate' = [pstate EXCEPT ![p] = "reaped"]
        /\ childFds' = [childFds EXCEPT ![p] = {}]
        /\ UNCHANGED <<preq, pending, earlyCancels, brokerFds>>
    BY <1>2, <1>3, <1>6 DEF CancelActive, Reaped, BrokerTypeOK, ActiveIsExact
  <2> HIDE DEF p
  <2>2. BrokerTypeOK'
    BY <1>1, <1>2, <1>3, <2>1 DEF BrokerTypeOK, boundVars
  <2>3. (QueuedOnce /\ QueuedIsFresh /\ FdsArePending)'
    BY <1>1, <2>1 DEF QueuedOnce, QueuedIsFresh, FdsArePending
  <2>4. RunsIsHistory'
    <3>1. pstate[p] # "unborn"
      BY <1>2, <2>1 DEF RunsIsHistory, Req, NoReq
    <3> QED
      BY <1>1, <1>2, <2>1, <3>1 DEF RunsIsHistory, BrokerTypeOK, boundVars
  <2>5. NoForeignStream'
    BY <2>1 DEF NoForeignStream, BrokerTypeOK
  <2>6. ActiveIsExact'
    <3>1. ASSUME NEW r \in Req, active'[r] # NoPid
          PROVE  preq'[active'[r]] = r /\ pstate'[active'[r]] \in {"run", "zombie"}
      <4>1. r # id /\ active'[r] = active[r] /\ active[r] \in Pid
        BY <1>2, <2>1, <3>1 DEF BrokerTypeOK
      <4>2. preq[active[r]] = r /\ pstate[active[r]] \in {"run", "zombie"}
        BY <1>3, <3>1, <4>1 DEF ActiveIsExact
      <4> QED
        BY <2>1, <4>1, <4>2 DEF BrokerTypeOK
    <3>2. ASSUME NEW q \in Pid, pstate'[q] \in {"run", "zombie"}
          PROVE  active'[preq'[q]] = q
      <4>1. q # p /\ pstate[q] \in {"run", "zombie"} /\ preq[q] \in Req
        BY <2>1, <3>2 DEF BrokerTypeOK, RunsIsHistory
      <4>2. active[preq[q]] = q /\ preq[q] # id
        BY <1>3, <4>1 DEF ActiveIsExact, p
      <4> QED
        BY <2>1, <4>1, <4>2 DEF BrokerTypeOK
    <3> QED
      BY <3>1, <3>2 DEF ActiveIsExact
  <2> QED
    BY <1>4, <1>5, <2>2, <2>3, <2>4, <2>5, <2>6
<1>7. CASE CancelQueued(id)
  <2>1. PICK i \in 1 .. Len(pending) : /\ pending[i] = id
                                       /\ pending' = RemoveAt(pending, i)
                                       /\ brokerFds' = brokerFds \ {id}
    BY <1>7 DEF CancelQueued
  <2>2. UNCHANGED <<active, earlyCancels, childVars>>
    BY <1>7 DEF CancelQueued
  <2>3. /\ Queue(pending', Req) /\ pending' \in Seq(Req)
        /\ Range(pending') = Range(pending) \ {id}
    BY <2>1, RemoveFromQueue DEF QueuedOnce, Queue
  <2>4. BrokerTypeOK'
    BY <1>1, <1>3, <2>1, <2>2, <2>3 DEF BrokerTypeOK, boundVars, childVars
  <2>5. (QueuedOnce /\ QueuedIsFresh /\ FdsArePending)'
    BY <1>1, <2>1, <2>3 DEF QueuedOnce, QueuedIsFresh, FdsArePending
  <2>6. (RunsIsHistory /\ ActiveIsExact /\ NoForeignStream)'
    BY <1>1, <1>3, <2>2 DEF RunsIsHistory, ActiveIsExact, NoForeignStream, boundVars, childVars
  <2> QED
    BY <1>4, <1>5, <2>4, <2>5, <2>6
<1>8. CASE CancelUnknown(id)
  <2>1. /\ UNCHANGED <<active, pending, brokerFds, childVars>>
        /\ earlyCancels' \subseteq Req
    BY <1>2, <1>8 DEF CancelUnknown, BrokerTypeOK
  <2>2. BrokerTypeOK'
    BY <1>1, <1>3, <2>1 DEF BrokerTypeOK, boundVars, childVars
  <2>3. (QueuedOnce /\ QueuedIsFresh /\ FdsArePending)'
    BY <1>1, <2>1 DEF QueuedOnce, QueuedIsFresh, FdsArePending
  <2>4. (RunsIsHistory /\ ActiveIsExact /\ NoForeignStream)'
    BY <1>1, <1>3, <2>1 DEF RunsIsHistory, ActiveIsExact, NoForeignStream, boundVars, childVars
  <2> QED
    BY <1>4, <1>5, <2>2, <2>3, <2>4
<1> QED
  BY <1>1, <1>6, <1>7, <1>8

\* A datagram moves from the socket to the queue, or is dropped.
LEMMA DispatchPreserves == ASSUME IInv, BrokerDispatch PROVE IInv'
<1> DEFINE id == Head(dispatchQ)
<1> USE DEF IInv
<1>1. /\ pc = "dispatch" /\ dispatchQ # << >> /\ ready' = {}
      /\ dispatchQ' = Tail(dispatchQ)
      /\ pc' \in {"top", "exit"}
      /\ UNCHANGED <<worker, waiting, nextId, req, dispatching, workerFds, cancels, cancelQ,
                    frames, stopping, active, childVars, boundVars, runs>>
  BY DEF BrokerDispatch, ReadyIsReadable
<1>2. /\ Queue(dispatchQ', Req) /\ dispatchQ' \in Seq(Req)
      /\ Range(dispatchQ') = Range(dispatchQ) \ {id}
      /\ id \in Range(dispatchQ) /\ id \in Req
  BY <1>1, TailOfQueue, QueueElements DEF QueuedOnce, Queue
<1>3. /\ Queue(Append(pending, id), Req) /\ Append(pending, id) \in Seq(Req)
      /\ Range(Append(pending, id)) = Range(pending) \cup {id}
  BY <1>2, AppendToQueue DEF QueuedOnce, Queue
<1>4. Append(ackQ, id) \in Seq(Req)
  BY <1>2, AppendProperties DEF WorkerInv, WorkerTypeOK
<1>5. /\ ackQ' \in {ackQ, Append(ackQ, id)}
      /\ greatestDispatch' \in {greatestDispatch, id}
      /\ earlyCancels' \subseteq earlyCancels
      /\ \/ pending' = pending /\ brokerFds' = brokerFds
         \/ pending' = Append(pending, id) /\ brokerFds' = brokerFds \cup {id}
  BY DEF BrokerDispatch, Enqueue
<1> HIDE DEF id
<1>6. /\ Queue(pending', Req) /\ pending' \in Seq(Req)
      /\ \/ Range(pending') = Range(pending) /\ brokerFds' = brokerFds
         \/ Range(pending') = Range(pending) \cup {id} /\ brokerFds' = brokerFds \cup {id}
  BY <1>3, <1>5 DEF QueuedOnce, Queue
<1>7. WorkerInv'
  BY <1>1, <1>2, <1>4, <1>5 DEF WorkerInv, WorkerTypeOK, IdsLeft
<1>8. BrokerTypeOK'
  BY <1>1, <1>2, <1>5, <1>6 DEF BrokerTypeOK, boundVars, childVars
<1>9. (QueuedOnce /\ QueuedIsFresh /\ FdsArePending)'
  BY <1>1, <1>2, <1>6 DEF QueuedOnce, QueuedIsFresh, FdsArePending
<1>10. (RunsIsHistory /\ ActiveIsExact /\ NoForeignStream /\ ReadyIsReadable)'
  BY <1>1 DEF RunsIsHistory, ActiveIsExact, NoForeignStream, ReadyIsReadable, BrokerUp,
              boundVars, childVars
<1> QED
  BY <1>7, <1>8, <1>9, <1>10

-----------------------------------------------------------------------------
\* The inductive step, action by action.
LEMMA NextPreserves == IInv /\ [Next]_vars => IInv'
<1> SUFFICES ASSUME IInv, [Next]_vars PROVE IInv'
  OBVIOUS
<1>1. CASE BrokerStep \/ BrokerSigterm \/ BrokerKilled
  BY <1>1, BookkeepingPreserves, ExitPreserves, ReapPreserves, ForkPreserves,
     ForkFailsPreserves, CancelPreserves, DispatchPreserves
  DEF BrokerStep
<1>2. CASE UNCHANGED vars
  <2>1. UNCHANGED <<workerVars, brokerVars, childVars, boundVars, runs>>
    BY <1>2 DEF vars, brokerSide
  <2>2. WorkerInv' <=> WorkerInv
    BY <2>1 DEF WorkerInv, WorkerTypeOK, IdsLeft, workerVars
  <2>3. BrokerTypeOK' <=> BrokerTypeOK
    BY <2>1 DEF BrokerTypeOK, brokerVars, childVars, boundVars
  <2>4. /\ QueuedOnce' <=> QueuedOnce
        /\ QueuedIsFresh' <=> QueuedIsFresh
        /\ FdsArePending' <=> FdsArePending
        /\ ReadyIsReadable' <=> ReadyIsReadable
    BY <2>1 DEF QueuedOnce, QueuedIsFresh, FdsArePending, ReadyIsReadable, workerVars, brokerVars
  <2>5. /\ RunsIsHistory' <=> RunsIsHistory
        /\ ActiveIsExact' <=> ActiveIsExact
        /\ NoForeignStream' <=> NoForeignStream
    BY <2>1 DEF RunsIsHistory, ActiveIsExact, NoForeignStream, BrokerUp, brokerVars, childVars,
                boundVars
  <2> QED
    BY <2>2, <2>3, <2>4, <2>5 DEF IInv
<1> QED
  BY <1>1, <1>2, WorkerStepPreserves, ChildPreserves DEF Next

\* The invariant holds in every reachable state.
LEMMA Inductive == Spec => []IInv
  BY InitInv, NextPreserves, PTL DEF Spec

\* Every variable of the worker, the broker and the handlers has its type.
THEOREM TypeCorrect == Spec => []TypeOK
<1>1. IInv => TypeOK
  BY DEF IInv, WorkerInv, TypeOK
<1> QED
  BY <1>1, Inductive, PTL

\* The map the broker kills by is exact, and no handler escapes it: whatever
\* order forks, exits, cancellations and failures come in
\* (process/request.rs).
THEOREM ActiveMapIsExact == Spec => []ActiveIsExact
<1>1. IInv => ActiveIsExact
  BY DEF IInv
<1> QED
  BY <1>1, Inductive, PTL

\* No handler inherits the stream of another request, for any number of
\* requests queued at the fork.
THEOREM StreamsStayPrivate == Spec => []NoForeignStream
<1>1. IInv => NoForeignStream
  BY DEF IInv
<1> QED
  BY <1>1, Inductive, PTL

-----------------------------------------------------------------------------
(***************************************************************************)
(* Two promises of RequestService, from the invariant.                     *)
(***************************************************************************)

\* A handler is started at most once for a request.
StartedAtMostOnce == \A r \in Req : runs[r] <= 1

\* Never more handlers than --handler-concurrency.
CapHolds == Cardinality(Actives) <= Concurrency

\* Only a fork makes history or adds to the map.
LEMMA OnlyForksStart ==
    ASSUME IInv, [Next]_vars, ~BrokerFork
    PROVE  runs' = runs /\ Actives' \subseteq Actives
<1> USE DEF Actives
<1>1. CASE WorkerStep \/ UNCHANGED vars \/ BrokerSigterm \/ BrokerKilled
  BY <1>1 DEF WorkerStep, vars, brokerSide, brokerVars, BrokerSigterm, BrokerKilled
<1>2. CASE BrokerTop \/ BrokerReapedAll \/ BrokerStarted \/ BrokerPoll \/ BrokerExit
           \/ BrokerForkFails \/ BrokerDispatch
  BY <1>2 DEF BrokerTop, BrokerReapedAll, BrokerStarted, BrokerPoll, BrokerExit,
              BrokerForkFails, BrokerDispatch
<1>3. CASE BrokerReap
  BY <1>3 DEF BrokerReap, Forget
<1>4. CASE BrokerCancel
  BY <1>4 DEF BrokerCancel, CancelActive, CancelQueued, CancelUnknown, IInv, BrokerTypeOK
<1>5. ASSUME NEW p \in Pid, ChildStep(p) \/ ChildDies(p)
      PROVE  runs' = runs /\ active' = active
  BY <1>5 DEF ChildStep, ChildStart, ChildWrites, ChildFinish, ChildIncomplete, ChildDies, brokerSide,
              brokerVars
<1> QED
  BY <1>1, <1>2, <1>3, <1>4, <1>5 DEF Next, BrokerStep

\* The live handlers can be counted.
LEMMA ActivesAreFinite == IsFiniteSet(Actives) /\ Cardinality(Actives) \in Nat
<1>1. IsFiniteSet(Req)
  BY FS_Interval, WorkerAssumption DEF Req
<1>2. Actives \subseteq Req
  BY DEF Actives
<1> QED
  BY <1>1, <1>2, FS_Subset, FS_CardinalityType

\* A fork makes history for an id that has none, below the cap.
LEMMA ForkKeepsPromises ==
    ASSUME IInv, StartedAtMostOnce, BrokerFork
    PROVE  StartedAtMostOnce' /\ CapHolds'
<1> DEFINE id == Head(pending)
<1>1. /\ pending # << >> /\ Cardinality(Actives) < Concurrency
      /\ runs' = [runs EXCEPT ![id] = @ + 1]
      /\ active' = [active EXCEPT ![id] = nextPid]
  BY DEF BrokerFork, Capacity
<1>2. id \in Req /\ runs[id] = 0
  BY <1>1, TailOfQueue, QueueElements DEF IInv, QueuedOnce, QueuedIsFresh
<1>3. StartedAtMostOnce'
  BY <1>1, <1>2 DEF StartedAtMostOnce, IInv, BrokerTypeOK
<1>4. IsFiniteSet(Actives) /\ Cardinality(Actives) \in Nat
  BY ActivesAreFinite
<1>5. /\ IsFiniteSet(Actives \cup {id})
      /\ Cardinality(Actives \cup {id}) <= Cardinality(Actives) + 1
  BY <1>4, FS_AddElement
<1>6. Actives' \subseteq Actives \cup {id}
  BY <1>1 DEF Actives, IInv, BrokerTypeOK
<1>7. Cardinality(Actives') <= Cardinality(Actives \cup {id}) /\ Cardinality(Actives') \in Nat
      /\ Cardinality(Actives \cup {id}) \in Nat
  BY <1>5, <1>6, FS_Subset, FS_CardinalityType
<1>8. CapHolds'
  BY <1>1, <1>4, <1>5, <1>7, WorkerAssumption DEF CapHolds
<1> QED
  BY <1>3, <1>8

\* No request is executed twice, although it may be cancelled while it is
\* queued, its fork may fail and its handler may die at any time.
THEOREM NeverStartedTwice == Spec => []StartedAtMostOnce
<1>1. Init => StartedAtMostOnce
  BY DEF Init, StartedAtMostOnce
<1>2. IInv /\ StartedAtMostOnce /\ [Next]_vars => StartedAtMostOnce'
  BY OnlyForksStart, ForkKeepsPromises DEF StartedAtMostOnce
<1> QED
  BY <1>1, <1>2, Inductive, PTL DEF Spec

\* The concurrency cap of --handler-concurrency holds between any two steps.
THEOREM ConcurrencyIsCapped == Spec => []CapHolds
<1>1. Init => CapHolds
  <2>1. ASSUME Init PROVE Actives = {}
    BY <2>1 DEF Init, Actives
  <2> QED
    BY <2>1, FS_EmptySet, WorkerAssumption DEF CapHolds
<1>2. IInv /\ StartedAtMostOnce /\ CapHolds /\ [Next]_vars => CapHolds'
  <2> SUFFICES ASSUME IInv, StartedAtMostOnce, CapHolds, [Next]_vars PROVE CapHolds'
    OBVIOUS
  <2>1. CASE BrokerFork
    BY <2>1, ForkKeepsPromises
  <2>2. CASE ~BrokerFork
    <3>1. Actives' \subseteq Actives
      BY <2>2, OnlyForksStart
    <3>2. IsFiniteSet(Actives)
      BY ActivesAreFinite
    <3>3. /\ Cardinality(Actives') <= Cardinality(Actives)
          /\ Cardinality(Actives') \in Nat /\ Cardinality(Actives) \in Nat
      BY <3>1, <3>2, FS_Subset, FS_CardinalityType
    <3> QED
      BY <3>3, WorkerAssumption DEF CapHolds
  <2> QED
    BY <2>1, <2>2
<1> QED
  BY <1>1, <1>2, Inductive, NeverStartedTwice, PTL DEF Spec

-----------------------------------------------------------------------------
(***************************************************************************)
(* The broker implements RequestService.  On top of IInv this takes the    *)
(* protocol with the worker, and what the frames of a stream say of the    *)
(* handler at its end.                                                     *)
(***************************************************************************)

\* Only a handler writes frames, except for the complete 500 of an id that was
\* in the queue and will never have a handler; a response is complete for good.
FramesFollowRuns ==
    \A r \in Req :
        /\ runs[r] = 0 => frames[r] \in {"none", "fail"}
        /\ frames[r] = "fail" =>
              runs[r] = 0 /\ req[r] # "new" /\ r \notin Range(dispatchQ) \cup Range(pending)
        /\ req[r] = "done" => Ended(r)

\* A handler that runs is in the map, even when no broker reads it any more,
\* and holds the stream of its request.
RunningIsActive ==
    \A p \in Pid : pstate[p] = "run" => active[preq[p]] = p /\ preq[p] \in childFds[p]

ServiceInv == IInv /\ ProtocolInv /\ FramesFollowRuns /\ RunningIsActive

\* A handler is executing r; r is still to be started.
Runs(r) == \E p \in Pid : pstate[p] = "run" /\ preq[p] = r
Waits(r) == runs[r] = 0 /\ ~Ended(r) /\ Open(r)

\* The ids with an open stream, with the dispatch socket as a set.
LEMMA OpenAsSets ==
    ASSUME NEW r, dispatchQ \in Seq(Req)
    PROVE  Open(r) <=> \/ r \in workerFds \cup brokerFds \cup Range(dispatchQ)
                       \/ \E p \in Pid : r \in childFds[p]
<1>1. r \in Range(dispatchQ) <=> \E i \in 1 .. Len(dispatchQ) : dispatchQ[i] = r
  BY LenProperties DEF Range
<1> QED
  BY <1>1 DEF Open

\* Nothing is known of an id before it is handed out.
LEMMA NewIsUntouched ==
    ASSUME ServiceInv, NEW r \in Req, req[r] = "new"
    PROVE  runs[r] = 0 /\ frames[r] = "none" /\ ~Runs(r) /\ ~Open(r)
<1> USE DEF ServiceInv, IInv
<1>1. nextId \in Nat /\ dispatchQ \in Seq(Req) /\ r \in Nat
  BY DEF WorkerInv, WorkerTypeOK, Req
<1>2. r >= nextId /\ r \notin Range(dispatchQ) \cup workerFds
  BY DEF ProtocolInv, HandedOut
<1>3. runs[r] = 0 /\ r \notin Range(pending)
  BY <1>1, <1>2 DEF QueuedIsFresh
<1>4. frames[r] = "none"
  BY <1>3 DEF FramesFollowRuns
<1>5. \A p \in Pid : preq[p] # r /\ r \notin childFds[p]
  BY <1>3 DEF RunsIsHistory, NoForeignStream
<1>6. ~Open(r)
  BY <1>1, <1>2, <1>3, <1>5, OpenAsSets DEF FdsArePending
<1> QED
  BY <1>3, <1>4, <1>5, <1>6 DEF Runs

\* A handler that runs was started, and its stream is open.
LEMMA RunnerWasStarted ==
    ASSUME ServiceInv, NEW r \in Req, Runs(r)
    PROVE  runs[r] \in Nat /\ runs[r] > 0 /\ Open(r)
<1>1. PICK p \in Pid : pstate[p] = "run" /\ preq[p] = r
  BY DEF Runs
<1>2. r \in childFds[p]
  BY <1>1 DEF ServiceInv, RunningIsActive
<1>3. runs[r] # 0 /\ runs[r] \in Nat
  BY <1>1 DEF ServiceInv, IInv, RunsIsHistory, BrokerTypeOK
<1> QED
  BY <1>2, <1>3 DEF Open

-----------------------------------------------------------------------------
\* No stream begins, ends or fails.
FramesStand(r) ==
    \A f \in {"none", "end", "fail"} : frames'[r] = f <=> frames[r] = f

\* A client is told something once, and only what is so.
Told == Settled \cup {"pump"}
AnswerMoves(r) ==
    \/ req'[r] = req[r]
    \/ req[r] = "pump" /\ req'[r] = "gone"
    \/ req[r] \notin Told /\ req'[r] \notin Told \cup {"new"}
    \/ /\ req[r] \notin Told
       /\ \/ req'[r] \in {"gone", "pump"}
          \/ req'[r] = "done" /\ Ended(r)
          \/ req'[r] = "lost" /\ ~Ended(r)' /\ ~Open(r)'

LEMMA TaskAnswers ==
    ASSUME ServiceInv, WorkerStep, NEW r \in Req PROVE AnswerMoves(r)
<1> USE DEF ServiceInv
<1>1. UNCHANGED <<brokerFds, childFds>> /\ (Ended(r)' <=> Ended(r))
  <2>1. UNCHANGED brokerSide /\ WorkerAction(BrokerUp)
    BY DEF WorkerStep, WorkerTask, WorkerAction, TaskAction, Open
  <2> QED
    BY <2>1, WorkerTakesAChunk
    DEF brokerSide, brokerVars, childVars, IInv, WorkerInv, WorkerTypeOK, TakesAChunk, Ended
<1>2. req \in [Req -> {"new"} \cup Pending \cup Settled] /\ nextId \in Nat
  BY DEF IInv, WorkerInv, WorkerTypeOK
<1>3. UNCHANGED <<workerFds, dispatchQ>> => (Open(r)' <=> Open(r))
  BY <1>1 DEF Open
<1>4. CASE AcquirePermit \/ AbandonWait \/ SendCancel(BrokerUp)
  BY <1>4 DEF AcquirePermit, AbandonWait, SendCancel, AnswerMoves
<1>5. CASE SendDispatch(BrokerUp)
  <2>1. \/ req' = [req EXCEPT ![nextId] = "sent"]
        \/ req' = [req EXCEPT ![nextId] = "lost"] /\ UNCHANGED <<workerFds, dispatchQ>>
    BY <1>5 DEF SendDispatch
  <2>2. CASE r # nextId
    BY <1>2, <2>1, <2>2 DEF AnswerMoves
  <2>3. CASE r = nextId
    <3>1. req[r] = "new"
      BY <1>2, <2>3 DEF ProtocolInv, HandedOut, Req
    <3>2. ~Open(r) /\ ~Ended(r)
      BY <3>1, NewIsUntouched DEF Ended
    <3>3. \/ req'[r] = "sent"
          \/ req'[r] = "lost" /\ UNCHANGED <<workerFds, dispatchQ>>
      BY <1>2, <2>1, <2>3
    <3> QED
      BY <1>1, <1>3, <3>1, <3>2, <3>3 DEF AnswerMoves, Told, Settled
  <2> QED
    BY <2>2, <2>3
<1>6. CASE ReceiveAck
  <2>1. dispatching \in Req /\ Head(ackQ) = dispatching /\ req[dispatching] \in {"sent", "gone"}
    BY <1>6, AckIsOwn DEF IInv, ProtocolInv, HandedOut, Req, NoReq
  <2>2. req' = req \/ (req[dispatching] = "sent" /\ req' = [req EXCEPT ![dispatching] = "await"])
    BY <1>2, <1>6, <2>1 DEF ReceiveAck, Acknowledge
  <2> QED
    BY <1>2, <2>1, <2>2 DEF AnswerMoves, Told, Settled
<1>7. ASSUME NEW q \in Req, WorkerTask(q) \/ WriteTimesOut(q) \/ ClientLeaves(q)
      PROVE  AnswerMoves(r)
  <2>1. UNCHANGED <<workerFds, dispatchQ>>
    BY <1>7 DEF WorkerTask, ReadStart, ReadEnd, ReadEof, ChunkRefused, WriteTimesOut, ClientLeaves
  <2>2. \/ req[q] = "pump" /\ req' = [req EXCEPT ![q] = "gone"]
        \/ /\ req[q] \notin Told
           /\ \/ req' = [req EXCEPT ![q] = "stream"] \/ req' = [req EXCEPT ![q] = "pump"]
              \/ req' = [req EXCEPT ![q] = "gone"]
              \/ req' = [req EXCEPT ![q] = "done"] /\ Ended(q)
              \/ req' = [req EXCEPT ![q] = "lost"] /\ ~Ended(q) /\ ~Open(q)
    <3>1. CASE ReadStart(q) \/ ReadEnd(q) \/ ChunkRefused(q) \/ WriteTimesOut(q) \/ ClientLeaves(q)
      BY <3>1 DEF ReadStart, ReadEnd, ChunkRefused, WriteTimesOut, ClientLeaves, Told, Settled
    <3>2. CASE ReadEof(q, Open(q))
      BY <3>2 DEF ReadEof, Told, Settled, Leased
    <3> QED
      BY <1>7, <3>1, <3>2 DEF WorkerTask
  <2>3. CASE q = r
    <3>1. req'[r] # req[r] => (req[r] = "pump" /\ req'[r] = "gone") \/ req[r] \notin Told
      BY <1>2, <2>2, <2>3
    <3> QED
      BY <1>1, <1>2, <1>3, <2>1, <2>2, <2>3, <3>1 DEF AnswerMoves, Told, Settled
  <2>4. CASE q # r
    BY <1>2, <2>2, <2>4 DEF AnswerMoves
  <2> QED
    BY <2>3, <2>4
<1>8. CASE WorkerExit
  BY <1>2, <1>8 DEF WorkerExit, AnswerMoves, Pending, Leased, Told, Settled
<1> QED
  BY <1>4, <1>5, <1>6, <1>7, <1>8 DEF WorkerStep

\* A step of the worker writes no frame, takes a chunk at most, and puts no known id on the socket.
LEMMA WorkerServes ==
    ASSUME ServiceInv, WorkerStep
    PROVE  /\ ProtocolInv' /\ FramesFollowRuns' /\ RunningIsActive'
           /\ UNCHANGED <<runs, pstate, preq>>
           /\ \A r \in Req : FramesStand(r)
           /\ \A r \in Req : Open(r)' => Open(r) \/ req[r] = "new"
<1> USE DEF ServiceInv
<1>1. UNCHANGED brokerSide
  BY DEF WorkerStep
<1>3. UNCHANGED <<runs, pstate, preq, active, childFds, brokerFds, pending>>
  BY <1>1 DEF brokerSide, brokerVars, childVars
<1>4. WorkerAction(BrokerUp) /\ BrokerUp \in BOOLEAN
  BY DEF WorkerStep, WorkerTask, WorkerAction, TaskAction, BrokerUp, Open
<1>2. \A r \in Req : FramesStand(r)
  BY <1>4, WorkerTakesAChunk DEF IInv, WorkerInv, WorkerTypeOK, TakesAChunk, FramesStand
<1>5. ProtocolInv' /\ WorkerInv' /\ QueuesGrow
  BY <1>4, WorkerStepProtocol, WorkerStepInv DEF IInv
<1>6. nextId \in Nat /\ dispatchQ \in Seq(Req) /\ dispatchQ' \in Seq(Req)
  BY <1>5 DEF IInv, WorkerInv, WorkerTypeOK
<1>7. \A r \in Range(dispatchQ') : r \in Range(dispatchQ) \/ (r = nextId /\ nextId \in Req)
  <2>1. CASE dispatchQ' = dispatchQ
    BY <2>1
  <2>2. CASE nextId \in Req /\ dispatchQ' = Append(dispatchQ, nextId)
    <3>1. Range(dispatchQ') = Range(dispatchQ) \cup {nextId}
      BY <1>6, <2>2, RangeOfAppend
    <3> QED
      BY <2>2, <3>1
  <2> QED
    BY <1>5, <2>1, <2>2 DEF QueuesGrow
<1>8. nextId \in Req => req[nextId] = "new"
  BY <1>6 DEF ProtocolInv, HandedOut
<1>9. FramesFollowRuns'
  <2>1. ASSUME NEW r \in Req
        PROVE  /\ req[r] # "new" => req'[r] # "new"
               /\ req'[r] = "done" => req[r] = "done" \/ Ended(r)
    BY TaskAnswers DEF AnswerMoves, Told, Settled
  <2> QED
    BY <1>2, <1>3, <1>7, <1>8, <2>1 DEF FramesStand, FramesFollowRuns, Ended
<1>10. RunningIsActive'
  BY <1>3 DEF RunningIsActive
<1>11. ASSUME NEW r \in Req, Open(r)' PROVE Open(r) \/ req[r] = "new"
  <2>1. workerFds' \subseteq workerFds \cup {nextId}
    BY DEF WorkerStep, AcquirePermit, AbandonWait, SendDispatch, ReceiveAck, WorkerTask, ReadStart,
       ReadEnd, ReadEof, ChunkRefused, WriteTimesOut, ClientLeaves, SendCancel, WorkerExit
  <2>2. r \in Range(dispatchQ') <=> \E i \in 1 .. Len(dispatchQ') : dispatchQ'[i] = r
    BY <1>6, LenProperties DEF Range
  <2>3. \/ r \in workerFds' \cup brokerFds' \cup Range(dispatchQ')
        \/ \E p \in Pid : r \in childFds'[p]
    BY <1>11, <2>2 DEF Open
  <2>4. Open(r) <=> \/ r \in workerFds \cup brokerFds \cup Range(dispatchQ)
                    \/ \E p \in Pid : r \in childFds[p]
    BY <1>6, OpenAsSets
  <2> QED
    BY <1>3, <1>7, <1>8, <2>1, <2>3, <2>4
<1> QED
  BY <1>2, <1>3, <1>5, <1>9, <1>10, <1>11

-----------------------------------------------------------------------------
\* What the broker's other steps mean for the requests: nothing is written,
\* no handler starts, and a stream only moves from the socket to the queue.
Quiet ==
    /\ UNCHANGED <<frames, runs, req, workerFds, preq>>
    /\ dispatchQ' \in Seq(Req)
    /\ Range(dispatchQ') \cup Range(pending') \subseteq Range(dispatchQ) \cup Range(pending)
    /\ brokerFds' \subseteq brokerFds \cup Range(dispatchQ)
    /\ \A p \in Pid : /\ childFds'[p] \subseteq childFds[p]
                      /\ pstate'[p] = "run" =>
                            /\ pstate[p] = "run" /\ childFds'[p] = childFds[p]
                            /\ active'[preq[p]] = active[preq[p]]

\* Ending one handler concerns no other.
LEMMA ReapedIsQuiet ==
    ASSUME IInv, NEW p \in Pid, Reaped(p)
    PROVE  \A q \in Pid : /\ childFds'[q] \subseteq childFds[q]
                          /\ pstate'[q] = "run" =>
                                pstate[q] = "run" /\ q # p /\ childFds'[q] = childFds[q]
  BY DEF IInv, BrokerTypeOK, Reaped

LEMMA BrokerIsQuiet ==
    ASSUME ServiceInv, BrokerStep \/ BrokerSigterm \/ BrokerKilled, ~BrokerFork, ~BrokerForkFails
    PROVE  Quiet /\ ProtocolInv'
<1> USE DEF ServiceInv
<1>1. /\ dispatchQ \in Seq(Req) /\ pending \in Seq(Req)
      /\ pstate \in [Pid -> {"unborn", "run", "zombie", "reaped"}]
      /\ preq \in [Pid -> Req \cup {NoReq}] /\ active \in [Req -> Pid \cup {NoPid}]
      /\ Queue(pending, Req) /\ WorkerInv
  BY DEF IInv, WorkerInv, WorkerTypeOK, BrokerTypeOK, QueuedOnce
<1>2. \A p \in Pid : pstate[p] = "run" => preq[p] \in Req /\ active[preq[p]] = p
  BY <1>1 DEF RunningIsActive, IInv, RunsIsHistory
<1>3. Range(<< >>) = {} /\ << >> \in Seq(Req)
  BY EmptyQueue, EmptySeq
<1>4. CASE BrokerTop \/ BrokerReapedAll \/ BrokerStarted \/ BrokerPoll \/ BrokerSigterm
  <2>1. UNCHANGED <<workerVars, active, pending, brokerFds, childVars, runs>>
    BY <1>4 DEF BrokerTop, BrokerReapedAll, BrokerStarted, BrokerPoll, BrokerSigterm
  <2>2. UNCHANGED <<worker, nextId, req, dispatching, workerFds, cancels, cancelQ, dispatchQ, ackQ>>
    BY <2>1 DEF workerVars
  <2>3. ProtocolInv'
    BY <1>1, <2>2, BrokerProtocol
  <2> QED
    BY <1>1, <2>1, <2>3 DEF Quiet, workerVars, childVars
<1>5. CASE BrokerReap
  <2>1. PICK p \in Pid : /\ pstate[p] = "zombie" /\ Reaped(p)
                         /\ active' = Forget(p)
    BY <1>5 DEF BrokerReap
  <2>2. UNCHANGED <<workerVars, pending, brokerFds, runs>> /\ preq' = preq
    BY <1>5, <2>1 DEF BrokerReap, Reaped
  <2>3. UNCHANGED <<worker, nextId, req, dispatching, workerFds, cancels, cancelQ, dispatchQ, ackQ>>
    BY <2>2 DEF workerVars
  <2>4. ProtocolInv'
    BY <1>1, <2>3, BrokerProtocol
  <2>5. \A q \in Pid : pstate'[q] = "run" => active'[preq[q]] = active[preq[q]]
    <3>1. ASSUME NEW q \in Pid, pstate'[q] = "run" PROVE active'[preq[q]] = active[preq[q]]
      <4>1. pstate[q] = "run" /\ q # p
        BY <2>1, <3>1, ReapedIsQuiet
      <4>2. preq[q] \in Req /\ active[preq[q]] # p
        BY <1>2, <4>1
      <4> QED
        BY <2>1, <4>2 DEF Forget
    <3> QED
      BY <3>1
  <2>6. \A q \in Pid : /\ childFds'[q] \subseteq childFds[q]
                       /\ pstate'[q] = "run" => pstate[q] = "run" /\ childFds'[q] = childFds[q]
    BY <2>1, ReapedIsQuiet
  <2> QED
    BY <1>1, <2>2, <2>4, <2>5, <2>6 DEF Quiet, workerVars
<1>6. CASE BrokerCancel
  <2> DEFINE id == Head(cancelQ)
  <2>1. /\ UNCHANGED <<worker, nextId, req, dispatching, workerFds, cancels, dispatchQ, ackQ,
                      frames, runs>>
        /\ cancelQ # << >> /\ cancelQ' = Tail(cancelQ)
        /\ CancelActive(id) \/ CancelQueued(id) \/ CancelUnknown(id)
    BY <1>6 DEF BrokerCancel, IInv, ReadyIsReadable
  <2>2. ProtocolInv'
    BY <1>1, <2>1, BrokerProtocol
  <2>3. id \in Req
    <3>1. cancelQ \in Seq(Req)
      BY <1>1 DEF WorkerInv, WorkerTypeOK
    <3> QED
      BY <2>1, <3>1, RangeOfTail
  <2> HIDE DEF id
  <2>4. CASE CancelActive(id)
    <3>1. /\ active[id] \in Pid /\ Reaped(active[id]) /\ active' = [active EXCEPT ![id] = NoPid]
          /\ UNCHANGED <<pending, brokerFds>>
      BY <1>1, <2>3, <2>4 DEF CancelActive
    <3>2. \A q \in Pid :
             /\ childFds'[q] \subseteq childFds[q]
             /\ pstate'[q] = "run" =>
                   pstate[q] = "run" /\ q # active[id] /\ childFds'[q] = childFds[q]
      BY <3>1, ReapedIsQuiet
    <3>3. \A q \in Pid : pstate'[q] = "run" => active'[preq[q]] = active[preq[q]]
      <4>1. ASSUME NEW q \in Pid, pstate'[q] = "run" PROVE active'[preq[q]] = active[preq[q]]
        <5>1. preq[q] \in Req /\ preq[q] # id
          BY <1>2, <3>2, <4>1
        <5> QED
          BY <1>1, <3>1, <5>1
      <4> QED
        BY <4>1
    <3>4. preq' = preq
      BY <3>1 DEF Reaped
    <3> QED
      BY <1>1, <2>1, <2>2, <3>1, <3>2, <3>3, <3>4 DEF Quiet
  <2>5. CASE CancelQueued(id)
    <3>1. PICK i \in 1 .. Len(pending) : pending' = RemoveAt(pending, i)
      BY <2>5 DEF CancelQueued
    <3>2. brokerFds' \subseteq brokerFds /\ UNCHANGED <<active, childVars>>
      BY <2>5 DEF CancelQueued
    <3>3. Range(pending') \subseteq Range(pending)
      BY <1>1, <3>1, RemoveFromQueue
    <3> QED
      BY <1>1, <2>1, <2>2, <3>2, <3>3 DEF Quiet, childVars
  <2>6. CASE CancelUnknown(id)
    <3>1. UNCHANGED <<active, pending, brokerFds, childVars>>
      BY <2>6 DEF CancelUnknown
    <3> QED
      BY <1>1, <2>1, <2>2, <3>1 DEF Quiet, childVars
  <2> QED
    BY <2>1, <2>4, <2>5, <2>6
<1>7. CASE BrokerDispatch
  <2> DEFINE id == Head(dispatchQ)
  <2>1. /\ UNCHANGED <<worker, nextId, req, dispatching, workerFds, cancels, cancelQ, frames,
                      active, childVars, runs>>
        /\ dispatchQ # << >> /\ dispatchQ' = Tail(dispatchQ)
        /\ \/ ackQ' = Append(ackQ, id)
           \/ worker = "gone"
        /\ \/ pending' = pending /\ brokerFds' = brokerFds
           \/ pending' = Append(pending, id) /\ brokerFds' = brokerFds \cup {id}
    BY <1>7 DEF BrokerDispatch, Enqueue, IInv, ReadyIsReadable
  <2>2. ProtocolInv'
    BY <1>1, <2>1, BrokerProtocol
  <2>3. /\ id \in Range(dispatchQ) /\ id \in Req /\ Tail(dispatchQ) \in Seq(Req)
        /\ Range(Tail(dispatchQ)) \subseteq Range(dispatchQ)
    BY <1>1, <2>1, RangeOfTail
  <2>4. Range(Append(pending, id)) = Range(pending) \cup {id}
    BY <1>1, <2>3, RangeOfAppend
  <2> HIDE DEF id
  <2>5. Range(pending') \subseteq Range(pending) \cup {id} /\ brokerFds' \subseteq brokerFds \cup {id}
    BY <2>1, <2>4
  <2> QED
    BY <1>1, <2>1, <2>2, <2>3, <2>5 DEF Quiet, childVars
<1>8. CASE BrokerExit \/ BrokerKilled
  <2>1. /\ UNCHANGED <<worker, nextId, req, dispatching, workerFds, cancels, ackQ, cancelQ, frames,
                      active, preq, runs>>
        /\ pending' = << >> /\ dispatchQ' = << >> /\ brokerFds' = {}
    BY <1>8 DEF BrokerExit, BrokerKilled, childVars
  <2>2. ProtocolInv'
    BY <1>1, <2>1, BrokerProtocol
  <2>3. \A p \in Pid : /\ childFds'[p] \subseteq childFds[p]
                       /\ pstate'[p] = "run" => pstate[p] = "run" /\ childFds'[p] = childFds[p]
    BY <1>1, <1>8 DEF BrokerExit, BrokerKilled, childVars
  <2> QED
    BY <1>3, <2>1, <2>2, <2>3 DEF Quiet
<1> QED
  BY <1>4, <1>5, <1>6, <1>7, <1>8 DEF BrokerStep

-----------------------------------------------------------------------------
\* How the facts about a request may change.
Moves(r) ==
    /\ frames[r] = "end" => frames'[r] = "end"
    /\ frames[r] = "fail" => frames'[r] = "fail"
    /\ frames'[r] = "end" => frames[r] = "end" \/ Runs(r)
    /\ frames'[r] = "fail" => frames[r] = "fail" \/ Waits(r)
    /\ Runs(r)' => Runs(r) \/ (Waits(r) /\ req[r] # "new")
    /\ runs[r] > 0 => runs'[r] > 0
    /\ req[r] # "new" => req'[r] # "new"
    /\ Waits(r)' => Waits(r) \/ req[r] = "new"

\* What a step must show beside the inductive step of IInv.
Serves == ProtocolInv' /\ FramesFollowRuns' /\ RunningIsActive' /\ \A r \in Req : Moves(r)

\* A request in the queue waits.
LEMMA QueuedWaits ==
    ASSUME ServiceInv, NEW r \in Range(pending)
    PROVE  /\ r \in Req /\ runs[r] = 0 /\ frames[r] = "none" /\ r \in brokerFds
           /\ Waits(r) /\ req[r] # "new"
<1> USE DEF ServiceInv, IInv
<1>1. r \in Req /\ r < nextId /\ runs[r] = 0 /\ r \in brokerFds
  BY QueueElements DEF QueuedOnce, QueuedIsFresh, FdsArePending
<1>2. frames[r] = "none"
  BY <1>1 DEF FramesFollowRuns
<1>3. req[r] # "new"
  BY <1>1 DEF WorkerInv, WorkerTypeOK, ProtocolInv, HandedOut, Req
<1> QED
  BY <1>1, <1>2, <1>3 DEF Waits, Open, Ended

LEMMA WorkerKeepsServing == ASSUME ServiceInv, WorkerStep PROVE Serves
<1>1. /\ ProtocolInv' /\ FramesFollowRuns' /\ RunningIsActive'
      /\ UNCHANGED <<runs, pstate, preq>>
      /\ \A r \in Req : FramesStand(r)
      /\ \A r \in Req : Open(r)' => Open(r) \/ req[r] = "new"
  BY WorkerServes
<1>2. ASSUME NEW r \in Req PROVE Moves(r)
  <2>1. req[r] # "new" => req'[r] # "new"
    BY TaskAnswers DEF AnswerMoves, Told, Settled
  <2>2. Runs(r)' <=> Runs(r)
    BY <1>1 DEF Runs
  <2>3. Waits(r)' => Waits(r) \/ req[r] = "new"
    BY <1>1 DEF FramesStand, Waits, Ended
  <2> QED
    BY <1>1, <2>1, <2>2, <2>3 DEF FramesStand, Moves
<1> QED
  BY <1>1, <1>2 DEF Serves

LEMMA QuietKeepsServing == ASSUME ServiceInv, Quiet, ProtocolInv' PROVE Serves
<1> USE DEF ServiceInv
<1>1. FramesFollowRuns'
  BY DEF Quiet, FramesFollowRuns, Ended
<1>2. RunningIsActive'
  BY DEF Quiet, RunningIsActive
<1>3. ASSUME NEW r \in Req PROVE Moves(r)
  <2>1. Runs(r)' => Runs(r)
    BY DEF Quiet, Runs
  <2>2. Open(r)' => Open(r)
    <3>1. Open(r) <=> \/ r \in workerFds \cup brokerFds \cup Range(dispatchQ)
                      \/ \E p \in Pid : r \in childFds[p]
      BY OpenAsSets DEF IInv, WorkerInv, WorkerTypeOK
    <3>2. r \in Range(dispatchQ') <=> \E i \in 1 .. Len(dispatchQ') : dispatchQ'[i] = r
      BY LenProperties DEF Range, Quiet
    <3>3. Open(r)' => \/ r \in workerFds' \cup brokerFds' \cup Range(dispatchQ')
                      \/ \E p \in Pid : r \in childFds'[p]
      BY <3>2 DEF Open
    <3>4. Range(dispatchQ') \subseteq Range(dispatchQ) \cup brokerFds
      BY DEF Quiet, IInv, FdsArePending
    <3> QED
      BY <3>1, <3>3, <3>4 DEF Quiet
  <2> QED
    BY <2>1, <2>2 DEF Quiet, Moves, Waits, Ended
<1> QED
  BY <1>1, <1>2, <1>3 DEF Serves

\* A handler is begun for a request that waits.
LEMMA ForkKeepsServing == ASSUME ServiceInv, BrokerFork PROVE Serves
<1> DEFINE id == Head(pending)
           new == nextPid
<1> USE DEF ServiceInv
<1>1. /\ pending # << >> /\ nextPid <= MaxPids /\ pending' = Tail(pending)
      /\ UNCHANGED workerVars
      /\ brokerFds' = brokerFds \ {id}
      /\ pstate' = [pstate EXCEPT ![new] = "run"]
      /\ preq' = [preq EXCEPT ![new] = id]
      /\ childFds' = [childFds EXCEPT ![new] = brokerFds \ Range(pending')]
      /\ active' = [active EXCEPT ![id] = new]
      /\ runs' = [runs EXCEPT ![id] = @ + 1]
  BY DEF BrokerFork, InheritedFds
<1>2. Range(pending') = Range(pending) \ {id} /\ id \in Range(pending)
  BY <1>1, TailOfQueue DEF IInv, QueuedOnce
<1>3. /\ id \in Req /\ runs[id] = 0 /\ frames[id] = "none" /\ id \in brokerFds
      /\ Waits(id) /\ req[id] # "new"
  BY <1>2, QueuedWaits
<1>4. /\ new \in Pid /\ pstate[new] = "unborn" /\ childFds[new] = {}
      /\ \A p \in Pid : preq[p] # id
  <2>1. new \in Pid
    BY <1>1 DEF IInv, BrokerTypeOK, Pid
  <2>2. pstate[new] = "unborn" /\ preq[new] = NoReq
    BY <2>1 DEF IInv, RunsIsHistory, Pid
  <2>3. childFds[new] = {}
    BY <2>1, <2>2 DEF IInv, BrokerTypeOK, NoForeignStream, Req, NoReq
  <2> QED
    BY <1>3, <2>1, <2>2, <2>3 DEF IInv, RunsIsHistory
<1>5. /\ pstate \in [Pid -> {"unborn", "run", "zombie", "reaped"}]
      /\ preq \in [Pid -> Req \cup {NoReq}] /\ active \in [Req -> Pid \cup {NoPid}]
      /\ childFds \in [Pid -> SUBSET Req] /\ runs \in [Req -> Nat]
  BY DEF IInv, BrokerTypeOK
<1> HIDE DEF id, new
<1>6. childFds'[new] = {id}
  BY <1>1, <1>2, <1>4, <1>5 DEF IInv, FdsArePending
<1>7. ProtocolInv'
  <2>1. UNCHANGED <<worker, nextId, req, dispatching, workerFds, cancels, cancelQ, dispatchQ, ackQ>>
    BY <1>1 DEF workerVars
  <2> QED
    BY <2>1, BrokerProtocol DEF IInv
<1>8. FramesFollowRuns'
  <2>1. UNCHANGED <<frames, req, dispatchQ>>
    BY <1>1 DEF workerVars
  <2>2. \A r \in Req : r # id => runs'[r] = runs[r]
    BY <1>1, <1>5
  <2>3. runs'[id] # 0 /\ frames[id] = "none"
    BY <1>1, <1>3, <1>5
  <2> QED
    BY <1>2, <2>1, <2>2, <2>3 DEF FramesFollowRuns, Ended
<1>9. RunningIsActive'
  <2>1. ASSUME NEW p \in Pid, pstate'[p] = "run"
        PROVE  active'[preq'[p]] = p /\ preq'[p] \in childFds'[p]
    <3>1. CASE p = new
      BY <1>1, <1>3, <1>4, <1>5, <1>6, <3>1
    <3>2. CASE p # new
      <4>1. pstate[p] = "run" /\ preq'[p] = preq[p] /\ childFds'[p] = childFds[p]
        BY <1>1, <1>5, <2>1, <3>2
      <4>2. preq[p] # id /\ active[preq[p]] = p /\ preq[p] \in childFds[p] /\ preq[p] \in Req
        BY <1>4, <1>5, <4>1 DEF RunningIsActive
      <4> QED
        BY <1>1, <1>5, <4>1, <4>2
    <3> QED
      BY <3>1, <3>2
  <2> QED
    BY <2>1 DEF RunningIsActive
<1>10. ASSUME NEW r \in Req PROVE Moves(r)
  <2>1. UNCHANGED <<frames, req, dispatchQ, workerFds>>
    BY <1>1 DEF workerVars
  <2>2. Runs(r)' => Runs(r) \/ r = id
    BY <1>1, <1>5 DEF Runs
  <2>3. /\ runs[r] > 0 => runs'[r] > 0
        /\ runs'[r] = 0 => runs[r] = 0
    BY <1>1, <1>5
  <2>4. Open(r)' => Open(r)
    <3>1. \A p \in Pid : r \in childFds'[p] => r \in childFds[p] \/ r = id
      BY <1>1, <1>5, <1>6
    <3>2. r = id => Open(r)
      BY <1>3 DEF Open
    <3> QED
      BY <1>1, <2>1, <3>1, <3>2 DEF Open
  <2> QED
    BY <1>3, <2>1, <2>2, <2>3, <2>4 DEF Moves, Waits, Ended
<1> QED
  BY <1>7, <1>8, <1>9, <1>10 DEF Serves

\* The broker answers for a request that waits and will have no handler.
LEMMA ForkFailsKeepsServing == ASSUME ServiceInv, BrokerForkFails PROVE Serves
<1> DEFINE id == Head(pending)
<1> USE DEF ServiceInv
<1>1. /\ pending # << >> /\ pending' = Tail(pending)
      /\ frames' = [frames EXCEPT ![id] = "fail"]
      /\ brokerFds' = brokerFds \ {id}
      /\ UNCHANGED <<worker, nextId, req, dispatching, workerFds, cancels, dispatchQ, ackQ,
                    cancelQ, active, childVars, runs>>
  BY DEF BrokerForkFails, Refuse
<1>2. Range(pending') = Range(pending) \ {id} /\ id \in Range(pending)
  BY <1>1, TailOfQueue DEF IInv, QueuedOnce
<1>3. /\ id \in Req /\ runs[id] = 0 /\ frames[id] = "none"
      /\ Waits(id) /\ req[id] # "new" /\ id \notin Range(dispatchQ)
  BY <1>2, QueuedWaits DEF IInv, QueuedOnce
<1> HIDE DEF id
<1>4. \A r \in Req : frames'[r] = IF r = id THEN "fail" ELSE frames[r]
  BY <1>1 DEF IInv, WorkerInv, WorkerTypeOK
<1>5. ProtocolInv'
  BY <1>1, BrokerProtocol DEF IInv
<1>6. FramesFollowRuns'
  BY <1>1, <1>2, <1>3, <1>4 DEF FramesFollowRuns, Ended
<1>7. RunningIsActive'
  BY <1>1 DEF RunningIsActive, childVars
<1>8. ASSUME NEW r \in Req PROVE Moves(r)
  <2>1. Runs(r)' <=> Runs(r)
    BY <1>1 DEF Runs, childVars
  <2>2. Open(r)' => Open(r)
    BY <1>1 DEF Open, childVars
  <2>3. Ended(r) => Ended(r)'
    BY <1>4 DEF Ended
  <2> QED
    BY <1>1, <1>3, <1>4, <2>1, <2>2, <2>3 DEF Moves, Waits
<1> QED
  BY <1>5, <1>6, <1>7, <1>8 DEF Serves

\* A handler writes to its own stream only.
LEMMA ChildKeepsServing ==
    ASSUME ServiceInv, NEW p \in Pid, ChildStep(p) \/ ChildDies(p) PROVE Serves
<1> USE DEF ServiceInv
<1>1. /\ pstate[p] = "run" /\ pstate' \in {pstate, [pstate EXCEPT ![p] = "zombie"]}
      /\ childFds' \in {childFds, [childFds EXCEPT ![p] = {}]}
      /\ childFds' = childFds \/ pstate' = [pstate EXCEPT ![p] = "zombie"]
      /\ UNCHANGED <<worker, nextId, req, dispatching, workerFds, cancels, dispatchQ,
                    ackQ, cancelQ, active, pending, brokerFds, preq, runs>>
      /\ \/ frames' = frames
         \/ frames[preq[p]] = "none" /\ frames' = [frames EXCEPT ![preq[p]] = "start"]
         \/ frames[preq[p]] = "start" /\ frames' = [frames EXCEPT ![preq[p]] = "chunk"]
         \/ frames' = [frames EXCEPT ![preq[p]] = "end"]
  BY DEF ChildStep, ChildStart, ChildWrites, ChildFinish, ChildIncomplete, ChildDies, brokerSide,
         brokerVars, workerVars, childVars, boundVars
<1>2. /\ pstate \in [Pid -> {"unborn", "run", "zombie", "reaped"}]
      /\ childFds \in [Pid -> SUBSET Req] /\ runs \in [Req -> Nat]
      /\ frames \in [Req -> {"none", "start", "chunk", "end", "fail"}]
  BY DEF IInv, BrokerTypeOK, WorkerInv, WorkerTypeOK
<1>3. preq[p] \in Req /\ Runs(preq[p]) /\ runs[preq[p]] # 0
  BY <1>1 DEF IInv, RunsIsHistory, BrokerTypeOK, Runs
<1>4. frames[preq[p]] # "fail"
  BY <1>3 DEF FramesFollowRuns
<1>5. \A r \in Req :
         /\ frames[r] = "end" => frames'[r] = "end"
         /\ frames[r] = "fail" <=> frames'[r] = "fail"
         /\ frames'[r] # frames[r] => r = preq[p]
  BY <1>1, <1>2, <1>3, <1>4
<1>6. ProtocolInv'
  BY <1>1, BrokerProtocol DEF IInv
<1>7. FramesFollowRuns'
  BY <1>1, <1>3, <1>5 DEF FramesFollowRuns, Ended
<1>8. RunningIsActive'
  BY <1>1, <1>2 DEF RunningIsActive
<1>9. ASSUME NEW r \in Req PROVE Moves(r)
  <2>1. Runs(r)' => Runs(r)
    BY <1>1, <1>2 DEF Runs
  <2>2. Open(r)' => Open(r)
    BY <1>1, <1>2 DEF Open
  <2>3. Ended(r) => Ended(r)'
    BY <1>5 DEF Ended
  <2> QED
    BY <1>1, <1>3, <1>5, <2>1, <2>2, <2>3 DEF Moves, Waits
<1> QED
  BY <1>6, <1>7, <1>8, <1>9 DEF Serves

\* Every step keeps the protocol and moves each request as the service allows.
LEMMA NextKeepsServing == ASSUME ServiceInv, [Next]_vars PROVE Serves
<1>1. CASE BrokerStep \/ BrokerSigterm \/ BrokerKilled
  BY <1>1, BrokerIsQuiet, QuietKeepsServing, ForkKeepsServing, ForkFailsKeepsServing
<1>2. CASE UNCHANGED vars
  <2>1. UNCHANGED <<workerVars, pending, active, brokerFds, childVars, runs>>
    BY <1>2 DEF vars, brokerSide, brokerVars
  <2>2. UNCHANGED <<worker, nextId, req, dispatching, workerFds, cancels, dispatchQ, ackQ, cancelQ,
                    frames>>
    BY <2>1 DEF workerVars
  <2>3. ProtocolInv'
    BY <2>2, BrokerProtocol DEF ServiceInv, IInv
  <2>4. dispatchQ \in Seq(Req)
    BY DEF ServiceInv, IInv, WorkerInv, WorkerTypeOK
  <2>5. Quiet
    BY <2>1, <2>2, <2>4 DEF Quiet, childVars
  <2> QED
    BY <2>3, <2>5, QuietKeepsServing
<1> QED
  BY <1>1, <1>2, WorkerKeepsServing, ChildKeepsServing DEF Next

LEMMA InitServiceInv == Init => ServiceInv
<1> SUFFICES ASSUME Init PROVE ServiceInv
  OBVIOUS
<1>1. ProtocolInv
  BY WorkerInitProtocol DEF Init
<1>2. FramesFollowRuns /\ RunningIsActive
  BY DEF Init, WorkerInit, FramesFollowRuns, RunningIsActive, Ended
<1> QED
  BY <1>1, <1>2, InitInv DEF ServiceInv

LEMMA ServiceInductive == Spec => []ServiceInv
<1>1. ServiceInv /\ [Next]_vars => ServiceInv'
  BY NextPreserves, NextKeepsServing DEF Serves, ServiceInv
<1> QED
  BY <1>1, InitServiceInv, PTL DEF Spec

-----------------------------------------------------------------------------
\* The status of a request, from four facts about it that exclude each other.
StatusFrom(ended, running, new, waits) ==
    IF ended THEN "finished" ELSE
    IF running THEN "running" ELSE
    IF new THEN "idle" ELSE IF waits THEN "queued" ELSE "dropped"
StatusIsFrom(r) ==
    StatusOf(r) = StatusFrom(frames[r] = "end", Runs(r), req[r] = "new", Waits(r))
StatusFacts(r) ==
    /\ frames[r] = "end" \/ Runs(r) => runs[r] > 0
    /\ req[r] = "new" => frames[r] = "none" /\ ~Runs(r) /\ runs[r] = 0
    /\ Runs(r) => Open(r)
    /\ frames[r] = "fail" => runs[r] = 0 /\ req[r] # "new"
    /\ req[r] = "done" => Ended(r)
    /\ runs[r] \in Nat
StatusInv == \A r \in Req : StatusFacts(r) /\ StatusIsFrom(r)

LEMMA StatusOfBroker == ServiceInv => StatusInv
<1> SUFFICES ASSUME ServiceInv, NEW r \in Req PROVE StatusFacts(r) /\ StatusIsFrom(r)
  BY DEF StatusInv
<1>1. runs[r] \in Nat
  BY DEF ServiceInv, IInv, BrokerTypeOK
<1>2. /\ frames[r] = "end" => runs[r] # 0
      /\ frames[r] = "fail" => runs[r] = 0 /\ req[r] # "new"
      /\ req[r] = "done" => Ended(r)
  BY DEF ServiceInv, FramesFollowRuns
<1>3. StatusFacts(r)
  BY <1>1, <1>2, NewIsUntouched, RunnerWasStarted DEF StatusFacts
<1>4. StatusIsFrom(r)
  BY NewIsUntouched DEF StatusIsFrom, StatusOf, StatusFrom, Runs, Waits
<1> QED
  BY <1>3, <1>4

\* Every running handler is in the map, so no more run than the cap allows.
RunsAreBounded == Cardinality({r \in Req : StatusOf(r) = "running"}) <= Concurrency

LEMMA RunningIsCapped == ServiceInv /\ CapHolds => RunsAreBounded
<1> DEFINE R == {r \in Req : StatusOf(r) = "running"}
<1> SUFFICES ASSUME ServiceInv, CapHolds PROVE Cardinality(R) <= Concurrency
  BY DEF RunsAreBounded
<1>1. ASSUME NEW r \in R PROVE r \in Actives
  <2>1. StatusIsFrom(r)
    BY StatusOfBroker DEF StatusInv
  <2>2. PICK p \in Pid : pstate[p] = "run" /\ preq[p] = r
    BY <2>1 DEF StatusIsFrom, StatusFrom, Runs
  <2>3. active[r] = p
    BY <2>2 DEF ServiceInv, RunningIsActive
  <2> QED
    BY <2>3 DEF Actives, Pid, NoPid
<1>2. R \subseteq Actives
  BY <1>1
<1> HIDE DEF R
<1>3. /\ Cardinality(R) <= Cardinality(Actives) /\ Cardinality(R) \in Nat
      /\ Cardinality(Actives) \in Nat
  BY <1>2, ActivesAreFinite, FS_Subset, FS_CardinalityType
<1> QED
  BY <1>3, WorkerAssumption DEF CapHolds

\* The broker starts as the service does.
LEMMA InitServes == Init => Service!Init
<1> SUFFICES ASSUME Init PROVE Service!Init
  OBVIOUS
<1>1. ASSUME NEW r \in Req PROVE StatusOf(r) = "idle" /\ AnswerOf(r) = "none"
  <2>1. frames[r] = "none" /\ req[r] = "new" /\ \A p \in Pid : pstate[p] # "run"
    BY DEF Init, WorkerInit
  <2>2. StatusIsFrom(r) /\ ~Runs(r)
    BY <2>1, InitServiceInv, StatusOfBroker DEF StatusInv, Runs
  <2> QED
    BY <2>1, <2>2 DEF StatusIsFrom, StatusFrom, AnswerOf
<1> QED
  BY <1>1 DEF Service!Init

\* Only the worker tells a client anything.
LEMMA AnswersMove == ASSUME ServiceInv, [Next]_vars, NEW r \in Req PROVE AnswerMoves(r)
<1>1. CASE UNCHANGED vars
  BY <1>1 DEF vars, workerVars, AnswerMoves
<1>2. CASE BrokerFork \/ BrokerForkFails
  BY <1>2 DEF BrokerFork, BrokerForkFails, workerVars, AnswerMoves
<1>3. CASE (BrokerStep \/ BrokerSigterm \/ BrokerKilled) /\ ~BrokerFork /\ ~BrokerForkFails
  BY <1>3, BrokerIsQuiet DEF Quiet, AnswerMoves
<1>4. ASSUME NEW p \in Pid, ChildStep(p) \/ ChildDies(p) PROVE AnswerMoves(r)
  BY <1>4 DEF ChildStep, ChildStart, ChildWrites, ChildFinish, ChildIncomplete, ChildDies, workerVars,
     AnswerMoves
<1> QED
  BY <1>1, <1>2, <1>3, <1>4, TaskAnswers DEF Next

\* Every step of the broker is a step of the service, or changes nothing of it.
LEMMA StepServes ==
    ASSUME ServiceInv, StatusInv, StatusInv', RunsAreBounded', [Next]_vars
    PROVE  Service!Next
<1>1. ASSUME NEW r \in Req PROVE Moves(r) /\ AnswerMoves(r)
  BY NextKeepsServing, AnswersMove DEF Serves
<1>2. ASSUME NEW r \in Req
      PROVE  StatusFacts(r) /\ StatusFacts(r)' /\ StatusIsFrom(r) /\ StatusIsFrom(r)'
  BY DEF StatusInv
<1>3. ASSUME NEW r \in Req PROVE Service!StatusStep(r)
  BY <1>1, <1>2 DEF Moves, StatusFacts, StatusIsFrom, StatusFrom, Waits, Service!StatusStep
<1>4. ASSUME NEW r \in Req PROVE Service!AnswerStep(r)
  <2>1. /\ frames[r] = "end" => StatusOf(r) = "finished"
        /\ frames'[r] # "end" /\ ~Runs(r)' /\ ~Waits(r)' /\ req'[r] # "new" =>
              StatusOf(r)' = "dropped"
    BY <1>2 DEF StatusIsFrom, StatusFrom
  <2>2. /\ req[r] \notin Told => AnswerOf(r) = "none"
        /\ req'[r] \notin Told => AnswerOf(r)' = "none"
        /\ req[r] = "pump" => AnswerOf(r) = "left"
        /\ req'[r] \in {"gone", "pump"} => AnswerOf(r)' = "left"
        /\ req'[r] = "done" /\ frames'[r] # "fail" => AnswerOf(r)' = "complete"
        /\ req'[r] = "done" /\ frames'[r] = "fail" => AnswerOf(r)' = "broken"
        /\ req'[r] = "lost" => AnswerOf(r)' = "broken"
    BY DEF AnswerOf, Told, Settled
  <2>3. CASE req'[r] = req[r]
    <3>1. req[r] = "done" => (frames'[r] = "fail" <=> frames[r] = "fail")
      BY <1>1, <1>2 DEF Moves, StatusFacts, Waits
    <3>2. AnswerOf(r)' = AnswerOf(r)
      BY <2>3, <3>1 DEF AnswerOf
    <3> QED
      BY <3>2 DEF Service!AnswerStep
  <2>4. CASE req[r] \notin Told /\ req'[r] \notin Told
    BY <2>2, <2>4 DEF Service!AnswerStep
  <2>5. CASE req[r] \notin Told /\ req'[r] \in {"gone", "pump"}
    BY <2>2, <2>5 DEF Service!AnswerStep
  <2>6. CASE req[r] \notin Told /\ req'[r] = "done" /\ Ended(r)
    <3>1. CASE frames[r] = "end"
      <4>1. frames'[r] # "fail"
        BY <1>1, <3>1 DEF Moves
      <4> QED
        BY <2>1, <2>2, <2>6, <3>1, <4>1 DEF Service!AnswerStep
    <3>2. CASE frames[r] = "fail"
      <4>1. frames'[r] = "fail"
        BY <1>1, <3>2 DEF Moves
      <4>2. ~Runs(r)' /\ ~Waits(r)'
        BY <1>2, <4>1 DEF StatusFacts, Waits, Ended
      <4>3. StatusOf(r)' = "dropped"
        BY <2>1, <2>6, <4>1, <4>2
      <4>4. AnswerOf(r) = "none" /\ AnswerOf(r)' = "broken"
        BY <2>2, <2>6, <4>1
      <4> QED
        BY <4>3, <4>4 DEF Service!AnswerStep
    <3> QED
      BY <2>6, <3>1, <3>2 DEF Ended
  <2>7. CASE req[r] \notin Told /\ req'[r] = "lost" /\ ~Ended(r)' /\ ~Open(r)'
    <3>1. ~Runs(r)' /\ ~Waits(r)'
      BY <1>2, <2>7 DEF StatusFacts, Waits
    <3>2. frames'[r] # "end"
      BY <2>7 DEF Ended
    <3> QED
      BY <2>1, <2>2, <2>7, <3>1, <3>2 DEF Service!AnswerStep
  <2>8. CASE req[r] = "pump" /\ req'[r] = "gone"
    BY <2>2, <2>8 DEF Service!AnswerStep
  <2> QED
    BY <1>1, <2>3, <2>4, <2>5, <2>6, <2>7, <2>8 DEF AnswerMoves
<1>5. Service!Cardinality(Service!Running') <= Concurrency
  <2>1. Service!Running' = {r \in Req : StatusOf(r) = "running"}'
    BY DEF Service!Running
  <2>2. Service!Cardinality(Service!Running') = Cardinality(Service!Running')
    BY DEF Service!Cardinality, Cardinality
  <2> QED
    BY <2>1, <2>2 DEF RunsAreBounded
<1> QED
  BY <1>3, <1>4, <1>5 DEF Service!Next

\* The request broker implements the same service as the pool, for any number
\* of requests, handlers and failing forks: a request that is not executed is
\* not answered as if it were, and one that is, once (docs/beyond-php/web.md,
\* "Request isolation"; process/request.rs).
THEOREM BrokerServes == Spec => ImplementsService
<1>1. Spec => [](ServiceInv /\ StatusInv /\ RunsAreBounded)
  BY ServiceInductive, StatusOfBroker, ConcurrencyIsCapped, RunningIsCapped, PTL
<1>2. ServiceInv /\ StatusInv /\ StatusInv' /\ RunsAreBounded' /\ [Next]_vars => Service!Next
  BY StepServes
<1> QED
  BY <1>1, <1>2, InitServes, PTL DEF Spec, ImplementsService, Service!Spec
=============================================================================
