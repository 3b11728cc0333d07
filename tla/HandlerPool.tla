----------------------------- MODULE HandlerPool -----------------------------
(***************************************************************************)
(* --web-isolation=pool: the broker that supervises a fixed set of         *)
(* persistent handler children (handler_broker/process/pool.rs, process.rs)*)
(* and the children themselves, composed with the web worker that          *)
(* dispatches to them (WorkerDispatch).                                    *)
(*                                                                         *)
(* The broker is one thread; pc says where in run()'s loop it stands.      *)
(* Between two of its steps the worker, its HTTP tasks and the children    *)
(* run, children die, and SIGTERM arrives.                                 *)
(***************************************************************************)
EXTENDS WorkerDispatch, SequencesExt

CONSTANTS MaxPids,          \* bound: processes the broker may fork
          Quota,            \* --max-handler-requests, 0 for never
          StatusCap,        \* datagrams the status socket queues before a sender blocks
          MaxCrashes,       \* bound: handlers that die of their own accord
          PeerCloseWakes    \* a blocked recv on a datagram pair returns when the peer closes

ASSUME PoolAssumption ==
    /\ MaxPids \in Nat /\ MaxPids >= Concurrency
    /\ Quota \in Nat
    /\ StatusCap \in Nat \ {0}
    /\ MaxCrashes \in Nat
    /\ PeerCloseWakes \in BOOLEAN

Pid   == 1 .. MaxPids
NoPid == 0
Slot  == 1 .. Concurrency

VARIABLES
    \* the broker
    pc, stopping,          \* loop position; BROKER_SHUTDOWN_REQUESTED
    slots,                 \* slots[s]: pid (NoPid once removed), busy, retiring
    pending, earlyCancels, greatestDispatch,
    ready,                 \* the readable descriptors of the last poll
    handing,               \* slot and id of the dispatch that waits for its child's ACK
    brokerFds,             \* ids whose stream descriptor the broker holds
    statusQ,               \* completion datagrams of the children
    nextPid, crashes,
    \* the children
    pstate, preq, served,  \* life cycle, current (or last) id, requests served
    inbox, ackbox,         \* the two directions of the slot's control pair
    childFds,              \* stream descriptors in the child's table
    runs                   \* history: how often a handler began to execute r

brokerVars == <<pc, stopping, slots, pending, earlyCancels, greatestDispatch,
                ready, handing, brokerFds>>
childVars  == <<pstate, preq, served, inbox, ackbox, childFds>>
poolVars   == <<brokerVars, childVars, statusQ, nextPid, crashes, runs>>
vars       == <<workerVars, poolVars>>

Live == {"recv", "ack", "run", "report", "quit"}

SlotRecord == [pid : Pid \cup {NoPid}, busy : Req \cup {NoReq}, retiring : BOOLEAN]
FreshSlot(p) == [pid |-> p, busy |-> NoReq, retiring |-> FALSE]
NoHanding == [slot |-> 0, id |-> NoReq]

BrokerUp == pc \notin {"down", "killed"}

\* The handler's end of the stream of r is open somewhere.
Open(r) ==
    \/ r \in workerFds \cup brokerFds
    \/ \E i \in 1 .. Len(dispatchQ) : dispatchQ[i] = r
    \/ \E p \in Pid : r \in childFds[p] \/ inbox[p] = r

PoolTypeOK ==
    /\ pc \in {"top", "reap", "assign", "ackwait", "ackfail", "poll", "status",
               "cancel", "dispatch", "exit", "down", "killed"}
    /\ stopping \in BOOLEAN
    /\ slots \in [Slot -> SlotRecord]
    /\ pending \in Seq(Req)
    /\ earlyCancels \subseteq Req
    /\ greatestDispatch \in Req \cup {NoReq}
    /\ ready \subseteq {"status", "cancel", "dispatch"}
    /\ handing \in [slot : Slot, id : Req] \cup {NoHanding}
    /\ brokerFds \subseteq Req
    /\ statusQ \in Seq([id : Req, retiring : BOOLEAN])
    /\ nextPid \in 1 .. MaxPids + 1
    /\ crashes \in 0 .. MaxCrashes
    /\ pstate \in [Pid -> {"unborn", "zombie", "reaped"} \cup Live]
    /\ preq \in [Pid -> Req \cup {NoReq}]
    /\ served \in [Pid -> Nat]
    /\ inbox \in [Pid -> Req \cup {NoReq}]
    /\ ackbox \in [Pid -> Req \cup {NoReq}]
    /\ childFds \in [Pid -> SUBSET Req]
    /\ runs \in [Req -> Nat]

TypeOK == WorkerTypeOK /\ PoolTypeOK

Init ==
    /\ WorkerInit
    /\ pc = "top" /\ stopping = FALSE
    /\ slots = [s \in Slot |-> FreshSlot(s)]
    /\ pending = <<>> /\ earlyCancels = {} /\ greatestDispatch = NoReq
    /\ ready = {} /\ handing = NoHanding /\ brokerFds = {}
    /\ statusQ = <<>>
    /\ nextPid = Concurrency + 1
    /\ crashes = 0
    /\ pstate = [p \in Pid |-> IF p <= Concurrency THEN "recv" ELSE "unborn"]
    /\ preq = [p \in Pid |-> NoReq]
    /\ served = [p \in Pid |-> 0]
    /\ inbox = [p \in Pid |-> NoReq]
    /\ ackbox = [p \in Pid |-> NoReq]
    /\ childFds = [p \in Pid |-> {}]
    /\ runs = [r \in Req |-> 0]

-----------------------------------------------------------------------------
(***************************************************************************)
(* Forking and replacing children.                                         *)
(***************************************************************************)

\* What a fork leaves open in the child: the broker's descriptors except the
\* ones spawn_pool_child closes, the channels of every pending dispatch.
\* Mutant: it closes none of them.
MutInheritedFds(fds) == fds
InheritedFds(fds) == fds \ Range(pending)

\* kill_and_reap of the old child of s, then spawn_pool_child in its place;
\* the broker's table holds fds by then.  A failed fork ends the loop.
Respawn(s, fds, next) ==
    LET old  == slots[s].pid
        dead == [pstate EXCEPT ![old] = "reaped"]
        gone == [childFds EXCEPT ![old] = {}]
    IN  /\ inbox'  = [inbox  EXCEPT ![old] = NoReq]
        /\ ackbox' = [ackbox EXCEPT ![old] = NoReq]
        /\ preq'   = [preq   EXCEPT ![old] = NoReq]
        /\ served' = [served EXCEPT ![old] = 0]
        /\ brokerFds' = fds
        /\ IF nextPid <= MaxPids
           THEN /\ slots' = [slots EXCEPT ![s] = FreshSlot(nextPid)]
                /\ pstate' = [dead EXCEPT ![nextPid] = "recv"]
                /\ childFds' = [gone EXCEPT ![nextPid] = InheritedFds(fds)]
                /\ nextPid' = nextPid + 1
                /\ pc' = next
           ELSE /\ slots' = [slots EXCEPT ![s] = FreshSlot(NoPid)]
                /\ pstate' = dead
                /\ childFds' = gone
                /\ pc' = "exit"
                /\ UNCHANGED nextPid

\* The first slot whose child is thought to be idle.
Assignable(slot) == slot.pid # NoPid /\ slot.busy = NoReq /\ ~slot.retiring
FirstIdle(s) == /\ Assignable(slots[s])
                /\ \A t \in Slot : t < s => ~Assignable(slots[t])

-----------------------------------------------------------------------------
(***************************************************************************)
(* The broker's loop.                                                      *)
(***************************************************************************)
BrokerTop ==
    /\ pc = "top"
    /\ pc' = IF stopping THEN "exit" ELSE "reap"
    /\ UNCHANGED <<workerVars, stopping, slots, pending, earlyCancels,
                   greatestDispatch, ready, handing, brokerFds, childVars,
                   statusQ, nextPid, crashes, runs>>

\* One round of reap_and_replace_pool: waitpid(-1, WNOHANG) found a child.
BrokerReap ==
    /\ pc = "reap"
    /\ \E s \in Slot :
          /\ slots[s].pid # NoPid
          /\ pstate[slots[s].pid] = "zombie"
          /\ Respawn(s, brokerFds, "reap")
    /\ UNCHANGED <<workerVars, stopping, pending, earlyCancels, greatestDispatch,
                   ready, handing, statusQ, crashes, runs>>

\* ... or found none.
BrokerReapedAll ==
    /\ pc = "reap"
    /\ \A p \in Pid : pstate[p] # "zombie"
    /\ pc' = "assign"
    /\ UNCHANGED <<workerVars, stopping, slots, pending, earlyCancels,
                   greatestDispatch, ready, handing, brokerFds, childVars,
                   statusQ, nextPid, crashes, runs>>

\* The dispatch to a child whose end of the control pair is closed is refused:
\* the request's channel is closed and the slot replaced.
\* Otherwise the broker blocks in recv_id until the child acknowledges.
BrokerAssign ==
    /\ pc = "assign"
    /\ pending # <<>>
    /\ pending' = Tail(pending)
    /\ \E s \in Slot :
          /\ FirstIdle(s)
          /\ IF pstate[slots[s].pid] \in Live
             THEN /\ inbox' = [inbox EXCEPT ![slots[s].pid] = Head(pending)]
                  /\ handing' = [slot |-> s, id |-> Head(pending)]
                  /\ pc' = "ackwait"
                  /\ UNCHANGED <<slots, pstate, preq, served, ackbox, childFds,
                                 brokerFds, nextPid>>
             ELSE /\ Respawn(s, brokerFds \ {Head(pending)}, "assign")
                  /\ UNCHANGED handing
    /\ UNCHANGED <<workerVars, stopping, earlyCancels, greatestDispatch, ready,
                   statusQ, crashes, runs>>

\* Nothing more to assign; getppid() tells whether the worker is still there.
BrokerAssigned ==
    /\ pc = "assign"
    /\ pending = <<>> \/ \A s \in Slot : ~Assignable(slots[s])
    /\ pc' = IF ParentGone THEN "exit" ELSE "poll"
    /\ UNCHANGED <<workerVars, stopping, slots, pending, earlyCancels,
                   greatestDispatch, ready, handing, brokerFds, childVars,
                   statusQ, nextPid, crashes, runs>>

BrokerAckArrives ==
    /\ pc = "ackwait"
    /\ ackbox[slots[handing.slot].pid] = handing.id
    /\ ackbox' = [ackbox EXCEPT ![slots[handing.slot].pid] = NoReq]
    /\ slots' = [slots EXCEPT ![handing.slot].busy = handing.id]
    /\ brokerFds' = brokerFds \ {handing.id}
    /\ handing' = NoHanding
    /\ pc' = "assign"
    /\ UNCHANGED <<workerVars, stopping, pending, earlyCancels, greatestDispatch,
                   ready, pstate, preq, served, inbox, childFds, statusQ, nextPid,
                   crashes, runs>>

\* recv_id fails: the closed peer wakes it (where the platform does that), or
\* it was interrupted while shutting down.
BrokerAckFails ==
    /\ \/ pc = "ackfail"
       \/ /\ pc = "ackwait"
          /\ PeerCloseWakes
          /\ pstate[slots[handing.slot].pid] = "zombie"
          /\ ackbox[slots[handing.slot].pid] = NoReq
    /\ Respawn(handing.slot, brokerFds \ {handing.id}, "assign")
    /\ handing' = NoHanding
    /\ UNCHANGED <<workerVars, stopping, pending, earlyCancels, greatestDispatch,
                   ready, statusQ, crashes, runs>>

\* The readable descriptors are served in this order, one datagram each.
NextReady(channels) ==
    CASE "status" \in channels -> "status"
      [] "status" \notin channels /\ "cancel" \in channels -> "cancel"
      [] channels = {"dispatch"} -> "dispatch"
      [] OTHER -> "top"

BrokerPoll ==
    /\ pc = "poll"
    /\ ready' = {c \in {"status", "cancel", "dispatch"} :
                    \/ c = "status" /\ statusQ # <<>>
                    \/ c = "cancel" /\ cancelQ # <<>>
                    \/ c = "dispatch" /\ dispatchQ # <<>>}
    /\ pc' = NextReady(ready')
    /\ UNCHANGED <<workerVars, stopping, slots, pending, earlyCancels,
                   greatestDispatch, handing, brokerFds, childVars, statusQ,
                   nextPid, crashes, runs>>

\* Mutant: any busy slot.
MutServing(slot, id) == slot.pid # NoPid /\ slot.busy # NoReq
Serving(slot, id) == slot.pid # NoPid /\ slot.busy = id

\* The slot a completion frees, if any still serves that id.
\* Mutants: the retirement is forgotten; only a retirement is recorded.
MutCompleted(slot, status) ==
    IF Serving(slot, status.id) THEN [slot EXCEPT !.busy = NoReq] ELSE slot
MutCompletedRetiring(slot, status) ==
    IF Serving(slot, status.id) /\ status.retiring
    THEN [slot EXCEPT !.busy = NoReq, !.retiring = TRUE]
    ELSE slot
Completed(slot, status) ==
    IF Serving(slot, status.id)
    THEN [slot EXCEPT !.busy = NoReq, !.retiring = status.retiring]
    ELSE slot

BrokerStatus ==
    /\ pc = "status"
    /\ slots' = [s \in Slot |-> Completed(slots[s], Head(statusQ))]
    /\ statusQ' = Tail(statusQ)
    /\ ready' = ready \ {"status"}
    /\ pc' = NextReady(ready')
    /\ UNCHANGED <<workerVars, stopping, pending, earlyCancels, greatestDispatch,
                   handing, brokerFds, childVars, nextPid, crashes, runs>>

\* cancel_pool_request: exactly one of the three cases applies to an id.
CancelBusy(id, next) ==
    /\ \E s \in Slot : Serving(slots[s], id) /\ Respawn(s, brokerFds, next)
    /\ UNCHANGED <<pending, earlyCancels>>

CancelQueued(id, next) ==
    /\ \A s \in Slot : ~Serving(slots[s], id)
    /\ \E i \in 1 .. Len(pending) :
          /\ pending[i] = id
          /\ pending' = RemoveAt(pending, i)
          /\ brokerFds' = brokerFds \ {id}
    /\ pc' = next
    /\ UNCHANGED <<slots, earlyCancels, childVars, nextPid>>

CancelUnknown(id, next) ==
    /\ \A s \in Slot : ~Serving(slots[s], id)
    /\ \A i \in 1 .. Len(pending) : pending[i] # id
    /\ earlyCancels' = IF id > greatestDispatch THEN earlyCancels \cup {id}
                                                ELSE earlyCancels
    /\ pc' = next
    /\ UNCHANGED <<slots, pending, brokerFds, childVars, nextPid>>

BrokerCancel ==
    /\ pc = "cancel"
    /\ ready' = ready \ {"cancel"}
    /\ LET id == Head(cancelQ)  next == NextReady(ready') IN
       CancelBusy(id, next) \/ CancelQueued(id, next) \/ CancelUnknown(id, next)
    /\ cancelQ' = Tail(cancelQ)
    /\ UNCHANGED <<worker, waiting, nextId, req, dispatching, workerFds, cancels, dispatchQ,
                   ackQ, frames, stopping, greatestDispatch, handing, statusQ,
                   crashes, runs>>

\* receive_acknowledged_dispatch: the ACK to a worker that is gone fails,
\* which closes the channel and ends the loop.
Enqueue(id) ==
    /\ ackQ' = Append(ackQ, id)
    /\ greatestDispatch' = IF id > greatestDispatch THEN id ELSE greatestDispatch
    /\ earlyCancels' = earlyCancels \ {id}
    /\ IF id \in earlyCancels
       THEN UNCHANGED <<pending, brokerFds>>
       ELSE /\ pending' = Append(pending, id)
            /\ brokerFds' = brokerFds \cup {id}

BrokerDispatch ==
    /\ pc = "dispatch"
    /\ ready' = {}
    /\ dispatchQ' = Tail(dispatchQ)
    /\ \/ worker = "up" /\ pc' = "top" /\ Enqueue(Head(dispatchQ))
       \/ /\ worker = "gone" /\ pc' = "exit"
          /\ UNCHANGED <<ackQ, greatestDispatch, earlyCancels, pending, brokerFds>>
    /\ UNCHANGED <<worker, waiting, nextId, req, dispatching, workerFds, cancels, cancelQ,
                   frames, stopping, slots, handing, childVars, statusQ, nextPid,
                   crashes, runs>>

\* Leaving run(): close the pending channels, terminate_pool, exit.
\* Mutant: only the busy ones.
MutTerminated(p) == \E s \in Slot : slots[s].pid = p /\ slots[s].busy # NoReq
Terminated(p) == \E s \in Slot : slots[s].pid = p

BrokerExit ==
    /\ pc = "exit"
    /\ pc' = "down"
    /\ pending' = <<>>
    /\ brokerFds' = {}
    /\ pstate' = [p \in Pid |-> IF Terminated(p) THEN "reaped" ELSE pstate[p]]
    /\ inbox' = [p \in Pid |-> IF Terminated(p) THEN NoReq ELSE inbox[p]]
    /\ childFds' = [p \in Pid |-> IF Terminated(p) THEN {} ELSE childFds[p]]
    /\ dispatchQ' = <<>>
    /\ UNCHANGED <<worker, waiting, nextId, req, dispatching, workerFds, cancels, ackQ,
                   cancelQ, frames, stopping, slots, earlyCancels,
                   greatestDispatch, ready, handing, preq, served, ackbox, statusQ,
                   nextPid, crashes, runs>>

\* SIGTERM, forwarded by the worker's handler.  It sets the flag; whether it
\* still finds the broker blocked in recv_id is a race.
BrokerSigterm ==
    /\ BrokerUp
    /\ ~stopping
    /\ stopping' = TRUE
    /\ pc' \in (IF pc = "ackwait" THEN {"ackwait", "ackfail"} ELSE {pc})
    /\ UNCHANGED <<workerVars, slots, pending, earlyCancels, greatestDispatch,
                   ready, handing, brokerFds, childVars, statusQ, nextPid,
                   crashes, runs>>

\* SIGKILL: the children are left behind, the descriptors close.
BrokerKilled ==
    /\ BrokerUp
    /\ pc' = "killed"
    /\ brokerFds' = {}
    /\ pending' = <<>>
    /\ dispatchQ' = <<>>
    /\ UNCHANGED <<worker, waiting, nextId, req, dispatching, workerFds, cancels, ackQ,
                   cancelQ, frames, stopping, slots, earlyCancels,
                   greatestDispatch, ready, handing, childVars, statusQ, nextPid,
                   crashes, runs>>

\* SIGCHLD, on any child's exit, interrupts the recv_id of a broker that is
\* already stopping.
SigchldInterrupts ==
    pc' \in (IF pc = "ackwait" /\ stopping THEN {"ackwait", "ackfail"} ELSE {pc})

-----------------------------------------------------------------------------
(***************************************************************************)
(* A pool child: run_pool_child and execute_handler_request.               *)
(***************************************************************************)
ChildReceive(p) ==
    /\ pstate[p] = "recv"
    /\ inbox[p] # NoReq
    /\ preq' = [preq EXCEPT ![p] = inbox[p]]
    /\ inbox' = [inbox EXCEPT ![p] = NoReq]
    /\ childFds' = [childFds EXCEPT ![p] = @ \cup {inbox[p]}]
    /\ pstate' = [pstate EXCEPT ![p] = "ack"]
    /\ UNCHANGED <<workerVars, brokerVars, served, ackbox, statusQ, nextPid,
                   crashes, runs>>

\* recv_dispatch sees the broker's end closed: _exit(0).
ChildOrphaned(p) ==
    /\ pstate[p] = "recv"
    /\ inbox[p] = NoReq
    /\ ~BrokerUp
    /\ PeerCloseWakes
    /\ pstate' = [pstate EXCEPT ![p] = "zombie"]
    /\ childFds' = [childFds EXCEPT ![p] = {}]
    /\ UNCHANGED <<workerVars, brokerVars, preq, served, inbox, ackbox, statusQ,
                   nextPid, crashes, runs>>

\* The ACK, and the handler begins; _exit(1) when the broker is gone.
ChildAck(p) ==
    /\ pstate[p] = "ack"
    /\ IF BrokerUp
       THEN /\ ackbox' = [ackbox EXCEPT ![p] = preq[p]]
            /\ pstate' = [pstate EXCEPT ![p] = "run"]
            /\ runs' = [runs EXCEPT ![preq[p]] = @ + 1]
            /\ UNCHANGED childFds
       ELSE /\ pstate' = [pstate EXCEPT ![p] = "zombie"]
            /\ childFds' = [childFds EXCEPT ![p] = {}]
            /\ UNCHANGED <<ackbox, runs>>
    /\ UNCHANGED <<workerVars, brokerVars, preq, served, inbox, statusQ, nextPid,
                   crashes>>

\* The first output is flushed as the Start frame.
ChildStart(p) ==
    /\ pstate[p] = "run"
    /\ frames[preq[p]] = "none"
    /\ frames' = [frames EXCEPT ![preq[p]] = "start"]
    /\ UNCHANGED <<worker, waiting, nextId, req, dispatching, workerFds, cancels, dispatchQ,
                   ackQ, cancelQ, poolVars>>

\* More output; the pump of a client that is still there passes it on at once.
ChildWrites(p) ==
    /\ pstate[p] = "run"
    /\ req[preq[p]] = "pump"
    /\ frames[preq[p]] = "start"
    /\ frames' = [frames EXCEPT ![preq[p]] = "chunk"]
    /\ UNCHANGED <<worker, waiting, nextId, req, dispatching, workerFds, cancels, dispatchQ,
                   ackQ, cancelQ, poolVars>>

\* finish_response_stream wrote End; the stream is dropped on return.
ChildFinish(p) ==
    /\ pstate[p] = "run"
    /\ frames' = [frames EXCEPT ![preq[p]] = "end"]
    /\ childFds' = [childFds EXCEPT ![p] = @ \ {preq[p]}]
    /\ served' = [served EXCEPT ![p] = @ + 1]
    /\ pstate' = [pstate EXCEPT ![p] = "report"]
    /\ UNCHANGED <<worker, waiting, nextId, req, dispatching, workerFds, cancels, dispatchQ,
                   ackQ, cancelQ, brokerVars, preq, inbox, ackbox, statusQ, nextPid,
                   crashes, runs>>

\* The reader left before the request was read or the response written: the
\* handler reports an incomplete request by _exit(3).
ChildIncomplete(p) ==
    /\ pstate[p] = "run"
    /\ req[preq[p]] \in Settled
    /\ served' = [served EXCEPT ![p] = @ + 1]
    /\ pstate' = [pstate EXCEPT ![p] = "zombie"]
    /\ childFds' = [childFds EXCEPT ![p] = {}]
    /\ SigchldInterrupts
    /\ UNCHANGED <<workerVars, stopping, slots, pending, earlyCancels,
                   greatestDispatch, ready, handing, brokerFds,
                   preq, inbox, ackbox, statusQ, nextPid,
                   crashes, runs>>

Retiring(p) == Quota > 0 /\ served[p] >= Quota

\* send_status, blocking while the socket's queue is full; _exit(2) when the
\* broker is gone.
ChildReport(p) ==
    /\ pstate[p] = "report"
    /\ IF BrokerUp
       THEN /\ Len(statusQ) < StatusCap
            /\ statusQ' = Append(statusQ, [id |-> preq[p], retiring |-> Retiring(p)])
            /\ pstate' = [pstate EXCEPT ![p] = IF Retiring(p) THEN "quit" ELSE "recv"]
            /\ UNCHANGED childFds
       ELSE /\ pstate' = [pstate EXCEPT ![p] = "zombie"]
            /\ childFds' = [childFds EXCEPT ![p] = {}]
            /\ UNCHANGED statusQ
    /\ UNCHANGED <<workerVars, brokerVars, preq, served, inbox, ackbox, nextPid,
                   crashes, runs>>

ChildQuit(p) ==
    /\ pstate[p] = "quit"
    /\ pstate' = [pstate EXCEPT ![p] = "zombie"]
    /\ childFds' = [childFds EXCEPT ![p] = {}]
    /\ SigchldInterrupts
    /\ UNCHANGED <<workerVars, stopping, slots, pending, earlyCancels,
                   greatestDispatch, ready, handing, brokerFds,
                   preq, served, inbox, ackbox, statusQ,
                   nextPid, crashes, runs>>

\* --max-execution-time, a fatal error, an external kill.
ChildDies(p) ==
    /\ pstate[p] \in Live
    /\ crashes < MaxCrashes                     \* bound
    /\ crashes' = crashes + 1
    /\ pstate' = [pstate EXCEPT ![p] = "zombie"]
    /\ childFds' = [childFds EXCEPT ![p] = {}]
    /\ inbox' = [inbox EXCEPT ![p] = NoReq]
    /\ SigchldInterrupts
    /\ UNCHANGED <<workerVars, stopping, slots, pending, earlyCancels,
                   greatestDispatch, ready, handing, brokerFds, preq, served,
                   ackbox, statusQ, nextPid, runs>>

-----------------------------------------------------------------------------
WorkerTask(r) == ReadStart(r) \/ ReadEnd(r) \/ ReadEof(r, Open(r)) \/ ChunkRefused(r)

WorkerStep ==
    /\ \/ AcquirePermit \/ AbandonWait
       \/ SendDispatch(BrokerUp)
       \/ ReceiveAck
       \/ \E r \in Req : WorkerTask(r) \/ WriteTimesOut(r) \/ ClientLeaves(r)
       \/ SendCancel(BrokerUp)
       \/ WorkerExit
    /\ UNCHANGED poolVars

BrokerStep ==
    \/ BrokerTop \/ BrokerReap \/ BrokerReapedAll \/ BrokerAssign \/ BrokerAssigned
    \/ BrokerAckArrives \/ BrokerAckFails
    \/ BrokerPoll \/ BrokerStatus \/ BrokerCancel \/ BrokerDispatch \/ BrokerExit

ChildStep(p) ==
    \/ ChildReceive(p) \/ ChildOrphaned(p) \/ ChildAck(p) \/ ChildStart(p)
    \/ ChildWrites(p) \/ ChildFinish(p) \/ ChildIncomplete(p) \/ ChildReport(p) \/ ChildQuit(p)

Next ==
    \/ WorkerStep
    \/ BrokerStep \/ BrokerSigterm \/ BrokerKilled
    \/ \E p \in Pid : ChildStep(p) \/ ChildDies(p)

Spec == Init /\ [][Next]_vars

Settles(r) == WorkerTask(r) /\ UNCHANGED poolVars

\* The broker and the worker's tasks get to run, and so does a child outside
\* PHP code; nothing says that a handler ever returns.
Fairness ==
    /\ WF_vars(BrokerStep)
    /\ WF_vars(SendDispatch(BrokerUp) /\ UNCHANGED poolVars)
    /\ WF_vars(ReceiveAck /\ UNCHANGED poolVars)
    /\ WF_vars(SendCancel(BrokerUp) /\ UNCHANGED poolVars)
    /\ \A r \in Req : WF_vars(Settles(r))
    /\ WF_vars(~BrokerUp /\ WorkerExit /\ UNCHANGED poolVars)
    /\ \A p \in Pid : WF_vars(pstate[p] # "run" /\ ChildStep(p))

FairSpec == Spec /\ Fairness

-----------------------------------------------------------------------------
(***************************************************************************)
(* Safety.                                                                 *)
(***************************************************************************)

\* The broker's table and the processes agree: no two slots name one child,
\* no slot names a child that was already reaped (its pid may belong to a
\* stranger, and kill_and_reap would hit it), and a busy slot's child has
\* that very request, so a cancellation can only hit the handler it is for.
SlotsOwnTheirChildren ==
    BrokerUp => \A s \in Slot : slots[s].pid # NoPid =>
        /\ pstate[slots[s].pid] \notin {"unborn", "reaped"}
        /\ slots[s].busy # NoReq => preq[slots[s].pid] = slots[s].busy
        /\ \A t \in Slot \ {s} : slots[t].pid # slots[s].pid

\* A child whose quota is used up is never sent another request, although its
\* completion, its exit and the broker's assignments race.
RetiredIsNotReused ==
    \A p \in Pid : inbox[p] # NoReq => Quota = 0 \/ served[p] < Quota

\* The two together: what the broker believes of its children is true of them.
TableIsTrue == TypeOK /\ SlotsOwnTheirChildren /\ RetiredIsNotReused

\* A child's table has the stream of its own request and no other: a copy
\* inherited across fork would keep another request's stream from ending.
NoForeignStream == \A p \in Pid : \A r \in childFds[p] : preq[p] = r

\* The acknowledgement on the wire is the lock holder's, whoever vanished in
\* between, and a cancellation never overtakes the dispatch it cancels, so
\* early_cancels is never used.
AckIsTheHolders == \A i \in 1 .. Len(ackQ) : worker = "up" => ackQ[i] = dispatching
CancelFollowsDispatch == earlyCancels = {}

\* While it is not shutting down the broker kills a child in the middle of a
\* request only for that request's cancellation.
Killed(p) == pstate[p] \in {"ack", "run"} /\ pstate'[p] = "reaped"
KillsOnlyCancelled ==
    [][\A p \in Pid : Killed(p) /\ ~stopping /\ pc # "exit"
            => req[preq[p]] \in {"gone", "lost"}]_vars

-----------------------------------------------------------------------------
(***************************************************************************)
(* The promise of RequestService, implemented.                             *)
(***************************************************************************)
StatusOf(r) ==
    CASE frames[r] = "end" -> "finished"
      [] frames[r] # "end" /\ \E p \in Pid : pstate[p] = "run" /\ preq[p] = r -> "running"
      [] req[r] = "new" -> "idle"
      [] OTHER -> IF runs[r] = 0 /\ Open(r) THEN "queued" ELSE "dropped"

AnswerOf(r) ==
    CASE req[r] = "done" -> "complete"
      [] req[r] = "lost" -> "broken"
      [] req[r] \in {"gone", "pump"} -> "left"
      [] OTHER -> "none"

Service == INSTANCE RequestService WITH
              Requests <- Req, Limit <- Concurrency,
              status <- [r \in Req |-> StatusOf(r)],
              answer <- [r \in Req |-> AnswerOf(r)]

\* The pool implements the request service: no request is executed twice, no
\* more than Concurrency at a time, and no client is told what did not happen.
ImplementsService == Service!Spec

-----------------------------------------------------------------------------
(***************************************************************************)
(* Liveness.                                                               *)
(***************************************************************************)

\* If no handler runs for ever, every dispatched request is settled: its
\* client has the response or an error, and its permit is free again.
RequestsSettle ==
    (\A p \in Pid : []<>(pstate[p] # "run"))
        => \A r \in Req : (req[r] = "sent") ~> (req[r] \in Settled)

\* A handler whose client left is stopped, even one that never returns: at once
\* before its first output, and after it with the next.  A handler that has
\* begun its output and stays silent goes on, and keeps its permit.
CancelledStops ==
    \A r \in Req : (req[r] = "gone" \/ (req[r] = "pump" /\ frames[r] = "chunk"))
        ~> \/ pc = "killed"
           \/ \A p \in Pid : preq[p] = r => pstate[p] \notin {"ack", "run"}

\* SIGTERM, or the worker's death, takes the broker and all its children down.
ShutdownCompletes ==
    (stopping \/ worker = "gone")
        ~> \/ pc = "killed"
           \/ pc = "down" /\ \A p \in Pid : pstate[p] \in {"unborn", "reaped"}

\* "A crashed, cancelled, timed-out, or quota-retired child is reaped and
\* replaced" (docs/beyond-php/web.md): no dead child stays in its slot.
DeadChildIsReaped ==
    \A p \in Pid : (pstate[p] = "zombie") ~> (pstate[p] = "reaped" \/ pc = "killed")
=============================================================================
